---------------------------- MODULE RaftProgress ----------------------------
(***************************************************************************)
(* What the nodes of Raft achieve once the cluster has settled: from then  *)
(* on no packet is lost, no node crashes or times out but the leader of    *)
(* the newest term, whose heartbeats are answered before the next ones are *)
(* due.  Until then anything may have happened, and what it left in logs,  *)
(* indexes and the network is still there.                                 *)
(***************************************************************************)
EXTENDS Raft

VARIABLE settled

Leading(i) == role[i] = "LEADER" /\ \A j \in Server : currentTerm[j] <= currentTerm[i]

Settle ==
    /\ \E i \in Server : Leading(i)
    /\ settled' = TRUE
    /\ UNCHANGED vars

(* Of the outcomes of an action, the one in which nothing it sends is lost. *)
Lossless(received, sent) == BagCardinality(net') = BagCardinality(net) - received + sent

(* A request is answered by one packet, an answer by none. *)
HandlePacket ==
    \E m \in BagToSet(net) :
        /\ raft_handle_rpc(m.dst, m)
        /\ Lossless(1, IF m.code \in {"RPC_CALL_APPEND_ENT", "RPC_CALL_REQ_VOTE"} THEN 1 ELSE 0)

(* Heartbeats of a round that was answered in full. *)
Beat ==
    /\ net = EmptyBag
    /\ \E i \in Server : Leading(i) /\ HeartbeatTimeout(i)
    /\ Lossless(0, Cardinality(Server) - 1)

(* Requests, which are interchangeable, are numbers and come in order. *)
InOrder == \A q, r \in Request : q < r /\ client[q] = "idle" => client[r] = "idle"

NewRequest ==
    /\ \E i \in Server, r \in Request : Leading(i) /\ handle_proc_request(i, r)
    /\ InOrder'
    /\ Lossless(0, Cardinality(Server) - 1)

(* A node has just won the first election, and one ballot may have been     *)
(* lost.  Nodes are interchangeable, so it is always the same ones.         *)
ProgressInit ==
    LET i == CHOOSE i \in Server : TRUE
        k == CHOOSE j \in Server : j # i
    IN  \E quorum \in {Server, Server \ {k}} :
            /\ currentTerm = [j \in Server |-> IF j \in quorum THEN 1 ELSE 0]
            /\ votedFor = [j \in Server |-> IF j \in quorum THEN i ELSE Nil]
            /\ log = [j \in Server |-> <<>>]
            /\ role = [j \in Server |-> IF j = i THEN "LEADER" ELSE "FOLLOWER"]
            /\ leaderId = [j \in Server |-> IF j \in quorum \ {i} THEN i ELSE Nil]
            /\ votesReceived = [j \in Server |-> IF j = i THEN Cardinality(quorum) ELSE 0]
            /\ voters = [j \in Server |-> IF j = i THEN quorum ELSE {}]
            /\ commitIndex = [j \in Server |-> -1]
            /\ lastApplied = [j \in Server |-> -1]
            /\ nextIndex = [j \in Server |-> [n \in Server |-> 0]]
            /\ matchIndex = [j \in Server |-> [n \in Server |-> -1]]
            /\ outstanding = [j \in Server |-> {}]
            /\ net = EmptyBag
            /\ client = [r \in Request |-> "idle"]
            /\ restarts = 0
            /\ elected = {[term |-> 1, leader |-> i, quorum |-> quorum]}
            /\ chosen = <<>>
            /\ leaderLog = [t \in Term |-> <<>>]
            /\ settled = FALSE

(* Behaviours in which the leadership is lost before the cluster settles    *)
(* say nothing of it and are left out.                                      *)
ProgressNext ==
    \/ ~ settled /\ Next /\ (\E i \in Server : Leading(i)') /\ InOrder' /\ UNCHANGED settled
    \/ Settle
    \/ settled /\ (HandlePacket \/ Beat \/ NewRequest) /\ UNCHANGED settled

(* raft_run goes on: packets are handled, the heartbeat timer expires. *)
ProgressSpec ==
    /\ ProgressInit /\ [][ProgressNext]_<<vars, settled>>
    /\ WF_<<vars, settled>>(settled /\ (HandlePacket \/ Beat) /\ UNCHANGED settled)

-----------------------------------------------------------------------------
(* A leader whose whole log, ended by an entry of its own term, is on the  *)
(* disks of a majority.                                                    *)
Held(i) ==
    /\ Leading(i) /\ log[i] # <<>>
    /\ log[i][Len(log[i])].term = currentTerm[i]
    /\ Majority(Cardinality({j \in Server : log[j] = log[i]}))

(* Everything such a leader has is eventually applied, by it and by those  *)
(* who hold it, and its clients are answered, although acknowledgements    *)
(* were lost, came late and set match_index back, carried a stale term, or *)
(* a restart forgot the commit index: heartbeats alone repair it.          *)
HeldIsApplied ==
    settled /\ (\E i \in Server : Held(i)) ~>
        \A i \in Server : Leading(i) =>
            /\ \A j \in Server : log[j] = log[i] => lastApplied[j] = Len(log[i]) - 1
            /\ \A k \in DOMAIN log[i] : log[i][k].req \notin outstanding[i]
=============================================================================
