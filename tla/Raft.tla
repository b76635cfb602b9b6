-------------------------------- MODULE Raft --------------------------------
(***************************************************************************)
(* The consensus core of the node (src/raft.c): elections, log             *)
(* replication, commitment and application, with crashes and restarts.     *)
(*                                                                         *)
(* One process runs raft_run, a single-threaded loop that handles one      *)
(* packet or one timer expiry at a time.  Each branch of a handler is one  *)
(* action here, taken together with every durable write and every send it  *)
(* makes.  The durable writes of one handler are separate fsyncs; the      *)
(* crashes that fall between two of them are the Torn actions.             *)
(*                                                                         *)
(* Timers are abstracted: an expiry may happen in any state, whatever the  *)
(* timeout scheme decided.  Log indexes are those of the C code: 0-based,  *)
(* -1 for "none", and unsigned on the wire.                                *)
(***************************************************************************)
EXTENDS Integers, FiniteSets, Sequences, Bags, FiniteSetsExt

CONSTANTS
    Server,                     \* the node ids 0 .. num_nodes-1
    Request,                    \* client commands, one per (client_id, cmd_seqno)
    Nil,                        \* NO_LEADER and PF_NO_VOTE_V
    MAX_APPEND_ENTRIES_N,       \* entries carried by one AppendEntries
    MAX_OUTSTANDING_REQUESTS,   \* slots of outstanding_reqs
    Word,                       \* 2^32, scaled down for TLC
    MaxTerm,                    \* bound: no election is started beyond this term
    MaxLogLen,                  \* bound: entries in a log; an index fits an int
    MaxInFlight,                \* bound: packets in the network
    MaxRestarts                 \* bound: crashes of the whole cluster

ASSUME ServerAssumption == IsFiniteSet(Server) /\ Nil \notin Server
ASSUME WordAssumption ==
    Word \in Nat /\ MaxLogLen \in Nat \ {0} /\ 2 * MaxLogLen < Word
ASSUME CapacityAssumption ==
    MAX_APPEND_ENTRIES_N \in Nat \ {0} /\ MAX_OUTSTANDING_REQUESTS \in Nat
ASSUME BoundAssumption ==
    MaxTerm \in Nat /\ MaxInFlight \in Nat /\ MaxRestarts \in Nat

VARIABLES
    currentTerm, votedFor, log,          \* durable: PF_CURRENT_TERM, PF_VOTED_FOR, log
    role, leaderId, votesReceived,       \* volatile, see raft_node_t
    commitIndex, lastApplied,
    nextIndex, matchIndex, outstanding,
    net,                                 \* bag of packets in flight
    client,                              \* what the cluster did with each request
    restarts,                            \* crashes so far, counted for MaxRestarts
    voters, elected, chosen, leaderLog   \* history, never read by a guard

durable == <<currentTerm, votedFor, log>>
electionVars == <<role, leaderId, votesReceived, voters>>
leaderVars == <<nextIndex, matchIndex>>
commitVars == <<commitIndex, lastApplied, outstanding, client>>
history == <<elected, chosen, leaderLog>>
vars == <<durable, electionVars, leaderVars, commitVars, net, restarts, history>>

-----------------------------------------------------------------------------
(* Integers of the C program *)

(* (uint32_t)x for the result x of one addition or subtraction, and (int)x  *)
(* for an unsigned x.                                                       *)
U32(x) == IF x < 0 THEN x + Word ELSE IF x >= Word THEN x - Word ELSE x
I32(x) == IF 2 * x >= Word THEN x - Word ELSE x

Role == {"FOLLOWER", "CANDIDATE", "LEADER"}
Term == 0 .. MaxTerm
Entry == [term : Term, req : Request]
Index == -1 .. MaxLogLen - 1               \* int: -1 is "before the first entry"
LogType == {l \in Seq(Entry) : Len(l) <= MaxLogLen}
Wire == 0 .. MaxLogLen - 1 \cup {Word - 1}  \* the same as uint32_t

(* raft_get_log_term: 0 stands for an entry outside the log. *)
raft_get_log_term(l, k) == IF k < 0 \/ k >= Len(l) THEN 0 ELSE l[k + 1].term

(* Mutant: equal last terms are enough, the lengths are not compared. *)
UpToDateByTermOnly(l, lastIdx, lastTerm) == raft_get_log_term(l, Len(l) - 1) <= lastTerm

(* log_is_up_to_date: the comparison of the indexes is unsigned. *)
log_is_up_to_date(l, lastIdx, lastTerm) ==
    LET mine == raft_get_log_term(l, Len(l) - 1)
    IN  \/ mine < lastTerm
        \/ mine = lastTerm /\ U32(Len(l) - 1) <= lastIdx

(* Mutant: half of the nodes, rounded down, is enough. *)
HalfIsEnough(n) == n >= Cardinality(Server) \div 2

Majority(n) == n > Cardinality(Server) \div 2

-----------------------------------------------------------------------------
(* Packets.  The src of a packet is the id its sender also puts into the   *)
(* leader_id or candidate_id field, which is where replies go.             *)

append_entries_req_t ==
    {m \in [code : {"RPC_CALL_APPEND_ENT"}, src : Server, dst : Server, term : Term,
            prev_log_idx : Wire, prev_log_term : Term, leader_commit : Index,
            entries : Seq(Entry)] :
        I32(m.prev_log_idx) + Len(m.entries) < MaxLogLen}
append_entries_res_t ==
    [code : {"RPC_RESP_APPEND_ENT"}, src : Server, dst : Server, term : Term,
     new_match_index : Wire, success : BOOLEAN]
request_vote_req_t ==
    [code : {"RPC_CALL_REQ_VOTE"}, src : Server, dst : Server, term : Term,
     last_log_idx : Wire, last_log_term : Term]
request_vote_res_t ==
    [code : {"RPC_RESP_REQ_VOTE"}, src : Server, dst : Server, term : Term,
     vote_granted : BOOLEAN]
Packet == append_entries_req_t \cup append_entries_res_t
            \cup request_vote_req_t \cup request_vote_res_t

(* The transport loses and reorders but does not duplicate packets.  Every *)
(* caller ignores the result of transport.send, so any packet of a batch   *)
(* may be lost on its own; loss is decided when the packet is sent.        *)
Deliver(bag, out) ==
    \E kept \in SUBSET out :
        /\ net' = bag (+) SetToBag(kept)
        /\ BagCardinality(net') <= MaxInFlight
Send(out) == Deliver(net, out)
Consume(m, out) == Deliver(net (-) SetToBag({m}), out)

send_append_entries_response(i, dst, term, match, ok) ==
    [code |-> "RPC_RESP_APPEND_ENT", src |-> i, dst |-> dst, term |-> term,
     new_match_index |-> match, success |-> ok]
send_request_vote_response(i, dst, term, granted) ==
    [code |-> "RPC_RESP_REQ_VOTE", src |-> i, dst |-> dst, term |-> term,
     vote_granted |-> granted]

(* Mutant: the index of an empty log's last entry is sent as it is. *)
BallotsUncast(i, term) ==
    {[code |-> "RPC_CALL_REQ_VOTE", src |-> i, dst |-> j, term |-> term,
      last_log_idx |-> Len(log[i]) - 1,
      last_log_term |-> raft_get_log_term(log[i], Len(log[i]) - 1)] :
        j \in Server \ {i}}

broadcast_request_vote(i, term) ==
    {[code |-> "RPC_CALL_REQ_VOTE", src |-> i, dst |-> j, term |-> term,
      last_log_idx |-> U32(Len(log[i]) - 1),
      last_log_term |-> raft_get_log_term(log[i], Len(log[i]) - 1)] :
        j \in Server \ {i}}

(* The header every AppendEntries carries: the entry before next[j]. *)
AppendEntriesTo(i, j, l, next, entries) ==
    [code |-> "RPC_CALL_APPEND_ENT", src |-> i, dst |-> j,
     term |-> currentTerm[i],
     prev_log_idx |-> U32(next[j] - 1),
     prev_log_term |-> raft_get_log_term(l, I32(next[j]) - 1),
     leader_commit |-> commitIndex[i],
     entries |-> entries]

(* Mutant: reading starts one entry too late. *)
EntriesAfter(l, k) ==
    SubSeq(l, k + 2, IF Len(l) - k > MAX_APPEND_ENTRIES_N
                     THEN k + MAX_APPEND_ENTRIES_N ELSE Len(l))

(* broadcast_append_entries: to each peer, the entries from next[j] on, at *)
(* most MAX_APPEND_ENTRIES_N of them.                                      *)
EntriesFrom(l, k) ==
    SubSeq(l, k + 1, IF Len(l) - k > MAX_APPEND_ENTRIES_N
                     THEN k + MAX_APPEND_ENTRIES_N ELSE Len(l))
broadcast_append_entries(i, l) ==
    {AppendEntriesTo(i, j, l, nextIndex[i], EntriesFrom(l, I32(nextIndex[i][j]))) :
        j \in Server \ {i}}

(* Mutant: heartbeats say nothing of the log. *)
BareHeartbeats(i, next) ==
    {AppendEntriesTo(i, j, log[i], [k \in Server |-> 0], <<>>) : j \in Server \ {i}}

(* send_heartbeats: same header, never an entry. *)
send_heartbeats(i, next) ==
    {AppendEntriesTo(i, j, log[i], next, <<>>) : j \in Server \ {i}}

-----------------------------------------------------------------------------
(* Changes of role *)

(* become_follower without its durable vote, which two handlers overwrite  *)
(* before they return.                                                     *)
StepDown(i, term, leader) ==
    /\ currentTerm' = [currentTerm EXCEPT ![i] = term]
    /\ role' = [role EXCEPT ![i] = "FOLLOWER"]
    /\ leaderId' = [leaderId EXCEPT ![i] = leader]
    /\ votesReceived' = [votesReceived EXCEPT ![i] = 0]
    /\ voters' = [voters EXCEPT ![i] = {}]

become_follower(i, term, leader) ==
    /\ StepDown(i, term, leader)
    /\ votedFor' = [votedFor EXCEPT ![i] = Nil]

(* start_election: new term, own vote, one ballot to each peer. *)
start_election(i) ==
    /\ currentTerm[i] < MaxTerm
    /\ currentTerm' = [currentTerm EXCEPT ![i] = @ + 1]
    /\ votedFor' = [votedFor EXCEPT ![i] = i]
    /\ votesReceived' = [votesReceived EXCEPT ![i] = 1]
    /\ voters' = [voters EXCEPT ![i] = {i}]
    /\ Send(broadcast_request_vote(i, currentTerm[i] + 1))

(* become_leader, reached from the vote response m. *)
become_leader(i, m) ==
    LET next == [j \in Server |-> U32(Len(log[i]))]
    IN  /\ role' = [role EXCEPT ![i] = "LEADER"]
        /\ leaderId' = [leaderId EXCEPT ![i] = Nil]
        /\ nextIndex' = [nextIndex EXCEPT ![i] = next]
        /\ matchIndex' = [matchIndex EXCEPT ![i] = [j \in Server |-> -1]]
        /\ Consume(m, send_heartbeats(i, next))
        /\ elected' = elected \cup
             {[term |-> currentTerm[i], leader |-> i, quorum |-> voters[i] \cup {m.src}]}
        /\ leaderLog' = [leaderLog EXCEPT ![currentTerm[i]] = log[i]]

(* Mutant: an applied entry answers every outstanding request (the sequence *)
(* number is not compared).                                                 *)
ApplyAnswersAll(i, r, l, c) ==
    LET answered == IF r = "LEADER" /\ lastApplied[i] < c THEN outstanding[i] ELSE {}
    IN  /\ lastApplied' = [lastApplied EXCEPT ![i] = IF @ < c THEN c ELSE @]
        /\ outstanding' = [outstanding EXCEPT ![i] = @ \ answered]
        /\ client' = [q \in Request |-> IF q \in answered THEN "acked" ELSE client[q]]

(* apply_to_state_machine for a node that is in role r and has log l and   *)
(* commit index c: a leader answers the outstanding requests it applies.   *)
apply_to_state_machine(i, r, l, c) ==
    LET applied == {l[k + 1].req : k \in {n \in lastApplied[i] + 1 .. c : n < Len(l)}}
        answered == IF r = "LEADER" THEN applied \cap outstanding[i] ELSE {}
    IN  /\ lastApplied' = [lastApplied EXCEPT ![i] = IF @ < c THEN c ELSE @]
        /\ outstanding' = [outstanding EXCEPT ![i] = @ \ answered]
        /\ client' = [q \in Request |-> IF q \in answered THEN "acked" ELSE client[q]]

-----------------------------------------------------------------------------
(* handle_append_entries_request *)

(* Mutant: an entry in place is kept whatever its term. *)
MisfitsByIndexOnly(l, next, entries) == {k \in 1 .. Len(entries) : next + k > Len(l)}

(* The merge loop: the first received entry that lies beyond the log or    *)
(* conflicts with it cuts the log there, and it and all later entries are  *)
(* written.  next is the 0-based index of the first received entry.        *)
Misfits(l, next, entries) ==
    {k \in 1 .. Len(entries) :
        next + k > Len(l) \/ l[next + k].term # entries[k].term}
Merge(l, next, entries) ==
    LET k == Min(Misfits(l, next, entries))
    IN  IF Misfits(l, next, entries) = {} THEN l
        ELSE SubSeq(l, 1, next + k - 1) \o SubSeq(entries, k, Len(entries))

(* The logs on disk while the loop runs: cut, then longer by one at a time. *)
PartialMerges(l, next, entries) ==
    LET k == Min(Misfits(l, next, entries))
        merged == Merge(l, next, entries)
    IN  IF Misfits(l, next, entries) = {} THEN {}
        ELSE {SubSeq(merged, 1, n) : n \in next + k - 1 .. Len(merged) - 1}

PrevMatches(l, m) ==
    /\ I32(m.prev_log_idx) < Len(l)
    /\ raft_get_log_term(l, I32(m.prev_log_idx)) = m.prev_log_term

(* A stale leader is told the newer term and nothing else happens. *)
RejectStaleAppend(i, m) ==
    /\ m.term < currentTerm[i]
    /\ Consume(m, {send_append_entries_response(i, m.src, currentTerm[i], 0, FALSE)})
    /\ UNCHANGED <<durable, electionVars, leaderVars, commitVars, restarts, history>>

(* Mutant: a request of an older term is not turned away. *)
RecogniseAnyLeader(i, m) ==
    IF m.term > currentTerm[i] \/ role[i] = "CANDIDATE"
    THEN become_follower(i, m.term, m.src)
    ELSE /\ leaderId' = [leaderId EXCEPT ![i] = m.src]
         /\ UNCHANGED <<currentTerm, votedFor, role, votesReceived, voters>>

(* The leader of the request's term is recognised; a newer term, or a      *)
(* candidacy in this term, is given up, and with it the durable vote.      *)
RecogniseLeader(i, m) ==
    /\ m.term >= currentTerm[i]
    /\ IF m.term > currentTerm[i] \/ role[i] = "CANDIDATE"
       THEN become_follower(i, m.term, m.src)
       ELSE /\ leaderId' = [leaderId EXCEPT ![i] = m.src]
            /\ UNCHANGED <<currentTerm, votedFor, role, votesReceived, voters>>

(* Both replies carry the term read before the leader was recognised. *)
RejectMismatch(i, m) ==
    /\ ~ PrevMatches(log[i], m)
    /\ RecogniseLeader(i, m)
    /\ Consume(m, {send_append_entries_response(i, m.src, currentTerm[i], 0, FALSE)})
    /\ UNCHANGED <<log, leaderVars, commitVars, restarts, history>>

(* The last index the request covers; it becomes the new match index and   *)
(* bounds the commit index.  Mutants: one too far; leader_commit as it is.  *)
OnePastLastNew(m) == U32(m.prev_log_idx + Len(m.entries) + 1)
LastNew(m) == U32(m.prev_log_idx + Len(m.entries))

UnboundedCommit(m) == m.leader_commit
FollowerCommit(m) ==
    IF m.leader_commit < I32(LastNew(m)) THEN m.leader_commit ELSE I32(LastNew(m))

AppendNew(i, m) ==
    /\ PrevMatches(log[i], m)
    /\ RecogniseLeader(i, m)
    /\ log' = [log EXCEPT ![i] = Merge(@, I32(m.prev_log_idx) + 1, m.entries)]
    /\ IF m.leader_commit > commitIndex[i]
       THEN /\ commitIndex' = [commitIndex EXCEPT ![i] = FollowerCommit(m)]
            /\ apply_to_state_machine(i, role'[i], log'[i], FollowerCommit(m))
       ELSE UNCHANGED commitVars
    /\ Consume(m, {send_append_entries_response(i, m.src, currentTerm[i],
                       LastNew(m), TRUE)})
    /\ UNCHANGED <<leaderVars, restarts, history>>

handle_append_entries_request(i, m) ==
    /\ m.code = "RPC_CALL_APPEND_ENT"
    /\ RejectStaleAppend(i, m) \/ RejectMismatch(i, m) \/ AppendNew(i, m)

-----------------------------------------------------------------------------
(* handle_append_entries_response *)

(* Any newer term makes its sender the assumed leader; shared with          *)
(* handle_request_vote_response.                                            *)
StepDownOnResponse(i, m) ==
    /\ m.term > currentTerm[i]
    /\ become_follower(i, m.term, m.src)
    /\ Consume(m, {})
    /\ UNCHANGED <<log, leaderVars, commitVars, restarts, history>>

DropPacket(m) ==
    /\ Consume(m, {})
    /\ UNCHANGED <<durable, electionVars, leaderVars, commitVars, restarts, history>>

(* Mutant: entries of earlier terms are counted too. *)
ReplicatedAnyTerm(i, match) ==
    {n \in commitIndex[i] + 1 .. Len(log[i]) - 1 :
        Majority(1 + Cardinality({j \in Server \ {i} : match[j] >= n}))}

(* The indexes above commitIndex[i] that hold an entry of the leader's     *)
(* term and that a majority, the leader included, is known to hold.        *)
Replicated(i, match) ==
    {n \in commitIndex[i] + 1 .. Len(log[i]) - 1 :
        /\ raft_get_log_term(log[i], n) = currentTerm[i]
        /\ Majority(1 + Cardinality({j \in Server \ {i} : match[j] >= n}))}

(* The loop leaves commit_index at the largest of them. *)
NewCommit(i, match) ==
    IF Replicated(i, match) = {} THEN commitIndex[i] ELSE Max(Replicated(i, match))

(* History: the entries that leaders commit, in order, each with the        *)
(* smallest term in which a leader has committed it.                        *)
Choose(i, c) ==
    IF c = commitIndex[i] THEN chosen
    ELSE [k \in 1 .. (IF c < Len(chosen) THEN Len(chosen) ELSE c + 1) |->
            IF k > Len(chosen) THEN [entry |-> log[i][k], at |-> currentTerm[i]]
            ELSE IF k <= c + 1 /\ currentTerm[i] < chosen[k].at
            THEN [chosen[k] EXCEPT !.at = currentTerm[i]]
            ELSE chosen[k]]

AppendSucceeded(i, m) ==
    LET match == [matchIndex[i] EXCEPT ![m.src] = I32(m.new_match_index)]
        commit == NewCommit(i, match)
    IN  /\ m.success
        /\ matchIndex' = [matchIndex EXCEPT ![i] = match]
        /\ nextIndex' = [nextIndex EXCEPT ![i][m.src] = U32(Len(log[i]))]
        /\ commitIndex' = [commitIndex EXCEPT ![i] = commit]
        /\ chosen' = Choose(i, commit)
        /\ apply_to_state_machine(i, "LEADER", log[i], commit)
        /\ Consume(m, {})
        /\ UNCHANGED <<durable, electionVars, restarts, elected, leaderLog>>

AppendFailed(i, m) ==
    /\ ~ m.success
    /\ nextIndex' = [nextIndex EXCEPT ![i][m.src] = IF @ > 0 THEN @ - 1 ELSE @]
    /\ Consume(m, {})
    /\ UNCHANGED <<durable, electionVars, matchIndex, commitVars, restarts, history>>

handle_append_entries_response(i, m) ==
    /\ m.code = "RPC_RESP_APPEND_ENT"
    /\ \/ StepDownOnResponse(i, m)
       \/ /\ m.term <= currentTerm[i]
          /\ role[i] # "LEADER" \/ m.term < currentTerm[i]
          /\ DropPacket(m)
       \/ /\ m.term = currentTerm[i]
          /\ role[i] = "LEADER"
          /\ AppendSucceeded(i, m) \/ AppendFailed(i, m)

-----------------------------------------------------------------------------
(* handle_request_vote_request *)

RejectStaleBallot(i, m) ==
    /\ m.term < currentTerm[i]
    /\ Consume(m, {send_request_vote_response(i, m.src, currentTerm[i], FALSE)})
    /\ UNCHANGED <<durable, electionVars, leaderVars, commitVars, restarts, history>>

(* Mutant: the vote is granted but not written to disk. *)
AnswerBallotUnsaved(i, m) ==
    LET newer == m.term > currentTerm[i]
        vote == IF newer THEN Nil ELSE votedFor[i]
        granted == /\ vote \in {Nil, m.src}
                   /\ log_is_up_to_date(log[i], m.last_log_idx, m.last_log_term)
    IN  /\ m.term >= currentTerm[i]
        /\ IF newer THEN StepDown(i, m.term, m.src)
                    ELSE UNCHANGED <<currentTerm, electionVars>>
        /\ votedFor' = [votedFor EXCEPT ![i] = vote]
        /\ Consume(m, {send_request_vote_response(i, m.src, m.term, granted)})
        /\ UNCHANGED <<log, leaderVars, commitVars, restarts, history>>

(* A newer term clears the vote first; the vote is then free, or already   *)
(* this candidate's, and is given if its log is at least as up to date.    *)
AnswerBallot(i, m) ==
    LET newer == m.term > currentTerm[i]
        vote == IF newer THEN Nil ELSE votedFor[i]
        granted == /\ vote \in {Nil, m.src}
                   /\ log_is_up_to_date(log[i], m.last_log_idx, m.last_log_term)
    IN  /\ m.term >= currentTerm[i]
        /\ IF newer THEN StepDown(i, m.term, m.src)
                    ELSE UNCHANGED <<currentTerm, electionVars>>
        /\ votedFor' = [votedFor EXCEPT ![i] = IF granted THEN m.src ELSE vote]
        /\ Consume(m, {send_request_vote_response(i, m.src, m.term, granted)})
        /\ UNCHANGED <<log, leaderVars, commitVars, restarts, history>>

handle_request_vote_request(i, m) ==
    /\ m.code = "RPC_CALL_REQ_VOTE"
    /\ RejectStaleBallot(i, m) \/ AnswerBallot(i, m)

-----------------------------------------------------------------------------
(* handle_request_vote_response: votes are counted, not remembered. *)

CountVote(i, m) ==
    /\ m.term = currentTerm[i]
    /\ m.vote_granted
    /\ votesReceived' = [votesReceived EXCEPT ![i] = @ + 1]
    /\ voters' = [voters EXCEPT ![i] = @ \cup {m.src}]
    /\ IF Majority(votesReceived[i] + 1)
       THEN become_leader(i, m)
       ELSE Consume(m, {}) /\ UNCHANGED <<role, leaderId, leaderVars, elected, leaderLog>>
    /\ UNCHANGED <<durable, commitVars, restarts, chosen>>

handle_request_vote_response(i, m) ==
    /\ m.code = "RPC_RESP_REQ_VOTE"
    /\ \/ role[i] # "CANDIDATE" /\ DropPacket(m)
       \/ /\ role[i] = "CANDIDATE"
          /\ \/ StepDownOnResponse(i, m)
             \/ CountVote(i, m)
             \/ /\ m.term < currentTerm[i] \/ (m.term = currentTerm[i] /\ ~ m.vote_granted)
                /\ DropPacket(m)

-----------------------------------------------------------------------------
(* handle_proc_request on a leader: append, note the request in a free     *)
(* slot if there is one, replicate.  (On any other node the request is     *)
(* answered with a redirect and changes nothing here.)  A client sends a   *)
(* (client_id, cmd_seqno) again only after a redirect, so a leader sees it *)
(* once.                                                                   *)
handle_proc_request(i, r) ==
    LET l == Append(log[i], [term |-> currentTerm[i], req |-> r])
    IN  /\ role[i] = "LEADER"
        /\ client[r] = "idle"
        /\ Len(log[i]) < MaxLogLen
        /\ client' = [client EXCEPT ![r] = "accepted"]
        /\ log' = [log EXCEPT ![i] = l]
        /\ leaderLog' = [leaderLog EXCEPT ![currentTerm[i]] = l]
        /\ outstanding' = [outstanding EXCEPT ![i] =
                IF Cardinality(@) < MAX_OUTSTANDING_REQUESTS THEN @ \cup {r} ELSE @]
        /\ Send(broadcast_append_entries(i, l))
        /\ UNCHANGED <<currentTerm, votedFor, electionVars, leaderVars,
                       commitIndex, lastApplied, restarts, elected, chosen>>

-----------------------------------------------------------------------------
(* raft_handle_timeout *)

(* FOLLOWER: become_candidate, which forgets the leader. *)
become_candidate(i) ==
    /\ role[i] = "FOLLOWER"
    /\ role' = [role EXCEPT ![i] = "CANDIDATE"]
    /\ leaderId' = [leaderId EXCEPT ![i] = Nil]
    /\ start_election(i)
    /\ UNCHANGED <<log, leaderVars, commitVars, restarts, history>>

(* CANDIDATE: the election is run again in the next term. *)
RetryElection(i) ==
    /\ role[i] = "CANDIDATE"
    /\ start_election(i)
    /\ UNCHANGED <<log, role, leaderId, leaderVars, commitVars, restarts, history>>

(* LEADER *)
HeartbeatTimeout(i) ==
    /\ role[i] = "LEADER"
    /\ Send(send_heartbeats(i, nextIndex[i]))
    /\ UNCHANGED <<durable, electionVars, leaderVars, commitVars, restarts, history>>

raft_handle_timeout(i) ==
    become_candidate(i) \/ RetryElection(i) \/ HeartbeatTimeout(i)

-----------------------------------------------------------------------------
(* Crashes.  The wrapper script starts the process again; raft_create      *)
(* builds the volatile state and the durable files are read back.  What    *)
(* was sent to the old process is lost with its connections.               *)

raft_create(i) ==
    /\ restarts < MaxRestarts
    /\ restarts' = restarts + 1
    /\ role' = [role EXCEPT ![i] = "FOLLOWER"]
    /\ leaderId' = [leaderId EXCEPT ![i] = Nil]
    /\ votesReceived' = [votesReceived EXCEPT ![i] = 0]
    /\ voters' = [voters EXCEPT ![i] = {}]
    /\ commitIndex' = [commitIndex EXCEPT ![i] = -1]
    /\ lastApplied' = [lastApplied EXCEPT ![i] = -1]
    /\ outstanding' = [outstanding EXCEPT ![i] = {}]
    /\ net' = [m \in {x \in BagToSet(net) : x.dst # i} |-> net[m]]
    /\ UNCHANGED <<leaderVars, client, history>>

(* Mutant: the last entry was acknowledged before it was fsynced. *)
RestartLosesTail(i) ==
    /\ raft_create(i)
    /\ log' = [log EXCEPT ![i] = IF @ = <<>> THEN @ ELSE SubSeq(@, 1, Len(@) - 1)]
    /\ UNCHANGED <<currentTerm, votedFor>>

Restart(i) == raft_create(i) /\ UNCHANGED durable

(* Mutant: become_follower clears the vote before it writes the term. *)
TornStepDownVoteFirst(i, m) ==
    /\ m.term > currentTerm[i]
    /\ m.code = "RPC_RESP_REQ_VOTE" => role[i] = "CANDIDATE"
    /\ votedFor' = [votedFor EXCEPT ![i] = Nil]
    /\ raft_create(i)
    /\ UNCHANGED <<currentTerm, log>>

(* A newer term is written before the vote of the old one is cleared.  A   *)
(* crash in between, or before a vote is given, leaves either vote.        *)
TornStepDown(i, m) ==
    /\ m.term > currentTerm[i]
    /\ m.code = "RPC_RESP_REQ_VOTE" => role[i] = "CANDIDATE"
    /\ currentTerm' = [currentTerm EXCEPT ![i] = m.term]
    /\ \E v \in {votedFor[i], Nil} : votedFor' = [votedFor EXCEPT ![i] = v]
    /\ raft_create(i)
    /\ UNCHANGED log

(* start_election writes the term before its own vote. *)
TornElection(i) ==
    /\ role[i] # "LEADER"
    /\ currentTerm[i] < MaxTerm
    /\ currentTerm' = [currentTerm EXCEPT ![i] = @ + 1]
    /\ raft_create(i)
    /\ UNCHANGED <<votedFor, log>>

(* A crash inside the merge loop of handle_append_entries_request. *)
TornAppend(i, m) ==
    LET newer == m.term > currentTerm[i] \/ role[i] = "CANDIDATE"
    IN  /\ m.code = "RPC_CALL_APPEND_ENT"
        /\ m.term >= currentTerm[i]
        /\ PrevMatches(log[i], m)
        /\ currentTerm' = [currentTerm EXCEPT ![i] = m.term]
        /\ votedFor' = [votedFor EXCEPT ![i] = IF newer THEN Nil ELSE @]
        /\ \E l \in PartialMerges(log[i], I32(m.prev_log_idx) + 1, m.entries) :
              log' = [log EXCEPT ![i] = l]
        /\ raft_create(i)

-----------------------------------------------------------------------------
Init ==
    /\ currentTerm = [i \in Server |-> 0]
    /\ votedFor = [i \in Server |-> Nil]
    /\ log = [i \in Server |-> <<>>]
    /\ role = [i \in Server |-> "FOLLOWER"]
    /\ leaderId = [i \in Server |-> Nil]
    /\ votesReceived = [i \in Server |-> 0]
    /\ voters = [i \in Server |-> {}]
    /\ commitIndex = [i \in Server |-> -1]
    /\ lastApplied = [i \in Server |-> -1]
    /\ nextIndex = [i \in Server |-> [j \in Server |-> 0]]
    /\ matchIndex = [i \in Server |-> [j \in Server |-> -1]]
    /\ outstanding = [i \in Server |-> {}]
    /\ net = EmptyBag
    /\ client = [r \in Request |-> "idle"]
    /\ restarts = 0
    /\ elected = {}
    /\ chosen = <<>>
    /\ leaderLog = [t \in Term |-> <<>>]

(* raft_handle_rpc: dispatch of a received packet. *)
raft_handle_rpc(i, m) ==
    \/ handle_append_entries_request(i, m)
    \/ handle_append_entries_response(i, m)
    \/ handle_request_vote_request(i, m)
    \/ handle_request_vote_response(i, m)

Crash(i) ==
    \/ Restart(i)
    \/ TornElection(i)
    \/ \E m \in BagToSet(net) : m.dst = i /\ (TornStepDown(i, m) \/ TornAppend(i, m))

(* raft_run: one packet or one expiry at a time. *)
raft_run(i) ==
    \/ \E m \in BagToSet(net) : m.dst = i /\ raft_handle_rpc(i, m)
    \/ raft_handle_timeout(i)

Next == \E i \in Server :
    \/ raft_run(i)
    \/ \E r \in Request : handle_proc_request(i, r)
    \/ Crash(i)

Spec == Init /\ [][Next]_vars

-----------------------------------------------------------------------------
(* Correctness *)

(* Every variable has its type.  In particular the unsigned arithmetic on  *)
(* indexes never yields anything but -1 or an index of a log of legal      *)
(* length: no next_index, match_index, prev_log_idx or commit_index wraps. *)
TypeOK ==
    /\ currentTerm \in [Server -> Term]
    /\ votedFor \in [Server -> Server \cup {Nil}]
    /\ log \in [Server -> LogType]
    /\ role \in [Server -> Role]
    /\ leaderId \in [Server -> Server \cup {Nil}]
    /\ votesReceived \in [Server -> Nat]
    /\ voters \in [Server -> SUBSET Server]
    /\ commitIndex \in [Server -> Index]
    /\ lastApplied \in [Server -> Index]
    /\ nextIndex \in [Server -> [Server -> 0 .. MaxLogLen]]
    /\ matchIndex \in [Server -> [Server -> Index]]
    /\ outstanding \in [Server -> SUBSET Request]
    /\ IsABag(net) /\ BagToSet(net) \subseteq Packet
    /\ client \in [Request -> {"idle", "accepted", "acked"}]
    /\ restarts \in Nat
    /\ elected \subseteq [term : Term, leader : Server, quorum : SUBSET Server]
    /\ chosen \in Seq([entry : Entry, at : Term])
    /\ leaderLog \in [Term -> LogType]

(* At most one node ever wins a given term, although votes are only        *)
(* counted (votes_received++), a candidate that meets the term's leader    *)
(* erases its own durable vote, and a crash may fall between the write of  *)
(* the term and the write of the vote.                                     *)
ElectionSafety ==
    \A e, f \in elected : e.term = f.term => e.leader = f.leader

(* Two logs that hold entries of one term at one index agree up to there,  *)
(* whatever was truncated, rewritten or left half written by a crash.      *)
LogMatching ==
    \A i, j \in Server : \A k \in DOMAIN log[i] \cap DOMAIN log[j] :
        log[i][k].term = log[j][k].term => SubSeq(log[i], 1, k) = SubSeq(log[j], 1, k)

(* A leader holds everything committed in its own and in earlier terms:    *)
(* the vote's log_is_up_to_date check and the current-term rule of the     *)
(* commit loop together make this true.                                    *)
LeaderCompleteness ==
    \A i \in Server : role[i] = "LEADER" =>
        \A k \in DOMAIN chosen : chosen[k].at <= currentTerm[i] =>
            k \in DOMAIN log[i] /\ log[i][k] = chosen[k].entry

(* What any node has applied is what leaders have committed, index by      *)
(* index, so no two nodes apply different commands at one index.           *)
StateMachineSafety ==
    \A i \in Server : \A k \in 1 .. lastApplied[i] + 1 :
        /\ k \in DOMAIN log[i] /\ k \in DOMAIN chosen
        /\ log[i][k] = chosen[k].entry

(* A committed entry stays on the disks of a majority for ever: neither a  *)
(* conflicting append nor a crash in the merge loop takes it away.         *)
ChosenOnMajority ==
    \A k \in DOMAIN chosen :
        Majority(Cardinality({i \in Server :
            k \in DOMAIN log[i] /\ log[i][k] = chosen[k].entry}))

(* match_index tells the truth: while a peer is still in the leader's term *)
(* it holds the leader's log up to there, although the acknowledgement may *)
(* be old, reordered or sent before the peer crashed.                      *)
MatchIndexTruthful ==
    \A i, j \in Server :
        role[i] = "LEADER" /\ j # i /\ currentTerm[j] = currentTerm[i] =>
            LET n == matchIndex[i][j] + 1
            IN  n <= Len(log[j]) /\ SubSeq(log[j], 1, n) = SubSeq(log[i], 1, n)

(* A client that was told "success" has its command committed exactly once. *)
AnsweredIsChosen ==
    \A r \in Request : client[r] = "acked" =>
        Cardinality({k \in DOMAIN chosen : chosen[k].entry.req = r}) = 1

(* A leader never removes or rewrites an entry of its own log.             *)
LeaderAppendOnly ==
    [][\A i \in Server :
        role[i] = "LEADER" /\ role'[i] = "LEADER" =>
            SubSeq(log'[i], 1, Len(log[i])) = log[i]]_vars
=============================================================================
