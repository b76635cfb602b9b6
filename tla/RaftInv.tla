------------------------------ MODULE RaftInv ------------------------------
(***************************************************************************)
(* The inductive invariant behind ElectionSafety.                          *)
(*                                                                         *)
(* The code keeps no record of who voted for whom: a vote is a durable     *)
(* field that is overwritten, then a packet, then an increment of a        *)
(* counter, then part of a leadership.  Supports follows one vote through  *)
(* these stages.                                                           *)
(***************************************************************************)
EXTENDS Raft

Copies(m, bag) == IF BagIn(m, bag) THEN bag[m] ELSE 0
InFlight(m) == BagIn(m, net)

Grant(j, k, t) == send_request_vote_response(j, k, t, TRUE)

(* The packets that may still turn into a vote of j for k in term t. *)
Ballots(j, k, t) ==
    {m \in BagToSet(net) :
        m.code = "RPC_CALL_REQ_VOTE" /\ m.src = k /\ m.dst = j /\ m.term = t}

Standing(k, t) == role[k] = "CANDIDATE" /\ currentTerm[k] = t

(* Node j has given its vote of term t to k, and that vote still counts: it *)
(* is on its way, or counted by the standing candidate k, or part of the    *)
(* majority that elected k.                                                 *)
Supports(j, k, t) ==
    \/ InFlight(Grant(j, k, t))
    \/ Standing(k, t) /\ j \in voters[k]
    \/ \E e \in elected : e.term = t /\ e.leader = k /\ j \in e.quorum

(* A node supports at most one candidate in a term. *)
SupportUnique ==
    \A j, i, k \in Server, t \in Term : Supports(j, i, t) /\ Supports(j, k, t) => i = k

(* A supporter has reached the term, and while it stays there its durable   *)
(* vote names the candidate.                                                *)
SupportDurable ==
    \A j, k \in Server, t \in Term : Supports(j, k, t) =>
        /\ t <= currentTerm[j]
        /\ t = currentTerm[j] => votedFor[j] = k

(* Candidates and leaders hold their own vote; a candidate has not yet won. *)
OwnVote ==
    \A i \in Server :
        /\ role[i] # "FOLLOWER" => votedFor[i] = i
        /\ role[i] = "CANDIDATE" => \A e \in elected : e.leader = i => e.term < currentTerm[i]

(* Wins lie in terms the winner has reached, with a majority behind them.   *)
ElectedByMajority ==
    \A e \in elected :
        /\ e.term <= currentTerm[e.leader]
        /\ Majority(Cardinality(e.quorum))

(* The counter of a candidate counts distinct voters. *)
CountedOnce ==
    \A i \in Server : role[i] = "CANDIDATE" => votesReceived[i] = Cardinality(voters[i])

(* For one (voter, candidate, term) there is at most one of: a ballot       *)
(* in flight, a grant in flight, a counted vote.                            *)
OneVote(j, k, t) ==
    /\ \A m \in Ballots(j, k, t) :
          /\ j # k
          /\ t <= currentTerm[k]
          /\ Copies(m, net) = 1
          /\ Ballots(j, k, t) = {m}
          /\ ~ InFlight(Grant(j, k, t))
          /\ Standing(k, t) => j \notin voters[k]
    /\ InFlight(Grant(j, k, t)) =>
          /\ j # k
          /\ t <= currentTerm[k]
          /\ Copies(Grant(j, k, t), net) = 1
          /\ Standing(k, t) => j \notin voters[k]
OneVoteEach == \A j, k \in Server, t \in Term : OneVote(j, k, t)

ElectionInv ==
    /\ TypeOK
    /\ SupportUnique
    /\ SupportDurable
    /\ OwnVote
    /\ ElectedByMajority
    /\ CountedOnce
    /\ OneVoteEach
=============================================================================
