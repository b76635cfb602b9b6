----------------------------- MODULE RaftLogInv -----------------------------
(***************************************************************************)
(* The inductive invariants behind the safety of the replicated log.       *)
(*                                                                         *)
(* LogInv ties every log, packet and match index to leaderLog, the log the *)
(* leader of each term has built.  CommitInv adds why an entry that is, or *)
(* may still become, committed is in the log of every later leader.        *)
(***************************************************************************)
EXTENDS RaftInv

LeaderOf(t, i) == \E e \in elected : e.term = t /\ e.leader = i
Won(t) == \E e \in elected : e.term = t

(* Both sequences have n entries, the same ones. *)
Agree(l, f, n) == n <= Len(l) /\ n <= Len(f) /\ \A k \in 1 .. n : l[k] = f[k]

LastTerm(l) == raft_get_log_term(l, Len(l) - 1)

AppendRequests == {m \in BagToSet(net) : m.code = "RPC_CALL_APPEND_ENT"}
Acks == {m \in BagToSet(net) : m.code = "RPC_RESP_APPEND_ENT" /\ m.success}

-----------------------------------------------------------------------------
(* Logs *)

(* Terms in which nodes stand or win are positive: 0 means "no entry". *)
TermsPositive ==
    /\ \A i \in Server : role[i] # "FOLLOWER" => currentTerm[i] > 0
    /\ \A e \in elected : e.term > 0

(* A leader has won its term, has the term's log, and points into it. *)
LeadersOwnLog ==
    \A i \in Server : role[i] = "LEADER" =>
        /\ LeaderOf(currentTerm[i], i)
        /\ log[i] = leaderLog[currentTerm[i]]
        /\ \A j \in Server : nextIndex[i][j] <= Len(log[i])

OnlyLeadersWrite == \A t \in Term : leaderLog[t] # <<>> => Won(t)

(* Up to any of its entries a log is the log of the leader of that entry's *)
(* term.                                                                    *)
Grounded(l) == \A p \in DOMAIN l : Agree(l, leaderLog[l[p].term], p)
LogsGrounded ==
    /\ \A i \in Server : Grounded(log[i])
    /\ \A t \in Term : Grounded(leaderLog[t])

(* Terms never decrease along a log and do not exceed its holder's. *)
TermsOrdered ==
    /\ \A t \in Term : \A p \in DOMAIN leaderLog[t] :
          /\ leaderLog[t][p].term <= t
          /\ \A q \in 1 .. p : leaderLog[t][q].term <= leaderLog[t][p].term
    /\ \A i \in Server : \A p \in DOMAIN log[i] : log[i][p].term <= currentTerm[i]

(* A request to append carries a slice of its leader's log and the term    *)
(* before it.                                                               *)
SliceOf(m, l) ==
    LET n == I32(m.prev_log_idx) + 1
    IN  /\ n + Len(m.entries) <= Len(l)
        /\ m.prev_log_term = raft_get_log_term(l, n - 1)
        /\ \A k \in DOMAIN m.entries : m.entries[k] = l[n + k]
RequestsAreSlices ==
    \A m \in AppendRequests :
        m.src # m.dst /\ LeaderOf(m.term, m.src) /\ SliceOf(m, leaderLog[m.term])

(* Node j was in term t when it had the first n entries of t's leader, and *)
(* has them as long as it stays there.                                      *)
Kept(j, t, n) ==
    /\ n <= Len(leaderLog[t])
    /\ n > 0 => /\ t <= currentTerm[j]
                /\ t = currentTerm[j] => Agree(log[j], leaderLog[t], n)

(* A positive acknowledgement that its leader would still count, and every *)
(* match_index, is about entries that were kept.                            *)
AcksTruthful ==
    \A m \in Acks :
        \/ m.term < currentTerm[m.dst]
        \/ /\ m.src # m.dst /\ LeaderOf(m.term, m.dst)
           /\ Kept(m.src, m.term, I32(m.new_match_index) + 1)
MatchesTruthful ==
    \A i, j \in Server : role[i] = "LEADER" /\ j # i =>
        Kept(j, currentTerm[i], matchIndex[i][j] + 1)

(* Every log, packet in flight and match_index agrees with what the leader  *)
(* of its term has built, which only that leader has extended: what the     *)
(* test of prev_log_idx, the merge loop and the acknowledgements keep.      *)
LogInv ==
    /\ TermsPositive
    /\ LeadersOwnLog
    /\ OnlyLeadersWrite
    /\ LogsGrounded
    /\ TermsOrdered
    /\ RequestsAreSlices
    /\ AcksTruthful
    /\ MatchesTruthful

-----------------------------------------------------------------------------
(* Commitment *)

(* Leader i counts, or may still receive, j's acknowledgement of its first *)
(* n entries.                                                               *)
Acked(i, j, n) ==
    \/ matchIndex[i][j] + 1 >= n
    \/ \E m \in Acks : /\ m.src = j /\ m.dst = i /\ m.term = currentTerm[i]
                       /\ I32(m.new_match_index) + 1 >= n

Holds(l, n, t) == n \in DOMAIN l /\ l[n].term = t

(* Leader i may yet commit its n-th entry by counting: a majority has      *)
(* acknowledged it, or is not past the term and may do so.                  *)
Committable(i, n) ==
    /\ role[i] = "LEADER"
    /\ Holds(log[i], n, currentTerm[i])
    /\ Majority(Cardinality({j \in Server :
          currentTerm[j] <= currentTerm[i] \/ Acked(i, j, n)}))

(* The n-th entry was committed by counting, in its own term t. *)
CommitPoint(n, t) ==
    n \in DOMAIN chosen /\ chosen[n].at = t /\ chosen[n].entry.term = t

Settled(n, t) ==
    CommitPoint(n, t) \/ \E i \in Server : currentTerm[i] = t /\ Committable(i, n)

(* A log that the holder of the n-th entry of term t would call up to date. *)
Covers(l, n, t) == LastTerm(l) > t \/ (LastTerm(l) = t /\ n <= Len(l))

(* Node j holds the n-th entry of term t, and whom it has voted for since   *)
(* has a log that covers it.                                                *)
Backs(j, n, t) ==
    /\ t <= currentTerm[j]
    /\ Holds(log[j], n, t)
    /\ \A k \in Server, u \in Term :
          u > t /\ Standing(k, u) /\ Supports(j, k, u) => Covers(log[k], n, t)

AckersBack ==
    \A i, j \in Server, n \in 1 .. MaxLogLen :
        j # i /\ Committable(i, n) /\ Acked(i, j, n) => Backs(j, n, currentTerm[i])

ChosenBacked ==
    \A n \in 1 .. MaxLogLen, t \in Term : CommitPoint(n, t) =>
        \E Q \in SUBSET Server : Majority(Cardinality(Q)) /\ \A j \in Q : Backs(j, n, t)

(* What is or may be committed is in the log of every later leader. *)
LaterLeadersHold ==
    \A n \in 1 .. MaxLogLen, t, u \in Term :
        Settled(n, t) /\ Won(u) /\ u > t => Holds(leaderLog[u], n, t)

(* A ballot describes the log of the candidate that still stands. *)
BallotsHonest ==
    \A m \in BagToSet(net) :
        m.code = "RPC_CALL_REQ_VOTE" /\ Standing(m.src, m.term) =>
            /\ m.last_log_idx = U32(Len(log[m.src]) - 1)
            /\ m.last_log_term = LastTerm(log[m.src])

(* What is chosen comes from the log of the leader that committed it, which *)
(* did so by counting for this or for a later entry.                        *)
ChosenFromLeaders ==
    \A k \in DOMAIN chosen :
        LET t == chosen[k].at
        IN  /\ k \in DOMAIN leaderLog[t] /\ leaderLog[t][k] = chosen[k].entry
            /\ \E n \in k .. Len(chosen) : CommitPoint(n, t)

(* The first n entries of a log of term t are committed, by t at the latest. *)
Decided(l, n, t) ==
    n <= Len(l) /\ n <= Len(chosen) /\
    \A k \in 1 .. n : chosen[k].at <= t /\ chosen[k].entry = l[k]

CommitsDecided ==
    /\ \A i \in Server :
          /\ Decided(log[i], commitIndex[i] + 1, currentTerm[i])
          /\ Decided(log[i], lastApplied[i] + 1, currentTerm[i])
    /\ \A m \in AppendRequests : Decided(leaderLog[m.term], m.leader_commit + 1, m.term)

(* Whatever a leader has committed or may still commit by counting replicas *)
(* is held by nodes that vote only for candidates whose log covers it, is   *)
(* in the log of every later leader, and bounds what all nodes commit and   *)
(* apply.                                                                   *)
CommitInv ==
    /\ AckersBack
    /\ ChosenBacked
    /\ LaterLeadersHold
    /\ BallotsHonest
    /\ ChosenFromLeaders
    /\ CommitsDecided
=============================================================================
