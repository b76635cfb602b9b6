-------------------------- MODULE RaftCommitProofs --------------------------
(***************************************************************************)
(* What is committed stays committed: leaders hold it, a majority keeps it *)
(* on disk, and no two nodes apply different commands at one index.  With  *)
(* that, Raft implements ReplicatedStateMachine.                           *)
(*                                                                         *)
(* CommitInv is inductive relative to ElectionInv and LogInv.  An entry is *)
(* Settled as long as the leader of its term may still commit it, and      *)
(* after it has; no step but a client's request settles anything new.  The *)
(* nodes that back a settled entry keep it and vote only for candidates    *)
(* whose log covers it, and every majority of voters contains one of them. *)
(***************************************************************************)
EXTENDS RaftLogProofs, RaftRefinement

-----------------------------------------------------------------------------
(* Majorities *)

LEMMA MajorityMeet ==
    ASSUME NEW P \in SUBSET Server, NEW Q \in SUBSET Server,
           Majority(Cardinality(P)), Majority(Cardinality(Q))
    PROVE  \E j \in Server : j \in P /\ j \in Q
<1>1. /\ IsFiniteSet(P) /\ IsFiniteSet(Q)
      /\ Cardinality(P) \in Nat /\ Cardinality(Q) \in Nat /\ Cardinality(Server) \in Nat
  BY ServerAssumption, FS_Subset, FS_CardinalityType
<1>2. Cardinality(P) + Cardinality(Q) > Cardinality(Server)
  <2>1. /\ Cardinality(P) > Cardinality(Server) \div 2
        /\ Cardinality(Q) > Cardinality(Server) \div 2
    BY DEF Majority
  <2>2. QED
    BY <1>1, <2>1
<1>3. PICK j : j \in P /\ j \in Q
  BY <1>2, ServerAssumption, FS_MajoritiesIntersect
<1>4. QED
  BY <1>3

LEMMA MajorityGrows ==
    ASSUME NEW P \in SUBSET Server, NEW Q \in SUBSET Server, P \subseteq Q,
           Majority(Cardinality(P))
    PROVE  Majority(Cardinality(Q))
<1>1. IsFiniteSet(P) /\ IsFiniteSet(Q) /\ IsFiniteSet(Server)
  BY ServerAssumption, FS_Subset
<1>2. Cardinality(P) \in Nat /\ Cardinality(Q) \in Nat /\ Cardinality(P) <= Cardinality(Q)
      /\ Cardinality(Server) \in Nat
  BY <1>1, FS_CardinalityType, FS_Subset
<1>3. QED
  BY <1>2 DEF Majority

-----------------------------------------------------------------------------
(* Holding and covering an entry *)

LEMMA HoldsAgree ==
    ASSUME TypeOK, LogInv, NEW l \in LogType, Grounded(l), NEW n, NEW t, Holds(l, n, t)
    PROVE  /\ n \in Nat /\ n > 0 /\ n <= Len(l) /\ t \in Term /\ t > 0 /\ Won(t)
           /\ Agree(l, leaderLog[t], n) /\ Holds(leaderLog[t], n, t)
<1>1. n \in DOMAIN l /\ l[n].term = t
  BY DEF Holds
<1>2. n \in Nat /\ n > 0 /\ n <= Len(l) /\ t \in Term
  BY <1>1, LogFacts
<1>3. Agree(l, leaderLog[t], n)
  BY <1>1 DEF Grounded
<1>4. leaderLog[t] \in LogType
  BY <1>2, TypeFacts
<1>5. Holds(leaderLog[t], n, t)
  BY <1>1, <1>2, <1>3, <1>4, LogFacts DEF Agree, Holds
<1>6. Won(t)
  <2>1. leaderLog[t] # <<>>
    BY <1>2, <1>3, <1>4, LogFacts DEF Agree
  <2>2. QED
    BY <1>2, <2>1 DEF LogInv, OnlyLeadersWrite
<1>7. t > 0
  BY <1>6 DEF Won, LogInv, TermsPositive
<1>8. QED
  BY <1>2, <1>3, <1>5, <1>6, <1>7

LEMMA HoldersAgree ==
    ASSUME TypeOK, LogInv, NEW l \in LogType, NEW f \in LogType, Grounded(l), Grounded(f),
           NEW n, NEW t, Holds(l, n, t), Holds(f, n, t)
    PROVE  Agree(l, f, n)
BY GroundedMatch DEF Holds

(* The term of a log's last entry. *)
LEMMA LastTermFacts ==
    ASSUME NEW l \in LogType
    PROVE  /\ LastTerm(l) \in Term /\ LastTerm(l) \in Nat
           /\ Len(l) = 0 => LastTerm(l) = 0
           /\ Len(l) > 0 => LastTerm(l) = l[Len(l)].term /\ Len(l) \in DOMAIN l
<1>1. Len(l) \in Nat /\ DOMAIN l = 1 .. Len(l)
  BY LogFacts
<1>2. LastTerm(l) \in Term
  <2>1. Len(l) - 1 \in Int
    BY <1>1
  <2>2. QED
    BY <2>1, LogTermType DEF LastTerm
<1>3. LastTerm(l) \in Nat
  BY <1>2 DEF Term
<1>4. Len(l) = 0 => LastTerm(l) = 0
  BY <1>1 DEF LastTerm, raft_get_log_term
<1>5. Len(l) > 0 => LastTerm(l) = l[Len(l)].term /\ Len(l) \in DOMAIN l
  <2> SUFFICES ASSUME Len(l) > 0 PROVE LastTerm(l) = l[Len(l)].term /\ Len(l) \in DOMAIN l
    OBVIOUS
  <2>1. ~ (Len(l) - 1 < 0 \/ Len(l) - 1 >= Len(l)) /\ (Len(l) - 1) + 1 = Len(l)
    BY <1>1
  <2>2. QED
    BY <1>1, <2>1 DEF LastTerm, raft_get_log_term
<1>6. QED
  BY <1>2, <1>3, <1>4, <1>5

LEMMA HolderCovers ==
    ASSUME TypeOK, LogInv, NEW l \in LogType, Grounded(l), NEW n, NEW t, Holds(l, n, t)
    PROVE  Covers(l, n, t) /\ LastTerm(l) >= t /\ Len(l) >= n
<1>1. n \in Nat /\ n > 0 /\ n <= Len(l) /\ t \in Term /\ l[n].term = t /\ Len(l) \in Nat
  BY HoldsAgree, LogFacts DEF Holds
<1>2. LastTerm(l) = l[Len(l)].term /\ Len(l) \in DOMAIN l /\ LastTerm(l) \in Nat
  BY <1>1, LastTermFacts
<1>3. n \in 1 .. Len(l)
  BY <1>1
<1>4. t <= LastTerm(l) /\ t \in Nat
  BY <1>1, <1>2, <1>3, GroundedOrdered DEF Term
<1>5. QED
  BY <1>1, <1>2, <1>4 DEF Covers

(* log_is_up_to_date, as the holder of an entry computes it. *)
LEMMA UpToDateCovers ==
    ASSUME TypeOK, LogInv, NEW l \in LogType, Grounded(l), NEW n, NEW t, Holds(l, n, t),
           NEW f \in LogType, log_is_up_to_date(l, U32(Len(f) - 1), LastTerm(f))
    PROVE  Covers(f, n, t)
<1>1. /\ LastTerm(l) >= t /\ Len(l) >= n /\ t \in Term /\ t > 0
      /\ n \in Nat /\ n > 0
  BY HolderCovers, HoldsAgree
<1>2. /\ Len(l) \in Nat /\ Len(f) \in Nat /\ Len(l) <= MaxLogLen /\ Len(f) <= MaxLogLen
      /\ LastTerm(l) \in Nat /\ LastTerm(f) \in Nat /\ (Len(f) = 0 => LastTerm(f) = 0)
  BY LogFacts, LastTermFacts
<1>3. t \in Nat
  BY <1>1 DEF Term
<1>4. \/ LastTerm(l) < LastTerm(f)
      \/ LastTerm(l) = LastTerm(f) /\ U32(Len(l) - 1) <= U32(Len(f) - 1)
  BY DEF log_is_up_to_date, LastTerm
<1>5. CASE LastTerm(l) < LastTerm(f) \/ LastTerm(l) > t
  BY <1>1, <1>2, <1>3, <1>4, <1>5 DEF Covers
<1>6. CASE LastTerm(l) = LastTerm(f) /\ LastTerm(l) = t
  <2>1. Len(f) > 0 /\ Len(l) > 0
    BY <1>1, <1>2, <1>3, <1>6
  <2>2. U32(Len(l) - 1) = Len(l) - 1 /\ U32(Len(f) - 1) = Len(f) - 1
    BY <1>2, <2>1, WordAssumption DEF U32
  <2>3. Len(l) - 1 <= Len(f) - 1
    BY <1>2, <1>4, <1>6, <2>2
  <2>4. n <= Len(f)
    BY <1>1, <1>2, <2>3
  <2>5. QED
    BY <1>6, <2>4 DEF Covers
<1>7. QED
  BY <1>1, <1>2, <1>3, <1>4, <1>5, <1>6

(* A log that covers an entry that all later leaders hold, holds it. *)
LEMMA CovererHolds ==
    ASSUME TypeOK, LogInv, NEW l \in LogType, Grounded(l), NEW n, NEW t \in Term,
           Covers(l, n, t), Holds(leaderLog[t], n, t),
           \A u \in Term : u > t /\ Won(u) => Holds(leaderLog[u], n, t)
    PROVE  Holds(l, n, t)
<1> DEFINE u == LastTerm(l)
           last == Len(l)
<1>0. leaderLog[t] \in LogType /\ Grounded(leaderLog[t]) /\ t \in Nat
  BY TypeFacts DEF LogInv, LogsGrounded
<1>1. n \in Nat /\ n > 0 /\ n <= Len(leaderLog[t]) /\ t > 0
  BY <1>0, HoldsAgree
<1>2. last \in Nat /\ DOMAIN l = 1 .. last /\ u \in Term /\ u \in Nat
  BY LogFacts, LastTermFacts
<1>3. last > 0 /\ u = l[last].term /\ last \in DOMAIN l /\ u >= t
  BY <1>0, <1>1, <1>2, LastTermFacts DEF Covers
<1>4. Holds(l, last, u)
  BY <1>3 DEF Holds
<1> HIDE DEF u, last
<1>5. Agree(l, leaderLog[u], last) /\ Holds(leaderLog[u], last, u) /\ Won(u)
  BY <1>4, HoldsAgree
<1>6. leaderLog[u] \in LogType /\ Grounded(leaderLog[u])
  BY <1>2, TypeFacts DEF LogInv, LogsGrounded
<1>7. Holds(leaderLog[u], n, t)
  BY <1>0, <1>2, <1>3, <1>5
<1>8. n <= last
  <2>1. CASE u = t
    BY <1>0, <2>1 DEF Covers, u, last
  <2>2. CASE u > t
    <3> SUFFICES ASSUME last < n PROVE FALSE
      BY <1>1, <1>2
    <3>1. last \in 1 .. n /\ n \in DOMAIN leaderLog[u]
      BY <1>1, <1>2, <1>3, <1>7 DEF Holds
    <3>2. leaderLog[u][last].term <= leaderLog[u][n].term
      BY <1>6, <3>1, GroundedOrdered
    <3>3. leaderLog[u][last].term = u /\ leaderLog[u][n].term = t
      BY <1>5, <1>7 DEF Holds
    <3>4. QED
      BY <1>0, <1>2, <2>2, <3>2, <3>3
  <2>3. QED
    BY <1>0, <1>2, <1>3, <2>1, <2>2
<1>9. n \in 1 .. last
  BY <1>1, <1>2, <1>8
<1>10. l[n] = leaderLog[u][n]
  BY <1>5, <1>9 DEF Agree
<1>11. QED
  BY <1>2, <1>7, <1>9, <1>10 DEF Holds

-----------------------------------------------------------------------------
(* Votes, acknowledgements and commitment in one state *)

LEMMA SupportTerm ==
    ASSUME ElectionInv, NEW j \in Server, NEW k \in Server, NEW u \in Term, Supports(j, k, u)
    PROVE  u <= currentTerm[j]
BY DEF ElectionInv, SupportDurable

(* A win has a majority of nodes that reached its term. *)
LEMMA WonQuorum ==
    ASSUME ElectionInv, NEW u \in Term, Won(u)
    PROVE  \E Q \in SUBSET Server : Majority(Cardinality(Q)) /\ \A j \in Q : u <= currentTerm[j]
<1>1. PICK e \in elected : e.term = u
  BY DEF Won
<1>2. e.leader \in Server /\ e.quorum \in SUBSET Server /\ Majority(Cardinality(e.quorum))
  BY WinType DEF ElectionInv, ElectedByMajority
<1>3. \A j \in e.quorum : Supports(j, e.leader, u)
  BY <1>1 DEF Supports
<1>4. \A j \in e.quorum : u <= currentTerm[j]
  BY <1>2, <1>3, SupportTerm
<1>5. QED
  BY <1>2, <1>4

LEMMA KeptShorter ==
    ASSUME TypeOK, NEW j \in Server, NEW t \in Term, NEW n \in Nat, NEW k \in Nat,
           0 < k, k <= n, Kept(j, t, n)
    PROVE  Kept(j, t, k)
<1>1. Len(leaderLog[t]) \in Nat /\ Len(log[j]) \in Nat
  BY TypeFacts, LogFacts
<1>2. QED
  BY <1>1, AgreeShorter DEF Kept

LEMMA AckedKept ==
    ASSUME TypeOK, LogInv, NEW i \in Server, NEW j \in Server, role[i] = "LEADER", j # i,
           NEW n \in Nat, n > 0, Acked(i, j, n)
    PROVE  Kept(j, currentTerm[i], n)
<1>1. currentTerm[i] \in Term /\ currentTerm[i] \in Nat /\ matchIndex[i][j] + 1 \in Nat
  BY TypeFacts
<1>2. CASE matchIndex[i][j] + 1 >= n
  <2>1. Kept(j, currentTerm[i], matchIndex[i][j] + 1)
    BY DEF LogInv, MatchesTruthful
  <2>2. n <= matchIndex[i][j] + 1
    BY <1>1, <1>2
  <2>3. QED
    BY <1>1, <2>1, <2>2, KeptShorter
<1>3. CASE \E m \in Acks : /\ m.src = j /\ m.dst = i /\ m.term = currentTerm[i]
                           /\ I32(m.new_match_index) + 1 >= n
  <2>1. PICK m \in Acks : /\ m.src = j /\ m.dst = i /\ m.term = currentTerm[i]
                          /\ I32(m.new_match_index) + 1 >= n
    BY <1>3
  <2> DEFINE x == I32(m.new_match_index) + 1
  <2>2. x \in Nat
    BY TypeFacts, IndexOfWire DEF append_entries_res_t, Index
  <2>3. Kept(j, currentTerm[i], x)
    BY <1>1, <2>1 DEF LogInv, AcksTruthful
  <2>4. n <= x
    BY <2>1, <2>2
  <2> HIDE DEF x
  <2>5. QED
    BY <1>1, <2>2, <2>3, <2>4, KeptShorter
<1>4. QED
  BY <1>2, <1>3 DEF Acked

(* A node that stays in the term and has the entry backs it. *)
LEMMA CurrentBacks ==
    ASSUME ElectionInv, NEW j \in Server, NEW n, Holds(log[j], n, currentTerm[j])
    PROVE  Backs(j, n, currentTerm[j])
<1>1. currentTerm[j] \in Nat /\ currentTerm[j] \in Term
  BY TypeFacts DEF ElectionInv
<1>2. \A k \in Server, u \in Term : Supports(j, k, u) => u <= currentTerm[j] /\ u \in Nat
  BY SupportTerm DEF Term
<1>3. QED
  BY <1>1, <1>2 DEF Backs

LEMMA CommittableFacts ==
    ASSUME TypeOK, LogInv, NEW i \in Server, NEW n, Committable(i, n)
    PROVE  /\ n \in 1 .. MaxLogLen /\ n <= Len(log[i])
           /\ currentTerm[i] \in Term /\ Won(currentTerm[i])
           /\ log[i] = leaderLog[currentTerm[i]]
           /\ Holds(leaderLog[currentTerm[i]], n, currentTerm[i])
<1>1. role[i] = "LEADER" /\ Holds(log[i], n, currentTerm[i])
  BY DEF Committable
<1>2. log[i] \in LogType /\ Grounded(log[i])
  BY TypeFacts DEF LogInv, LogsGrounded
<1>3. /\ n \in Nat /\ n > 0 /\ n <= Len(log[i]) /\ currentTerm[i] \in Term
      /\ Won(currentTerm[i]) /\ Holds(leaderLog[currentTerm[i]], n, currentTerm[i])
  BY <1>1, <1>2, HoldsAgree
<1>4. n \in 1 .. MaxLogLen
  BY <1>2, <1>3, LogFacts, WordAssumption
<1>5. log[i] = leaderLog[currentTerm[i]]
  BY <1>1 DEF LogInv, LeadersOwnLog
<1>6. QED
  BY <1>3, <1>4, <1>5

LEMMA ChosenFacts ==
    ASSUME TypeOK
    PROVE  /\ Len(chosen) \in Nat /\ DOMAIN chosen = 1 .. Len(chosen)
           /\ \A k \in 1 .. Len(chosen) :
                 chosen[k].at \in Term /\ chosen[k].at \in Nat /\ chosen[k].entry \in Entry
<1> DEFINE E == [entry : Entry, at : Term]
<1>1. chosen \in Seq(E)
  BY DEF TypeOK
<1> HIDE DEF E
<1>2. Len(chosen) \in Nat /\ DOMAIN chosen = 1 .. Len(chosen)
      /\ \A k \in 1 .. Len(chosen) : chosen[k] \in E
  BY <1>1
<1>3. \A x \in E : x.at \in Term /\ x.entry \in Entry
  BY DEF E
<1>4. \A t \in Term : t \in Nat
  BY DEF Term
<1>5. QED
  BY <1>2, <1>3, <1>4

(* The leader of the term in which an entry was committed has it. *)
LEMMA ChosenLeader ==
    ASSUME TypeOK, LogInv, CommitInv, NEW k \in DOMAIN chosen
    PROVE  /\ chosen[k].at \in Term /\ k \in 1 .. MaxLogLen /\ Won(chosen[k].at)
           /\ k \in DOMAIN leaderLog[chosen[k].at]
           /\ leaderLog[chosen[k].at][k] = chosen[k].entry
           /\ \E n \in k .. Len(chosen) :
                 /\ CommitPoint(n, chosen[k].at) /\ n \in 1 .. MaxLogLen /\ k <= n
                 /\ Holds(leaderLog[chosen[k].at], n, chosen[k].at)
<1> DEFINE t == chosen[k].at
<1>1. k \in 1 .. Len(chosen) /\ t \in Term /\ Len(chosen) \in Nat /\ DOMAIN chosen = 1 .. Len(chosen)
  BY ChosenFacts
<1>2. k \in DOMAIN leaderLog[t] /\ leaderLog[t][k] = chosen[k].entry
  BY DEF CommitInv, ChosenFromLeaders
<1>3. PICK n \in k .. Len(chosen) : CommitPoint(n, t)
  BY DEF CommitInv, ChosenFromLeaders
<1> HIDE DEF t
<1>4. leaderLog[t] \in LogType
  BY <1>1, TypeFacts
<1>5. Len(leaderLog[t]) <= MaxLogLen /\ Len(leaderLog[t]) \in Nat /\ leaderLog[t] # <<>>
      /\ DOMAIN leaderLog[t] = 1 .. Len(leaderLog[t])
  BY <1>2, <1>4, LogFacts
<1>6. Won(t)
  BY <1>1, <1>5 DEF LogInv, OnlyLeadersWrite
<1>7. k \in 1 .. MaxLogLen
  BY <1>2, <1>5, WordAssumption
<1>8. n \in DOMAIN chosen /\ chosen[n].at = t /\ chosen[n].entry.term = t
  BY <1>3 DEF CommitPoint
<1>9. n \in DOMAIN leaderLog[t] /\ leaderLog[t][n] = chosen[n].entry
  BY <1>8 DEF CommitInv, ChosenFromLeaders
<1>10. n \in 1 .. MaxLogLen /\ k <= n
  BY <1>1, <1>3, <1>5, <1>9, WordAssumption
<1>11. Holds(leaderLog[t], n, t)
  BY <1>8, <1>9 DEF Holds
<1>12. QED
  BY <1>1, <1>2, <1>3, <1>6, <1>7, <1>10, <1>11 DEF t

(* Leader completeness: whoever wins a term has what was committed by then. *)
LEMMA WinnerComplete ==
    ASSUME TypeOK, LogInv, CommitInv, NEW k \in DOMAIN chosen, NEW u \in Term, Won(u),
           chosen[k].at <= u
    PROVE  k \in DOMAIN leaderLog[u] /\ leaderLog[u][k] = chosen[k].entry
<1> DEFINE t == chosen[k].at
<1>1. /\ t \in Term /\ t \in Nat /\ u \in Nat /\ k \in DOMAIN leaderLog[t]
      /\ leaderLog[t][k] = chosen[k].entry
  BY ChosenLeader DEF Term
<1>2. PICK n \in 1 .. MaxLogLen : CommitPoint(n, t) /\ k <= n /\ Holds(leaderLog[t], n, t)
  BY ChosenLeader
<1>3. k \in 1 .. MaxLogLen
  BY ChosenLeader
<1> HIDE DEF t
<1>4. CASE u = t
  BY <1>1, <1>4
<1>5. CASE u > t
  <2>1. Holds(leaderLog[u], n, t)
    BY <1>1, <1>2, <1>5 DEF CommitInv, LaterLeadersHold, Settled
  <2>2. /\ leaderLog[u] \in LogType /\ Grounded(leaderLog[u])
        /\ leaderLog[t] \in LogType /\ Grounded(leaderLog[t])
    BY <1>1, TypeFacts DEF LogInv, LogsGrounded
  <2>3. Agree(leaderLog[u], leaderLog[t], n)
    BY <1>2, <2>1, <2>2, HoldersAgree
  <2>4. k \in 1 .. n
    BY <1>2, <1>3
  <2>5. leaderLog[u][k] = leaderLog[t][k] /\ n <= Len(leaderLog[u])
    BY <2>3, <2>4 DEF Agree
  <2>6. k \in DOMAIN leaderLog[u]
    BY <2>2, <2>4, <2>5, LogFacts
  <2>7. QED
    BY <1>1, <2>5, <2>6
<1>6. QED
  BY <1>1, <1>4, <1>5 DEF t

-----------------------------------------------------------------------------
(* What a step does, as far as commitment is concerned *)

(* A packet that the step sends: a vote answers a ballot in flight, a      *)
(* ballot describes the log of a new candidate, a positive acknowledgement *)
(* is of the sender's term or of one its leader has left, an append tells  *)
(* the leader's commit index.                                               *)
PacketOK(x) ==
    /\ x.code = "RPC_RESP_REQ_VOTE" /\ x.vote_granted =>
          \E m \in BagToSet(net) :
              /\ m.code = "RPC_CALL_REQ_VOTE" /\ m.src = x.dst /\ m.term = x.term
              /\ log_is_up_to_date(log[x.src], m.last_log_idx, m.last_log_term)
    /\ x.code = "RPC_CALL_REQ_VOTE" =>
          /\ x.last_log_idx = U32(Len(log[x.src]) - 1)
          /\ x.last_log_term = LastTerm(log[x.src])
    /\ x.code = "RPC_RESP_APPEND_ENT" /\ x.success =>
          x.term < currentTerm'[x.dst] \/ x.term = currentTerm'[x.src]
    /\ x.code = "RPC_CALL_APPEND_ENT" =>
          /\ role'[x.src] = "LEADER" /\ x.term = currentTerm[x.src]
          /\ x.leader_commit = commitIndex[x.src]
NetOK == \A x \in BagToSet(net') : x \in BagToSet(net) \/ PacketOK(x)

(* Candidates count grants in flight; new ones start with their own vote. *)
VotersStep ==
    \A k \in Server : role'[k] = "CANDIDATE" =>
        \/ /\ role[k] = "CANDIDATE" /\ currentTerm'[k] = currentTerm[k]
           /\ \A j \in voters'[k] : j \in voters[k] \/ InFlight(Grant(j, k, currentTerm[k]))
        \/ currentTerm'[k] = currentTerm[k] + 1 /\ voters'[k] = {k}

MatchStep ==
    \A i, j \in Server : role[i] = "LEADER" /\ role'[i] = "LEADER" =>
        \/ matchIndex'[i][j] = matchIndex[i][j]
        \/ \E m \in Acks : /\ m.src = j /\ m.dst = i /\ m.term = currentTerm[i]
                           /\ matchIndex'[i][j] = I32(m.new_match_index)

LeadStep ==
    \A i \in Server : role'[i] = "LEADER" =>
        /\ currentTerm'[i] = currentTerm[i]
        /\ \/ role[i] = "LEADER" /\ Agree(log[i], log'[i], Len(log[i]))
           \/ ~ Won(currentTerm[i]) /\ log'[i] = log[i]

(* A term that is won is won by a candidate that a majority supports. *)
ElectStep ==
    \A u \in Term : Won(u)' =>
        \/ Won(u)
        \/ \E k \in Server, Q \in SUBSET Server :
              /\ Standing(k, u) /\ leaderLog'[u] = log[k]
              /\ Majority(Cardinality(Q)) /\ \A j \in Q : Supports(j, k, u)

Frame ==
    /\ Growth /\ \A j \in Server : LogStep(j)
    /\ NetOK /\ VotersStep /\ MatchStep /\ LeadStep /\ ElectStep

SafeInv == ElectionInv /\ LogInv /\ CommitInv

LEMMA SafeFacts ==
    ASSUME SafeInv
    PROVE  /\ TypeOK /\ ElectionInv /\ LogInv /\ CommitInv
           /\ \A j \in Server : log[j] \in LogType /\ Grounded(log[j])
           /\ \A t \in Term : leaderLog[t] \in LogType /\ Grounded(leaderLog[t]) /\ t \in Nat
           /\ \A j \in Server : currentTerm[j] \in Term /\ currentTerm[j] \in Nat
<1>1. TypeOK /\ ElectionInv /\ LogInv /\ CommitInv
  BY DEF SafeInv, ElectionInv
<1>2. \A j \in Server : log[j] \in LogType /\ Grounded(log[j])
  BY <1>1, TypeFacts DEF LogInv, LogsGrounded
<1>3. \A t \in Term : leaderLog[t] \in LogType /\ Grounded(leaderLog[t]) /\ t \in Nat
  BY <1>1, TypeFacts DEF LogInv, LogsGrounded
<1>4. QED
  BY <1>1, <1>2, <1>3, TypeFacts

(* Where the support of a standing candidate comes from. *)
LEMMA SupportStep ==
    ASSUME ElectionInv, ElectionInv', Frame, NEW j \in Server, NEW k \in Server,
           NEW u \in Term, Standing(k, u)', Supports(j, k, u)'
    PROVE  \/ Standing(k, u) /\ Supports(j, k, u)
           \/ Standing(k, u) /\ \E m \in BagToSet(net) :
                 /\ m.code = "RPC_CALL_REQ_VOTE" /\ m.src = k /\ m.term = u
                 /\ log_is_up_to_date(log[j], m.last_log_idx, m.last_log_term)
           \/ j = k
<1>1. TypeOK /\ TypeOK' /\ currentTerm[k] \in Nat /\ u \in Nat
  BY TypeFacts DEF ElectionInv, Term
<1>2. role'[k] = "CANDIDATE" /\ currentTerm'[k] = u
  BY DEF Standing
<1>3. ~ (\E e \in elected' : e.term = u /\ e.leader = k /\ j \in e.quorum)
  BY <1>1, <1>2 DEF ElectionInv, OwnVote
<1>4. ASSUME Grant(j, k, u) \in BagToSet(net')
      PROVE  \/ Grant(j, k, u) \in BagToSet(net)
             \/ \E m \in BagToSet(net) :
                   /\ m.code = "RPC_CALL_REQ_VOTE" /\ m.src = k /\ m.term = u
                   /\ log_is_up_to_date(log[j], m.last_log_idx, m.last_log_term)
  <2> DEFINE g == Grant(j, k, u)
  <2>1. g.code = "RPC_RESP_REQ_VOTE" /\ g.src = j /\ g.dst = k /\ g.term = u /\ g.vote_granted
    BY GrantIsPacket
  <2> HIDE DEF g
  <2>2. g \in BagToSet(net) \/ PacketOK(g)
    BY <1>4 DEF Frame, NetOK, g
  <2>3. QED
    BY <2>1, <2>2 DEF PacketOK, g
<1>5. ASSUME NEW m \in BagToSet(net), m.code = "RPC_CALL_REQ_VOTE", m.src = k, m.term = u
      PROVE  u <= currentTerm[k]
  <2>1. m.dst \in Server
    BY <1>1, PacketKind DEF TypeOK
  <2>2. m \in Ballots(m.dst, k, u)
    BY <1>5 DEF Ballots
  <2>3. QED
    BY <2>1, <2>2 DEF ElectionInv, OneVoteEach, OneVote
<1>6. Grant(j, k, u) \in BagToSet(net) => u <= currentTerm[k]
  BY DEF ElectionInv, OneVoteEach, OneVote, InFlight, BagIn
<1>7. Grant(j, k, u) \in BagToSet(net') \/ j \in voters'[k]
  <2>1. InFlight(Grant(j, k, u))' => Grant(j, k, u) \in BagToSet(net')
    BY DEF InFlight, BagIn, Grant, send_request_vote_response
  <2>2. QED
    BY <1>3, <2>1 DEF Supports
<1>8. CASE /\ role[k] = "CANDIDATE" /\ currentTerm'[k] = currentTerm[k]
           /\ \A x \in voters'[k] : x \in voters[k] \/ InFlight(Grant(x, k, currentTerm[k]))
  <2>1. Standing(k, u)
    BY <1>2, <1>8 DEF Standing
  <2>2. CASE j \in voters'[k]
    BY <1>2, <1>8, <2>1, <2>2 DEF Supports
  <2>3. CASE Grant(j, k, u) \in BagToSet(net')
    BY <1>4, <2>1, <2>3 DEF Supports, InFlight, BagIn
  <2>4. QED
    BY <1>7, <2>2, <2>3
<1>9. CASE currentTerm'[k] = currentTerm[k] + 1 /\ voters'[k] = {k}
  <2>1. ~ (u <= currentTerm[k])
    BY <1>1, <1>2, <1>9
  <2>2. QED
    BY <1>4, <1>5, <1>6, <1>7, <1>9, <2>1
<1>10. QED
  BY <1>2, <1>8, <1>9 DEF Frame, VotersStep

(* The entry stays in a log that backs it. *)
LEMMA HoldsStep ==
    ASSUME SafeInv, TypeOK', Frame, NEW j \in Server, NEW n \in 1 .. MaxLogLen, NEW t \in Term,
           t <= currentTerm[j], Holds(log[j], n, t), Settled(n, t)
    PROVE  Holds(log'[j], n, t)
<1> DEFINE u == currentTerm'[j]
<1>1. /\ TypeOK /\ LogInv /\ CommitInv /\ log[j] \in LogType /\ Grounded(log[j])
      /\ t \in Nat /\ currentTerm[j] \in Nat
  BY SafeFacts
<1>2. u \in Term /\ u \in Nat /\ currentTerm[j] <= u
  BY TypeFactsNext DEF Frame, Growth
<1>3. CASE log'[j] = log[j]
  BY <1>3
<1>4. CASE log'[j] # log[j]
  <2>1. /\ Won(u)
        /\ \A q \in Nat : Agree(log[j], leaderLog[u], q) => Agree(log'[j], leaderLog'[u], q)
    BY <1>4 DEF Frame, LogStep
  <2> HIDE DEF u
  <2>2. leaderLog[u] \in LogType /\ Grounded(leaderLog[u])
        /\ leaderLog'[u] \in LogType /\ log'[j] \in LogType
    BY <1>2, SafeFacts, TypeFactsNext
  <2>3. Holds(leaderLog[u], n, t)
    <3>1. CASE u = t
      BY <1>1, <3>1, HoldsAgree
    <3>2. CASE u > t
      BY <1>1, <1>2, <2>1, <3>2 DEF CommitInv, LaterLeadersHold
    <3>3. QED
      BY <1>1, <1>2, <3>1, <3>2
  <2>4. Agree(log[j], leaderLog[u], n) /\ n \in Nat
    BY <1>1, <2>2, <2>3, HoldersAgree
  <2>5. Agree(log'[j], leaderLog'[u], n)
    BY <2>1, <2>4
  <2>6. leaderLog'[u][n] = leaderLog[u][n]
    BY <1>2, <2>2, <2>3, LogFacts DEF Frame, Growth, Agree, Holds
  <2>7. n <= Len(log'[j]) /\ log'[j][n] = leaderLog'[u][n]
    BY <2>5 DEF Agree
  <2>8. n \in DOMAIN log'[j]
    BY <2>2, <2>7, LogFacts
  <2>9. QED
    BY <2>3, <2>6, <2>7, <2>8 DEF Holds
<1>5. QED
  BY <1>3, <1>4

LEMMA BacksStep ==
    ASSUME SafeInv, ElectionInv', Frame, NEW j \in Server, NEW n \in 1 .. MaxLogLen,
           NEW t \in Term, Backs(j, n, t), Settled(n, t)
    PROVE  Backs(j, n, t)'
<1>1. /\ TypeOK /\ TypeOK' /\ ElectionInv /\ LogInv /\ CommitInv
      /\ t \in Nat /\ currentTerm[j] \in Nat /\ currentTerm'[j] \in Nat
  BY SafeFacts, TypeFactsNext DEF ElectionInv
<1>2. t <= currentTerm[j] /\ Holds(log[j], n, t)
  BY DEF Backs
<1>3. t <= currentTerm'[j]
  BY <1>1, <1>2 DEF Frame, Growth
<1>4. Holds(log'[j], n, t)
  BY <1>1, <1>2, HoldsStep
<1>5. ASSUME NEW k \in Server, NEW u \in Term, u > t, Standing(k, u)', Supports(j, k, u)'
      PROVE  Covers(log'[k], n, t)
  <2>1. log'[k] = log[k] /\ log[k] \in LogType /\ Grounded(log[k])
    BY <1>5, SafeFacts DEF Standing, Frame, LogStep
  <2>2. CASE Standing(k, u) /\ Supports(j, k, u)
    BY <1>5, <2>1, <2>2 DEF Backs
  <2>3. ASSUME Standing(k, u), NEW m \in BagToSet(net),
               m.code = "RPC_CALL_REQ_VOTE", m.src = k, m.term = u,
               log_is_up_to_date(log[j], m.last_log_idx, m.last_log_term)
        PROVE  Covers(log[k], n, t)
    <3>1. m.last_log_idx = U32(Len(log[k]) - 1) /\ m.last_log_term = LastTerm(log[k])
      BY <1>1, <2>3 DEF CommitInv, BallotsHonest
    <3>2. log_is_up_to_date(log[j], U32(Len(log[k]) - 1), LastTerm(log[k]))
      BY <2>3, <3>1
    <3>3. log[j] \in LogType /\ Grounded(log[j])
      BY SafeFacts
    <3>4. QED
      BY <1>1, <1>2, <2>1, <3>2, <3>3, UpToDateCovers
  <2>4. CASE j = k
    BY <1>1, <1>2, <2>1, <2>4, HolderCovers
  <2>5. QED
    BY <1>1, <1>5, <2>1, <2>2, <2>3, <2>4, SupportStep
<1>6. QED
  BY <1>3, <1>4, <1>5 DEF Backs

-----------------------------------------------------------------------------
(* Elections *)

(* Every majority that has reached a later term contains a backer. *)
LEMMA SettledBacker ==
    ASSUME SafeInv, NEW n \in 1 .. MaxLogLen, NEW t \in Term, NEW u \in Term, u > t,
           Settled(n, t), NEW P \in SUBSET Server, Majority(Cardinality(P)),
           \A j \in P : u <= currentTerm[j]
    PROVE  \E j \in P : Backs(j, n, t)
<1>1. TypeOK /\ ElectionInv /\ LogInv /\ CommitInv /\ t \in Nat /\ u \in Nat
      /\ \A j \in Server : currentTerm[j] \in Nat
  BY SafeFacts
<1>2. CASE CommitPoint(n, t)
  <2>1. PICK Q \in SUBSET Server : Majority(Cardinality(Q)) /\ \A j \in Q : Backs(j, n, t)
    BY <1>1, <1>2 DEF CommitInv, ChosenBacked
  <2>2. PICK j \in Server : j \in P /\ j \in Q
    BY <2>1, MajorityMeet
  <2>3. QED
    BY <2>1, <2>2
<1>3. ASSUME NEW i \in Server, currentTerm[i] = t, Committable(i, n)
      PROVE  \E j \in P : Backs(j, n, t)
  <2> DEFINE Q == {j \in Server : currentTerm[j] <= currentTerm[i] \/ Acked(i, j, n)}
  <2>1. Q \in SUBSET Server /\ Majority(Cardinality(Q))
    BY <1>3 DEF Committable
  <2>2. PICK j \in Server : j \in P /\ j \in Q
    BY <2>1, MajorityMeet
  <2>3. j # i /\ Acked(i, j, n)
    <3>1. u <= currentTerm[j] /\ currentTerm[j] \in Nat
      BY <1>1, <2>2
    <3>2. ~ (currentTerm[j] <= t)
      BY <1>1, <3>1
    <3>3. QED
      BY <1>1, <1>3, <2>2, <3>2
  <2>4. Backs(j, n, t)
    BY <1>1, <1>3, <2>3 DEF CommitInv, AckersBack
  <2>5. QED
    BY <2>2, <2>4
<1>4. QED
  BY <1>2, <1>3 DEF Settled

LEMMA WinnerHolds ==
    ASSUME SafeInv, NEW n \in 1 .. MaxLogLen, NEW t \in Term, NEW u \in Term, u > t,
           Settled(n, t), NEW k \in Server, Standing(k, u),
           NEW Q \in SUBSET Server, Majority(Cardinality(Q)), \A j \in Q : Supports(j, k, u)
    PROVE  Holds(log[k], n, t)
<1>1. TypeOK /\ ElectionInv /\ LogInv /\ CommitInv
  BY SafeFacts
<1>2. \A j \in Q : u <= currentTerm[j]
  BY <1>1, SupportTerm
<1>3. PICK j \in Q : Backs(j, n, t)
  BY <1>2, SettledBacker
<1>4. Holds(log[j], n, t) /\ Covers(log[k], n, t) /\ j \in Server
  BY <1>3 DEF Backs
<1>5. /\ log[j] \in LogType /\ Grounded(log[j]) /\ log[k] \in LogType /\ Grounded(log[k])
  BY <1>4, SafeFacts
<1>6. Holds(leaderLog[t], n, t)
  BY <1>1, <1>4, <1>5, HoldsAgree
<1>7. \A v \in Term : v > t /\ Won(v) => Holds(leaderLog[v], n, t)
  BY <1>1 DEF CommitInv, LaterLeadersHold
<1>8. QED
  BY <1>1, <1>4, <1>5, <1>6, <1>7, CovererHolds

-----------------------------------------------------------------------------
(* Acknowledgements *)

LEMMA AckedStep ==
    ASSUME TypeOK, TypeOK', Frame, NEW i \in Server, NEW j \in Server,
           role[i] = "LEADER", role'[i] = "LEADER", NEW n \in Nat, Acked(i, j, n)'
    PROVE  Acked(i, j, n) \/ currentTerm'[j] = currentTerm[i]
<1>1. currentTerm'[i] = currentTerm[i] /\ currentTerm[i] \in Nat
  BY TypeFacts DEF Frame, LeadStep
<1>2. CASE matchIndex'[i][j] + 1 >= n
  <2>1. CASE matchIndex'[i][j] = matchIndex[i][j]
    BY <1>2, <2>1 DEF Acked
  <2>2. CASE \E m \in Acks : /\ m.src = j /\ m.dst = i /\ m.term = currentTerm[i]
                             /\ matchIndex'[i][j] = I32(m.new_match_index)
    BY <1>2, <2>2 DEF Acked
  <2>3. QED
    BY <2>1, <2>2 DEF Frame, MatchStep
<1>3. CASE \E m \in Acks' : /\ m.src = j /\ m.dst = i /\ m.term = currentTerm'[i]
                            /\ I32(m.new_match_index) + 1 >= n
  <2>1. PICK m \in Acks' : /\ m.src = j /\ m.dst = i /\ m.term = currentTerm'[i]
                           /\ I32(m.new_match_index) + 1 >= n
    BY <1>3
  <2>2. m \in BagToSet(net') /\ m.code = "RPC_RESP_APPEND_ENT" /\ m.success
    BY DEF Acks
  <2>3. CASE m \in BagToSet(net)
    BY <1>1, <2>1, <2>2, <2>3 DEF Acked, Acks
  <2>4. CASE PacketOK(m)
    <3>1. m.term < currentTerm'[i] \/ m.term = currentTerm'[j]
      BY <2>1, <2>2, <2>4 DEF PacketOK
    <3>2. QED
      BY <1>1, <2>1, <3>1
  <2>5. QED
    BY <2>2, <2>3, <2>4 DEF Frame, NetOK
<1>4. QED
  BY <1>2, <1>3 DEF Acked

(* What a leader may commit after a step, it could commit before, unless   *)
(* the entry is new.                                                        *)
LEMMA CommittableStep ==
    ASSUME SafeInv, TypeOK', LogInv', Frame, NEW i \in Server, NEW n, Committable(i, n)'
    PROVE  /\ role[i] = "LEADER" /\ role'[i] = "LEADER" /\ currentTerm'[i] = currentTerm[i]
           /\ n \in 1 .. MaxLogLen
           /\ Majority(Cardinality({j \in Server :
                 currentTerm[j] <= currentTerm[i] \/ Acked(i, j, n)}))
           /\ n <= Len(log[i]) => Committable(i, n)
<1>1. /\ TypeOK /\ ElectionInv /\ LogInv /\ CommitInv
      /\ log[i] \in LogType /\ Grounded(log[i]) /\ log'[i] \in LogType
  BY SafeFacts, TypeFactsNext
<1>2. role'[i] = "LEADER" /\ Holds(log'[i], n, currentTerm'[i])
  BY DEF Committable
<1>3. currentTerm'[i] = currentTerm[i]
  BY <1>2 DEF Frame, LeadStep
<1>4. role[i] = "LEADER" /\ Agree(log[i], log'[i], Len(log[i]))
  <2>1. CASE ~ Won(currentTerm[i]) /\ log'[i] = log[i]
    BY <1>1, <1>2, <1>3, <2>1, HoldsAgree
  <2>2. QED
    BY <1>2, <2>1 DEF Frame, LeadStep
<1>5. n \in 1 .. MaxLogLen /\ n \in Nat
  <2>1. n \in 1 .. Len(log'[i]) /\ Len(log'[i]) <= MaxLogLen /\ Len(log'[i]) \in Nat
    BY <1>1, <1>2, LogFacts DEF Holds
  <2>2. QED
    BY <2>1, WordAssumption
<1>6. Majority(Cardinality({j \in Server :
                 currentTerm[j] <= currentTerm[i] \/ Acked(i, j, n)}))
  <2> DEFINE P == {j \in Server : currentTerm'[j] <= currentTerm'[i] \/ Acked(i, j, n)'}
             Q == {j \in Server : currentTerm[j] <= currentTerm[i] \/ Acked(i, j, n)}
  <2>1. Majority(Cardinality(P))
    BY DEF Committable
  <2>2. ASSUME NEW j \in P PROVE j \in Q
    <3>1. /\ currentTerm[j] \in Nat /\ currentTerm'[j] \in Nat /\ currentTerm[i] \in Nat
          /\ currentTerm[j] <= currentTerm'[j]
      BY <1>1, TypeFacts, TypeFactsNext DEF Frame, Growth
    <3>2. CASE currentTerm'[j] <= currentTerm'[i]
      BY <1>3, <3>1, <3>2
    <3>3. CASE Acked(i, j, n)'
      <4>1. Acked(i, j, n) \/ currentTerm'[j] = currentTerm[i]
        BY <1>1, <1>2, <1>4, <1>5, <3>3, AckedStep
      <4>2. QED
        BY <3>1, <4>1
    <3>4. QED
      BY <2>2, <3>2, <3>3
  <2> HIDE DEF P, Q
  <2>3. P \in SUBSET Server /\ Q \in SUBSET Server
    BY DEF P, Q
  <2>4. Majority(Cardinality(Q))
    BY <2>1, <2>2, <2>3, MajorityGrows
  <2>5. QED
    BY <2>4 DEF Q
<1>7. ASSUME n <= Len(log[i]) PROVE Committable(i, n)
  <2>1. n \in 1 .. Len(log[i])
    BY <1>1, <1>5, <1>7, LogFacts
  <2>2. log[i][n] = log'[i][n] /\ n \in DOMAIN log[i]
    BY <1>1, <1>4, <2>1, LogFacts DEF Agree
  <2>3. Holds(log[i], n, currentTerm[i])
    BY <1>2, <1>3, <2>2 DEF Holds
  <2>4. QED
    BY <1>4, <1>6, <2>3 DEF Committable
<1>8. QED
  BY <1>2, <1>3, <1>4, <1>5, <1>6, <1>7

(* The same of the next state. *)
LEMMA AckedKeptAll ==
    TypeOK /\ LogInv => \A a, b \in Server, k \in Nat : \A u :
        role[a] = "LEADER" /\ b # a /\ k > 0 /\ Acked(a, b, k) /\ u = currentTerm[a] => Kept(b, u, k)
BY AckedKept

LEMMA AckedKeptNext ==
    ASSUME TypeOK', LogInv', NEW i \in Server, NEW j \in Server, role'[i] = "LEADER", j # i,
           NEW n \in Nat, n > 0, Acked(i, j, n)', NEW t, t = currentTerm'[i]
    PROVE  Kept(j, t, n)'
<1>1. (TypeOK /\ LogInv => \A a, b \in Server, k \in Nat : \A u :
        role[a] = "LEADER" /\ b # a /\ k > 0 /\ Acked(a, b, k) /\ u = currentTerm[a] => Kept(b, u, k))'
  BY AckedKeptAll, PTL
<1>2. QED
  BY <1>1

LEMMA CurrentBacksAll ==
    ElectionInv => \A a \in Server : \A k, u :
        currentTerm[a] = u /\ Holds(log[a], k, u) => Backs(a, k, u)
BY CurrentBacks

LEMMA CurrentBacksNext ==
    ASSUME ElectionInv', NEW j \in Server, NEW n, NEW t, currentTerm'[j] = t, Holds(log'[j], n, t)
    PROVE  Backs(j, n, t)'
<1>1. (ElectionInv => \A a \in Server : \A k, u :
        currentTerm[a] = u /\ Holds(log[a], k, u) => Backs(a, k, u))'
  BY CurrentBacksAll, PTL
<1>2. QED
  BY <1>1

-----------------------------------------------------------------------------
(* The commit loop *)

(* Leader i counts a majority for its p-th entry, of its own term. *)
CommitBy(i, p) ==
    /\ role[i] = "LEADER" /\ p \in 1 .. MaxLogLen
    /\ Holds(log[i], p, currentTerm[i])
    /\ Majority(Cardinality({j \in Server : j = i \/ Acked(i, j, p)}))
    /\ p - 1 # commitIndex[i] /\ chosen' = Choose(i, p - 1)
ChosenStep ==
    chosen' = chosen \/ \E i \in Server, p \in 1 .. MaxLogLen : CommitBy(i, p)

LEMMA ChooseFacts ==
    ASSUME TypeOK, TypeOK', NEW i \in Server, NEW p, CommitBy(i, p)
    PROVE  /\ Len(chosen') = IF p <= Len(chosen) THEN Len(chosen) ELSE p
           /\ DOMAIN chosen' = 1 .. Len(chosen') /\ Len(chosen') \in Nat
           /\ \A k \in 1 .. Len(chosen') : k > Len(chosen) =>
                 chosen'[k].entry = log[i][k] /\ chosen'[k].at = currentTerm[i]
           /\ \A k \in 1 .. Len(chosen) :
                 /\ chosen'[k].entry = chosen[k].entry
                 /\ chosen'[k].at = IF k <= p /\ currentTerm[i] < chosen[k].at
                                    THEN currentTerm[i] ELSE chosen[k].at
<1> DEFINE n == IF p - 1 < Len(chosen) THEN Len(chosen) ELSE (p - 1) + 1
           g(k) == IF k > Len(chosen) THEN [entry |-> log[i][k], at |-> currentTerm[i]]
                   ELSE IF k <= (p - 1) + 1 /\ currentTerm[i] < chosen[k].at
                   THEN [chosen[k] EXCEPT !.at = currentTerm[i]]
                   ELSE chosen[k]
<1>1. p \in 1 .. MaxLogLen /\ p \in Nat /\ Len(chosen) \in Nat
  BY ChosenFacts, WordAssumption DEF CommitBy
<1>2. chosen' = [k \in 1 .. n |-> g(k)]
  BY DEF CommitBy, Choose
<1>3. n = (IF p <= Len(chosen) THEN Len(chosen) ELSE p) /\ n \in Nat /\ (p - 1) + 1 = p
      /\ Len(chosen) <= n
  BY <1>1
<1>4. Len(chosen') \in Nat /\ DOMAIN chosen' = 1 .. Len(chosen')
  <2> DEFINE E == [entry : Entry, at : Term]
  <2>1. chosen' \in Seq(E)
    BY DEF TypeOK
  <2> HIDE DEF E
  <2>2. QED
    BY <2>1
<1> HIDE DEF n, g
<1>5. DOMAIN chosen' = 1 .. n /\ \A k \in 1 .. n : chosen'[k] = g(k)
  BY <1>2
<1>6. Len(chosen') = n
  BY <1>3, <1>4, <1>5
<1>7. ASSUME NEW k \in 1 .. n, k > Len(chosen)
      PROVE  chosen'[k].entry = log[i][k] /\ chosen'[k].at = currentTerm[i]
  BY <1>5, <1>7 DEF g
<1>8. ASSUME NEW k \in 1 .. Len(chosen)
      PROVE  /\ chosen'[k].entry = chosen[k].entry
             /\ chosen'[k].at = IF k <= p /\ currentTerm[i] < chosen[k].at
                                THEN currentTerm[i] ELSE chosen[k].at
  <2>1. k \in 1 .. n /\ ~ (k > Len(chosen))
    BY <1>1, <1>3
  <2>2. chosen[k] \in [entry : Entry, at : Term]
    <3> DEFINE E == [entry : Entry, at : Term]
    <3>1. chosen \in Seq(E)
      BY DEF TypeOK
    <3> HIDE DEF E
    <3>2. chosen[k] \in E
      BY <3>1
    <3>3. QED
      BY <3>2 DEF E
  <2>3. CASE k <= p /\ currentTerm[i] < chosen[k].at
    <3>1. chosen'[k] = [chosen[k] EXCEPT !.at = currentTerm[i]]
      BY <1>3, <1>5, <2>1, <2>3 DEF g
    <3>2. QED
      BY <2>2, <2>3, <3>1
  <2>4. CASE ~ (k <= p /\ currentTerm[i] < chosen[k].at)
    <3>1. chosen'[k] = chosen[k]
      BY <1>3, <1>5, <2>1, <2>4 DEF g
    <3>2. QED
      BY <2>4, <3>1
  <2>5. QED
    BY <2>3, <2>4
<1>9. QED
  BY <1>3, <1>4, <1>6, <1>7, <1>8

LEMMA AckedShorter ==
    ASSUME TypeOK, NEW i \in Server, NEW j \in Server, NEW p \in Nat, NEW n \in Nat, n <= p,
           Acked(i, j, p)
    PROVE  Acked(i, j, n)
<1>1. matchIndex[i][j] + 1 \in Nat
  BY TypeFacts
<1>2. \A m \in Acks : I32(m.new_match_index) + 1 \in Nat
  BY TypeFacts, IndexOfWire DEF append_entries_res_t, Index
<1>3. QED
  BY <1>1, <1>2 DEF Acked

(* What the commit loop counts could be committed and is backed. *)
LEMMA CommitByBacked ==
    ASSUME SafeInv, NEW i \in Server, NEW p, CommitBy(i, p), NEW n \in 1 .. MaxLogLen, n <= p,
           Holds(log[i], n, currentTerm[i])
    PROVE  /\ Committable(i, n) /\ Settled(n, currentTerm[i])
           /\ \E Q \in SUBSET Server :
                 Majority(Cardinality(Q)) /\ \A j \in Q : Backs(j, n, currentTerm[i])
<1> DEFINE Q == {j \in Server : j = i \/ Acked(i, j, p)}
           P == {j \in Server : currentTerm[j] <= currentTerm[i] \/ Acked(i, j, n)}
<1>1. TypeOK /\ ElectionInv /\ CommitInv /\ currentTerm[i] \in Nat
  BY SafeFacts
<1>2. role[i] = "LEADER" /\ Majority(Cardinality(Q)) /\ p \in Nat /\ n \in Nat
  BY WordAssumption DEF CommitBy
<1>3. \A j \in Server : Acked(i, j, p) => Acked(i, j, n)
  BY <1>1, <1>2, AckedShorter
<1>4. Q \subseteq P
  BY <1>1, <1>3
<1>5. Majority(Cardinality(P))
  <2>1. Q \in SUBSET Server /\ P \in SUBSET Server
    OBVIOUS
  <2> HIDE DEF Q, P
  <2>2. QED
    BY <1>2, <1>4, <2>1, MajorityGrows
<1>6. Committable(i, n)
  BY <1>2, <1>5 DEF Committable
<1>7. ASSUME NEW j \in Q PROVE Backs(j, n, currentTerm[i])
  <2>1. CASE j = i
    BY <1>1, <2>1, CurrentBacks
  <2>2. CASE j # i
    BY <1>1, <1>3, <1>6, <2>2 DEF CommitInv, AckersBack
  <2>3. QED
    BY <2>1, <2>2
<1>8. QED
  BY <1>2, <1>6, <1>7 DEF Settled

(* The leader's log has the entries chosen so far, up to p. *)
LEMMA CommitByAgrees ==
    ASSUME SafeInv, NEW i \in Server, NEW p, CommitBy(i, p)
    PROVE  /\ p \in DOMAIN log[i] /\ log[i] = leaderLog[currentTerm[i]] /\ Won(currentTerm[i])
           /\ \A k \in DOMAIN chosen : k <= p => chosen[k].entry = log[i][k]
           /\ p \in DOMAIN chosen => chosen[p].at >= currentTerm[i]
<1> DEFINE t == currentTerm[i]
<1>1. /\ TypeOK /\ ElectionInv /\ LogInv /\ CommitInv /\ t \in Nat /\ t \in Term
      /\ log[i] \in LogType /\ Grounded(log[i])
  BY SafeFacts
<1>2. role[i] = "LEADER" /\ Holds(log[i], p, t) /\ p \in 1 .. MaxLogLen /\ p \in Nat
  BY WordAssumption DEF CommitBy
<1>3. log[i] = leaderLog[t]
  BY <1>1, <1>2 DEF LogInv, LeadersOwnLog
<1>4. Won(t)
  BY <1>1, <1>2, HoldsAgree
<1>5. Settled(p, t)
  BY <1>2, CommitByBacked
<1> HIDE DEF t
<1>6. ASSUME NEW k \in DOMAIN chosen, k <= p PROVE chosen[k].entry = log[i][k]
  <2> DEFINE T == chosen[k].at
  <2>1. /\ T \in Term /\ Won(T) /\ k \in DOMAIN leaderLog[T] /\ T \in Nat
        /\ leaderLog[T][k] = chosen[k].entry /\ k \in 1 .. MaxLogLen
    BY <1>1, ChosenLeader DEF Term
  <2>2. CASE T <= t
    BY <1>1, <1>3, <1>4, <2>2, WinnerComplete
  <2>3. CASE T > t
    <3> HIDE DEF T
    <3>1. Holds(leaderLog[T], p, t)
      BY <1>1, <1>2, <1>5, <2>1, <2>3 DEF CommitInv, LaterLeadersHold
    <3>2. leaderLog[T] \in LogType /\ Grounded(leaderLog[T])
      BY <2>1, SafeFacts
    <3>3. Agree(leaderLog[T], log[i], p)
      BY <1>1, <1>2, <3>1, <3>2, HoldersAgree
    <3>4. k \in 1 .. p
      BY <1>2, <1>6, <2>1
    <3>5. QED
      BY <2>1, <3>3, <3>4 DEF Agree
  <2>4. QED
    BY <1>1, <2>1, <2>2, <2>3
<1>7. ASSUME p \in DOMAIN chosen, chosen[p].at < t PROVE FALSE
  <2> DEFINE T == chosen[p].at
  <2>1. T \in Term /\ T \in Nat
    BY <1>1, <1>7, ChosenLeader DEF Term
  <2>2. PICK n \in 1 .. MaxLogLen : CommitPoint(n, T) /\ p <= n
    BY <1>1, <1>7, ChosenLeader
  <2>3. T < t
    BY <1>7
  <2> HIDE DEF T
  <2>4. Holds(leaderLog[t], n, T)
    BY <1>1, <1>4, <2>1, <2>2, <2>3 DEF CommitInv, LaterLeadersHold, Settled
  <2>5. n \in DOMAIN log[i] /\ log[i][n].term = T /\ log[i][p].term = t
    BY <1>2, <1>3, <2>4 DEF Holds
  <2>6. p \in 1 .. n
    BY <1>2, <2>2
  <2>7. t <= T
    BY <1>1, <2>5, <2>6, GroundedOrdered
  <2>8. QED
    BY <1>1, <2>1, <2>3, <2>7
<1>8. p \in DOMAIN log[i]
  BY <1>2 DEF Holds
<1>9. p \in DOMAIN chosen => chosen[p].at >= t
  <2>1. p \in DOMAIN chosen => chosen[p].at \in Nat
    BY <1>1, ChosenFacts
  <2>2. QED
    BY <1>1, <1>7, <2>1
<1>10. QED
  BY <1>3, <1>4, <1>6, <1>8, <1>9 DEF t

LEMMA PointStep ==
    ASSUME SafeInv, TypeOK', ChosenStep, NEW n \in 1 .. MaxLogLen, NEW t \in Term,
           CommitPoint(n, t)'
    PROVE  /\ Settled(n, t)
           /\ \E Q \in SUBSET Server : Majority(Cardinality(Q)) /\ \A j \in Q : Backs(j, n, t)
<1>1. TypeOK /\ CommitInv
  BY SafeFacts
<1>2. CASE CommitPoint(n, t)
  BY <1>1, <1>2 DEF CommitInv, ChosenBacked, Settled
<1>3. CASE chosen' = chosen
  BY <1>2, <1>3 DEF CommitPoint
<1>4. ASSUME NEW i \in Server, NEW p, CommitBy(i, p), ~ CommitPoint(n, t)
      PROVE  t = currentTerm[i] /\ n <= p /\ Holds(log[i], n, currentTerm[i])
  <2>1. n \in DOMAIN chosen' /\ chosen'[n].at = t /\ chosen'[n].entry.term = t
    BY DEF CommitPoint
  <2>2. /\ Len(chosen') = IF p <= Len(chosen) THEN Len(chosen) ELSE p
        /\ DOMAIN chosen' = 1 .. Len(chosen') /\ Len(chosen') \in Nat
        /\ \A k \in 1 .. Len(chosen') : k > Len(chosen) =>
              chosen'[k].entry = log[i][k] /\ chosen'[k].at = currentTerm[i]
        /\ \A k \in 1 .. Len(chosen) :
              /\ chosen'[k].entry = chosen[k].entry
              /\ chosen'[k].at = IF k <= p /\ currentTerm[i] < chosen[k].at
                                 THEN currentTerm[i] ELSE chosen[k].at
    BY <1>1, <1>4, ChooseFacts
  <2>3. p \in Nat /\ Len(chosen) \in Nat /\ DOMAIN chosen = 1 .. Len(chosen)
    BY <1>1, <1>4, ChosenFacts, WordAssumption DEF CommitBy
  <2>4. t = currentTerm[i] /\ n <= p /\ chosen'[n].entry = log[i][n]
    <3>1. CASE n > Len(chosen)
      BY <2>1, <2>2, <2>3, <3>1
    <3>2. CASE n <= Len(chosen)
      <4>1. n \in 1 .. Len(chosen) /\ n \in DOMAIN chosen
        BY <2>3, <3>2
      <4>2. n <= p /\ currentTerm[i] < chosen[n].at
        BY <1>4, <2>1, <2>2, <4>1 DEF CommitPoint
      <4>3. chosen[n].entry = log[i][n]
        BY <1>4, <4>1, <4>2, CommitByAgrees
      <4>4. QED
        BY <2>1, <2>2, <4>1, <4>2, <4>3
    <3>3. QED
      BY <2>3, <3>1, <3>2
  <2>5. n \in DOMAIN log[i]
    <3>1. p \in DOMAIN log[i] /\ log[i] \in LogType
      BY <1>4, CommitByAgrees, SafeFacts
    <3>2. QED
      BY <2>3, <2>4, <3>1, LogFacts
  <2>6. QED
    BY <2>1, <2>4, <2>5 DEF Holds
<1>5. ASSUME NEW i \in Server, NEW p, CommitBy(i, p), ~ CommitPoint(n, t)
      PROVE  /\ Settled(n, t)
             /\ \E Q \in SUBSET Server : Majority(Cardinality(Q)) /\ \A j \in Q : Backs(j, n, t)
  BY <1>4, <1>5, CommitByBacked
<1>6. QED
  BY <1>2, <1>3, <1>5 DEF ChosenStep

(* Nothing is settled by a step but the entry of a client's request. *)
LEMMA SettledStep ==
    ASSUME SafeInv, TypeOK', LogInv', Frame, ChosenStep, NEW n \in 1 .. MaxLogLen,
           NEW t \in Term, Settled(n, t)'
    PROVE  \/ Settled(n, t)
           \/ \E i \in Server :
                 /\ role[i] = "LEADER" /\ currentTerm[i] = t /\ n > Len(log[i])
                 /\ Majority(Cardinality({j \in Server :
                       currentTerm[j] <= currentTerm[i] \/ Acked(i, j, n)}))
<1>1. CASE CommitPoint(n, t)'
  BY <1>1, PointStep
<1>2. ASSUME NEW i \in Server, currentTerm'[i] = t, Committable(i, n)'
      PROVE  \/ Settled(n, t)
             \/ /\ role[i] = "LEADER" /\ currentTerm[i] = t /\ n > Len(log[i])
                /\ Majority(Cardinality({j \in Server :
                      currentTerm[j] <= currentTerm[i] \/ Acked(i, j, n)}))
  <2>1. Len(log[i]) \in Nat
    BY SafeFacts, LogFacts
  <2>2. /\ role[i] = "LEADER" /\ currentTerm'[i] = currentTerm[i]
        /\ Majority(Cardinality({j \in Server :
              currentTerm[j] <= currentTerm[i] \/ Acked(i, j, n)}))
        /\ n <= Len(log[i]) => Committable(i, n)
    BY <1>2, CommittableStep
  <2>3. n <= Len(log[i]) \/ n > Len(log[i])
    BY <2>1
  <2>4. QED
    BY <1>2, <2>2, <2>3 DEF Settled
<1>3. QED
  BY <1>1, <1>2 DEF Settled

LEMMA AckersBackStep ==
    ASSUME SafeInv, ElectionInv', LogInv', Frame
    PROVE  AckersBack'
<1> SUFFICES ASSUME NEW i \in Server, NEW j \in Server, NEW n \in 1 .. MaxLogLen, j # i,
                    Committable(i, n)', Acked(i, j, n)', NEW t, t = currentTerm'[i]
             PROVE  Backs(j, n, t)'
  BY DEF AckersBack
<1>1. TypeOK /\ TypeOK' /\ LogInv /\ CommitInv
  BY SafeFacts DEF ElectionInv
<1>2. /\ role[i] = "LEADER" /\ role'[i] = "LEADER" /\ currentTerm'[i] = currentTerm[i]
      /\ n <= Len(log[i]) => Committable(i, n)
  BY <1>1, CommittableStep
<1>3. n \in Nat /\ n > 0 /\ t \in Term /\ t \in Nat /\ Len(log[i]) \in Nat
  BY <1>1, TypeFacts, TypeFactsNext, LogFacts
<1>4. CASE Acked(i, j, n)
  <2>1. Kept(j, t, n)
    BY <1>1, <1>2, <1>3, <1>4, AckedKept
  <2>2. n <= Len(log[i])
    BY <1>1, <1>2, <2>1 DEF Kept, LogInv, LeadersOwnLog
  <2>3. Committable(i, n)
    BY <1>2, <2>2
  <2>4. Backs(j, n, t) /\ Settled(n, t)
    BY <1>1, <1>2, <1>4, <2>3 DEF CommitInv, AckersBack, Settled
  <2>5. QED
    BY <1>3, <2>4, BacksStep
<1>5. CASE currentTerm'[j] = t
  <2>1. Kept(j, t, n)'
    BY <1>1, <1>2, <1>3, AckedKeptNext
  <2>2. Agree(log'[j], leaderLog'[t], n)
    BY <1>3, <1>5, <2>1 DEF Kept
  <2>3. log'[i] = leaderLog'[t] /\ Holds(log'[i], n, t)
    BY <1>2 DEF LogInv, LeadersOwnLog, Committable
  <2>4. Holds(log'[j], n, t)
    <3>1. log'[j] \in LogType
      BY <1>1, TypeFactsNext
    <3>2. QED
      BY <1>3, <2>2, <2>3, <3>1, LogFacts DEF Agree, Holds
  <2>5. QED
    BY <1>5, <2>4, CurrentBacksNext
<1>6. QED
  BY <1>1, <1>2, <1>3, <1>4, <1>5, AckedStep

LEMMA ChosenBackedStep ==
    ASSUME SafeInv, ElectionInv', Frame, ChosenStep
    PROVE  ChosenBacked'
<1> SUFFICES ASSUME NEW n \in 1 .. MaxLogLen, NEW t \in Term, CommitPoint(n, t)'
             PROVE  \E Q \in SUBSET Server :
                        Majority(Cardinality(Q)) /\ \A j \in Q : Backs(j, n, t)'
  BY DEF ChosenBacked
<1>1. TypeOK'
  BY DEF ElectionInv
<1>2. /\ Settled(n, t)
      /\ \E Q \in SUBSET Server : Majority(Cardinality(Q)) /\ \A j \in Q : Backs(j, n, t)
  BY <1>1, PointStep
<1>3. QED
  BY <1>2, BacksStep

LEMMA LaterLeadersStep ==
    ASSUME SafeInv, ElectionInv', LogInv', Frame, ChosenStep
    PROVE  LaterLeadersHold'
<1> SUFFICES ASSUME NEW n \in 1 .. MaxLogLen, NEW t \in Term, NEW u \in Term,
                    Settled(n, t)', Won(u)', u > t
             PROVE  Holds(leaderLog'[u], n, t)
  BY DEF LaterLeadersHold
<1>1. /\ TypeOK /\ TypeOK' /\ ElectionInv /\ LogInv /\ CommitInv /\ t \in Nat /\ u \in Nat
      /\ \A j \in Server : currentTerm[j] \in Nat
  BY SafeFacts DEF ElectionInv
<1>2. CASE Settled(n, t)
  <2>1. CASE Won(u)
    <3>1. Holds(leaderLog[u], n, t)
      BY <1>1, <1>2, <2>1 DEF CommitInv, LaterLeadersHold
    <3>2. leaderLog[u] \in LogType /\ leaderLog'[u] \in LogType
          /\ Agree(leaderLog[u], leaderLog'[u], Len(leaderLog[u]))
      BY <1>1, TypeFacts, TypeFactsNext DEF Frame, Growth
    <3>3. n \in 1 .. Len(leaderLog[u])
      BY <3>1, <3>2, LogFacts DEF Holds
    <3>4. n \in DOMAIN leaderLog'[u] /\ leaderLog'[u][n] = leaderLog[u][n]
      BY <3>2, <3>3, LogFacts DEF Agree
    <3>5. QED
      BY <3>1, <3>4 DEF Holds
  <2>2. ASSUME NEW k \in Server, NEW Q \in SUBSET Server, Standing(k, u), leaderLog'[u] = log[k],
               Majority(Cardinality(Q)), \A j \in Q : Supports(j, k, u)
        PROVE  Holds(leaderLog'[u], n, t)
    BY <1>2, <2>2, WinnerHolds
  <2>3. QED
    BY <2>1, <2>2 DEF Frame, ElectStep
<1>3. ASSUME NEW i \in Server, role[i] = "LEADER", currentTerm[i] = t, n > Len(log[i]),
             Majority(Cardinality({j \in Server :
                currentTerm[j] <= currentTerm[i] \/ Acked(i, j, n)}))
      PROVE  FALSE
  <2> DEFINE P == {j \in Server : currentTerm[j] <= currentTerm[i] \/ Acked(i, j, n)}
  <2>1. \E Q \in SUBSET Server : Majority(Cardinality(Q)) /\ \A j \in Q : u <= currentTerm[j]
    <3>1. CASE Won(u)
      BY <1>1, <3>1, WonQuorum
    <3>2. ASSUME NEW k \in Server, NEW Q \in SUBSET Server,
                 Majority(Cardinality(Q)), \A j \in Q : Supports(j, k, u)
          PROVE  \A j \in Q : u <= currentTerm[j]
      BY <1>1, <3>2, SupportTerm
    <3>3. QED
      BY <3>1, <3>2 DEF Frame, ElectStep
  <2>2. PICK Q \in SUBSET Server : Majority(Cardinality(Q)) /\ \A j \in Q : u <= currentTerm[j]
    BY <2>1
  <2>3. P \in SUBSET Server /\ Majority(Cardinality(P))
    BY <1>3
  <2>4. PICK j \in Server : j \in P /\ j \in Q
    BY <2>2, <2>3, MajorityMeet
  <2>5. u <= currentTerm[j]
    BY <2>2, <2>4
  <2>6. ~ (currentTerm[j] <= t) /\ j # i
    BY <1>1, <1>3, <2>5
  <2>7. Acked(i, j, n) /\ n \in Nat /\ n > 0
    BY <1>3, <2>4, <2>6
  <2>8. Kept(j, t, n)
    BY <1>1, <1>3, <2>6, <2>7, AckedKept
  <2>9. n <= Len(log[i]) /\ Len(log[i]) \in Nat
    BY <1>1, <1>3, <2>8, TypeFacts, LogFacts DEF Kept, LogInv, LeadersOwnLog
  <2>10. QED
    BY <1>3, <2>9
<1>4. QED
  BY <1>1, <1>2, <1>3, SettledStep

LEMMA BallotsHonestStep ==
    ASSUME SafeInv, ElectionInv', Frame
    PROVE  BallotsHonest'
<1> SUFFICES ASSUME NEW m \in BagToSet(net'), m.code = "RPC_CALL_REQ_VOTE",
                    Standing(m.src, m.term)'
             PROVE  /\ m.last_log_idx = U32(Len(log'[m.src]) - 1)
                    /\ m.last_log_term = LastTerm(log'[m.src])
  BY DEF BallotsHonest
<1>1. TypeOK /\ TypeOK' /\ ElectionInv /\ LogInv /\ CommitInv
  BY SafeFacts DEF ElectionInv
<1>2. m.src \in Server /\ m.dst \in Server /\ m.term \in Term /\ m.term \in Nat
      /\ currentTerm[m.src] \in Nat
  BY <1>1, PacketKind, TypeFacts DEF TypeOK, Term
<1>3. role'[m.src] = "CANDIDATE" /\ currentTerm'[m.src] = m.term
  BY DEF Standing
<1>4. log'[m.src] = log[m.src]
  BY <1>2, <1>3 DEF Frame, LogStep
<1>5. CASE m \in BagToSet(net)
  <2>1. m \in Ballots(m.dst, m.src, m.term)
    BY <1>5 DEF Ballots
  <2>2. m.term <= currentTerm[m.src]
    BY <1>1, <1>2, <2>1 DEF ElectionInv, OneVoteEach, OneVote
  <2>3. Standing(m.src, m.term)
    BY <1>2, <1>3, <2>2 DEF Frame, VotersStep, Standing
  <2>4. QED
    BY <1>1, <1>4, <1>5, <2>3 DEF CommitInv, BallotsHonest
<1>6. CASE PacketOK(m)
  BY <1>4, <1>6 DEF PacketOK
<1>7. QED
  BY <1>5, <1>6 DEF Frame, NetOK

LEMMA ChosenGrowth ==
    ASSUME TypeOK, TypeOK', ChosenStep
    PROVE  /\ Len(chosen) <= Len(chosen') /\ Len(chosen') \in Nat
           /\ \A k \in 1 .. Len(chosen) :
                 chosen'[k].entry = chosen[k].entry /\ chosen'[k].at <= chosen[k].at
<1>1. /\ Len(chosen) \in Nat
      /\ \A k \in 1 .. Len(chosen) : chosen[k].at \in Nat
  BY ChosenFacts
<1>2. CASE chosen' = chosen
  BY <1>1, <1>2
<1>3. ASSUME NEW i \in Server, NEW p \in 1 .. MaxLogLen, CommitBy(i, p)
      PROVE  /\ Len(chosen) <= Len(chosen') /\ Len(chosen') \in Nat
             /\ \A k \in 1 .. Len(chosen) :
                   chosen'[k].entry = chosen[k].entry /\ chosen'[k].at <= chosen[k].at
  <2>1. /\ Len(chosen') = IF p <= Len(chosen) THEN Len(chosen) ELSE p
        /\ \A k \in 1 .. Len(chosen) :
              /\ chosen'[k].entry = chosen[k].entry
              /\ chosen'[k].at = IF k <= p /\ currentTerm[i] < chosen[k].at
                                 THEN currentTerm[i] ELSE chosen[k].at
    BY <1>3, ChooseFacts
  <2>2. p \in Nat /\ currentTerm[i] \in Nat
    BY <1>3, TypeFacts, WordAssumption
  <2>3. Len(chosen) <= Len(chosen') /\ Len(chosen') \in Nat
    BY <1>1, <2>1, <2>2
  <2>4. ASSUME NEW k \in 1 .. Len(chosen) PROVE chosen'[k].at <= chosen[k].at
    BY <1>1, <2>1, <2>2
  <2>5. QED
    BY <2>1, <2>3, <2>4
<1>4. QED
  BY <1>2, <1>3 DEF ChosenStep

LEMMA ChosenFromLeadersStep ==
    ASSUME SafeInv, TypeOK', Frame, ChosenStep
    PROVE  ChosenFromLeaders'
<1> SUFFICES ASSUME NEW k \in DOMAIN chosen', NEW t, t = chosen'[k].at
             PROVE  /\ k \in DOMAIN leaderLog'[t] /\ leaderLog'[t][k] = chosen'[k].entry
                    /\ \E n \in k .. Len(chosen') : CommitPoint(n, t)'
  BY DEF ChosenFromLeaders
<1>1. TypeOK /\ LogInv /\ CommitInv
  BY SafeFacts
<1>2. ASSUME NEW u \in Term, NEW q \in DOMAIN leaderLog[u]
      PROVE  q \in DOMAIN leaderLog'[u] /\ leaderLog'[u][q] = leaderLog[u][q]
  <2>1. leaderLog[u] \in LogType /\ leaderLog'[u] \in LogType
        /\ Agree(leaderLog[u], leaderLog'[u], Len(leaderLog[u]))
    BY <1>1, TypeFacts, TypeFactsNext DEF Frame, Growth
  <2>2. QED
    BY <1>2, <2>1, LogFacts DEF Agree
<1>3. ASSUME k \in DOMAIN chosen, chosen[k].at = t
      PROVE  /\ t \in Term /\ k \in DOMAIN leaderLog'[t] /\ leaderLog'[t][k] = chosen[k].entry
             /\ \E n \in k .. Len(chosen) : CommitPoint(n, t)
  <2>1. /\ t \in Term /\ k \in DOMAIN leaderLog[t] /\ leaderLog[t][k] = chosen[k].entry
        /\ \E n \in k .. Len(chosen) : CommitPoint(n, t)
    BY <1>1, <1>3, ChosenLeader
  <2>2. QED
    BY <1>2, <2>1
<1>4. CASE chosen' = chosen
  BY <1>3, <1>4 DEF CommitPoint
<1>5. ASSUME NEW i \in Server, NEW p \in 1 .. MaxLogLen, CommitBy(i, p),
             NEW T, T = currentTerm[i]
      PROVE  /\ k \in DOMAIN leaderLog'[t] /\ leaderLog'[t][k] = chosen'[k].entry
             /\ \E n \in k .. Len(chosen') : CommitPoint(n, t)'
  <2>1. /\ Len(chosen') = IF p <= Len(chosen) THEN Len(chosen) ELSE p
        /\ DOMAIN chosen' = 1 .. Len(chosen') /\ Len(chosen') \in Nat
        /\ \A q \in 1 .. Len(chosen') : q > Len(chosen) =>
              chosen'[q].entry = log[i][q] /\ chosen'[q].at = T
        /\ \A q \in 1 .. Len(chosen) :
              /\ chosen'[q].entry = chosen[q].entry
              /\ chosen'[q].at = IF q <= p /\ T < chosen[q].at THEN T ELSE chosen[q].at
    BY <1>1, <1>5, ChooseFacts
  <2>2. /\ p \in DOMAIN log[i] /\ log[i] = leaderLog[T] /\ log[i] \in LogType
        /\ \A q \in DOMAIN chosen : q <= p => chosen[q].entry = log[i][q]
        /\ p \in DOMAIN chosen => chosen[p].at >= T
    BY <1>5, CommitByAgrees, SafeFacts
  <2>3. /\ T \in Term /\ T \in Nat /\ p \in Nat /\ Len(chosen) \in Nat
        /\ DOMAIN chosen = 1 .. Len(chosen) /\ \A q \in 1 .. Len(chosen) : chosen[q].at \in Nat
    BY <1>1, <1>5, TypeFacts, ChosenFacts, WordAssumption
  <2>4. log[i][p].term = T
    BY <1>5 DEF CommitBy, Holds
  <2>5. ASSUME NEW q \in 1 .. Len(chosen'), q <= p
        PROVE  chosen'[q].entry = log[i][q]
    BY <2>1, <2>2, <2>3, <2>5
  <2>6. chosen'[p].at = T /\ p \in 1 .. Len(chosen')
    <3>1. CASE p > Len(chosen)
      BY <2>1, <2>3, <3>1
    <3>2. CASE p <= Len(chosen)
      <4>1. p \in 1 .. Len(chosen) /\ p \in 1 .. Len(chosen') /\ p <= p
        BY <1>5, <2>1, <2>3, <3>2
      <4>2. chosen[p].at >= T /\ chosen[p].at \in Nat
        BY <2>2, <2>3, <4>1
      <4>3. QED
        BY <2>1, <2>3, <4>1, <4>2
    <3>3. QED
      BY <2>3, <3>1, <3>2
  <2>7. CommitPoint(p, T)'
    <3>1. chosen'[p].entry = log[i][p]
      BY <2>3, <2>5, <2>6
    <3>2. chosen'[p].entry.term = T /\ p \in DOMAIN chosen'
      BY <2>1, <2>4, <2>6, <3>1
    <3>3. QED
      BY <2>6, <3>2 DEF CommitPoint
  <2>8. CASE k > Len(chosen) \/ (k <= p /\ T < chosen[k].at)
    <3>1. k <= p /\ t = T /\ k \in 1 .. Len(chosen')
      BY <2>1, <2>3, <2>8
    <3>2. chosen'[k].entry = log[i][k] /\ k \in DOMAIN log[i]
      BY <2>2, <2>3, <2>5, <3>1, LogFacts
    <3>3. k \in DOMAIN leaderLog'[t] /\ leaderLog'[t][k] = log[i][k]
      BY <1>2, <2>2, <2>3, <3>1, <3>2
    <3>4. p \in k .. Len(chosen')
      BY <2>1, <2>3, <2>6, <3>1
    <3>5. QED
      BY <2>7, <3>1, <3>2, <3>3, <3>4
  <2>9. CASE k <= Len(chosen) /\ ~ (k <= p /\ T < chosen[k].at)
    <3>1. k \in 1 .. Len(chosen) /\ chosen'[k].entry = chosen[k].entry /\ chosen[k].at = t
      BY <2>1, <2>3, <2>9
    <3>2. PICK n \in k .. Len(chosen) : CommitPoint(n, t)
      BY <1>3, <2>3, <3>1
    <3>3. n \in 1 .. Len(chosen) /\ k <= n /\ chosen[n].at = t /\ chosen[n].entry.term = t
      BY <2>3, <3>1, <3>2 DEF CommitPoint
    <3>4. ~ (n <= p /\ T < chosen[n].at)
      BY <2>3, <2>9, <3>1, <3>3
    <3>5. chosen'[n].at = t /\ chosen'[n].entry.term = t /\ n \in DOMAIN chosen'
          /\ n \in k .. Len(chosen')
      BY <2>1, <2>3, <3>1, <3>3, <3>4
    <3>6. CommitPoint(n, t)'
      BY <3>5 DEF CommitPoint
    <3>7. QED
      BY <1>3, <2>3, <3>1, <3>5, <3>6
  <2>10. QED
    BY <2>1, <2>3, <2>8, <2>9
<1>6. QED
  BY <1>4, <1>5 DEF ChosenStep

-----------------------------------------------------------------------------
(* Commit indexes *)

(* Where a new commit_index or last_applied y of node i comes from. *)
CommitMove(i, y) ==
    \/ y \in {-1, commitIndex[i], lastApplied[i]}
    \/ \E m \in AppendRequests : /\ m.term = currentTerm'[i] /\ y <= m.leader_commit
                                 /\ Agree(log'[i], leaderLog[m.term], y + 1)
    \/ CommitBy(i, y + 1) /\ log'[i] = log[i] /\ currentTerm'[i] = currentTerm[i]
IndexStep ==
    \A i \in Server : CommitMove(i, commitIndex'[i]) /\ CommitMove(i, lastApplied'[i])

LEMMA DecidedStep ==
    ASSUME TypeOK, TypeOK', ChosenStep, NEW l, NEW f, NEW n \in Nat, NEW t \in Nat, NEW u \in Nat,
           Decided(l, n, t), Agree(l, f, n), t <= u
    PROVE  Decided(f, n, u)'
<1>1. /\ n <= Len(l) /\ n <= Len(chosen)
      /\ \A k \in 1 .. n : chosen[k].at <= t /\ chosen[k].entry = l[k]
  BY DEF Decided
<1>2. n <= Len(f) /\ \A k \in 1 .. n : l[k] = f[k]
  BY DEF Agree
<1>3. /\ Len(chosen) \in Nat /\ Len(chosen') \in Nat
      /\ \A k \in 1 .. Len(chosen) : chosen[k].at \in Nat
      /\ \A k \in 1 .. Len(chosen') : chosen'[k].at \in Nat
  <2>1. (Len(chosen) \in Nat /\ \A k \in 1 .. Len(chosen) : chosen[k].at \in Nat)
    BY ChosenFacts
  <2>2. TypeOK' => Len(chosen') \in Nat /\ \A k \in 1 .. Len(chosen') : chosen'[k].at \in Nat
    <3> DEFINE E == [entry : Entry, at : Term]
    <3>1. chosen' \in Seq(E)
      BY DEF TypeOK
    <3> HIDE DEF E
    <3>2. Len(chosen') \in Nat /\ \A k \in 1 .. Len(chosen') : chosen'[k] \in E
      BY <3>1
    <3>3. \A x \in E : x.at \in Nat
      BY DEF E, Term
    <3>4. QED
      BY <3>2, <3>3
  <2>3. QED
    BY <2>1, <2>2
<1>4. /\ Len(chosen) <= Len(chosen')
      /\ \A k \in 1 .. Len(chosen) :
            chosen'[k].entry = chosen[k].entry /\ chosen'[k].at <= chosen[k].at
  BY ChosenGrowth
<1>5. n <= Len(chosen')
  BY <1>1, <1>3, <1>4
<1>6. ASSUME NEW k \in 1 .. n PROVE chosen'[k].at <= u /\ chosen'[k].entry = f[k]
  <2>1. k \in 1 .. Len(chosen) /\ k \in 1 .. Len(chosen')
    BY <1>1, <1>3, <1>5
  <2>2. chosen'[k].at <= chosen[k].at /\ chosen[k].at <= t
        /\ chosen'[k].at \in Nat /\ chosen[k].at \in Nat
    BY <1>1, <1>3, <1>4, <2>1
  <2>3. chosen'[k].at <= u
    BY <2>2
  <2>4. QED
    BY <1>1, <1>2, <1>4, <2>1, <2>3
<1>7. QED
  BY <1>2, <1>5, <1>6 DEF Decided


(* What a node knows to be committed is not taken from its log. *)
LEMMA LogKept ==
    ASSUME SafeInv, TypeOK', Frame, NEW i \in Server, NEW n \in Nat,
           Decided(log[i], n, currentTerm[i])
    PROVE  Agree(log[i], log'[i], n)
<1>1. /\ n <= Len(log[i]) /\ n <= Len(chosen)
      /\ \A k \in 1 .. n : chosen[k].at <= currentTerm[i] /\ chosen[k].entry = log[i][k]
  BY DEF Decided
<1>2. CASE log'[i] = log[i]
  BY <1>1, <1>2 DEF Agree
<1>3. CASE log'[i] # log[i]
  <2> SUFFICES ASSUME NEW u, u = currentTerm'[i] PROVE Agree(log[i], log'[i], n)
    OBVIOUS
  <2>1. /\ Won(u)
        /\ \A q \in Nat : Agree(log[i], leaderLog[u], q) => Agree(log'[i], leaderLog'[u], q)
    BY <1>3 DEF Frame, LogStep
  <2>2. u \in Term /\ u \in Nat /\ currentTerm[i] \in Nat /\ currentTerm[i] <= u
    BY SafeFacts, TypeFactsNext DEF Frame, Growth
  <2>3. /\ Len(chosen) \in Nat /\ DOMAIN chosen = 1 .. Len(chosen)
        /\ \A k \in 1 .. Len(chosen) : chosen[k].at \in Nat
    BY SafeFacts, ChosenFacts
  <2>4. ASSUME NEW k \in 1 .. n
        PROVE  k \in DOMAIN leaderLog[u] /\ leaderLog[u][k] = log[i][k]
    <3>1. k \in DOMAIN chosen /\ chosen[k].at <= u
      BY <1>1, <2>2, <2>3
    <3>2. k \in DOMAIN leaderLog[u] /\ leaderLog[u][k] = chosen[k].entry
      BY <2>1, <2>2, <3>1, SafeFacts, WinnerComplete
    <3>3. QED
      BY <1>1, <3>2
  <2>5. Len(leaderLog[u]) \in Nat /\ DOMAIN leaderLog[u] = 1 .. Len(leaderLog[u])
    BY <2>2, SafeFacts, LogFacts
  <2>6. n <= Len(leaderLog[u])
    <3>1. CASE n = 0
      BY <2>5, <3>1
    <3>2. CASE n # 0
      <4>1. n \in 1 .. n
        BY <3>2
      <4>2. QED
        BY <2>4, <2>5, <4>1
    <3>3. QED
      BY <3>1, <3>2
  <2>7. Agree(log[i], leaderLog[u], n)
    BY <1>1, <2>4, <2>6 DEF Agree
  <2>8. Agree(leaderLog[u], leaderLog'[u], n)
    <3>1. Agree(leaderLog[u], leaderLog'[u], Len(leaderLog[u]))
      BY <2>2 DEF Frame, Growth
    <3>2. QED
      BY <2>5, <2>6, <3>1, AgreeShorter
  <2>9. Agree(log'[i], leaderLog'[u], n)
    BY <2>1, <2>7
  <2>10. QED
    BY <2>7, <2>8, <2>9, AgreeTrans, AgreeSym
<1>4. QED
  BY <1>2, <1>3

LEMMA DecidedShorter ==
    ASSUME TypeOK, NEW l, NEW t, NEW n \in Nat, NEW k \in Nat, k <= n, Len(l) \in Nat,
           Decided(l, n, t)
    PROVE  Decided(l, k, t)
BY ChosenFacts DEF Decided

LEMMA MoveDecided ==
    ASSUME SafeInv, TypeOK', Frame, ChosenStep, NEW i \in Server,
           NEW y \in Index, CommitMove(i, y), NEW f, f = log'[i], NEW u, u = currentTerm'[i]
    PROVE  Decided(f, y + 1, u)'
<1>1. /\ TypeOK /\ y + 1 \in Nat /\ u \in Term /\ u \in Nat /\ currentTerm[i] \in Nat
      /\ currentTerm[i] <= u /\ f \in LogType /\ Len(f) \in Nat /\ Len(chosen') \in Nat
  BY SafeFacts, TypeFactsNext, LogFacts, ChosenGrowth DEF Frame, Growth, Index
<1>2. ASSUME y \in {commitIndex[i], lastApplied[i]} PROVE Decided(f, y + 1, u)'
  <2>1. Decided(log[i], y + 1, currentTerm[i])
    BY <1>2 DEF SafeInv, CommitInv, CommitsDecided
  <2>2. Agree(log[i], f, y + 1)
    BY <1>1, <2>1, LogKept
  <2>3. QED
    BY <1>1, <2>1, <2>2, DecidedStep
<1>3. ASSUME y = -1 PROVE Decided(f, y + 1, u)'
  BY <1>1, <1>3 DEF Decided
<1>4. ASSUME NEW m \in AppendRequests, m.term = u, y <= m.leader_commit,
             Agree(log'[i], leaderLog[m.term], y + 1)
      PROVE  Decided(f, y + 1, u)'
  <2>1. m.leader_commit \in Index /\ m.leader_commit + 1 \in Nat /\ y + 1 <= m.leader_commit + 1
    BY <1>1, <1>4, TypeFacts DEF append_entries_req_t, Index
  <2>2. Decided(leaderLog[u], m.leader_commit + 1, u)
    BY <1>4 DEF SafeInv, CommitInv, CommitsDecided
  <2>3. Len(leaderLog[u]) \in Nat
    BY <1>1, SafeFacts, LogFacts
  <2>4. Decided(leaderLog[u], y + 1, u)
    BY <1>1, <2>1, <2>2, <2>3, DecidedShorter
  <2>5. Agree(leaderLog[u], f, y + 1)
    BY <1>1, <1>4, AgreeSym
  <2>6. QED
    BY <1>1, <2>4, <2>5, DecidedStep
<1>5. ASSUME CommitBy(i, y + 1), log'[i] = log[i], currentTerm'[i] = currentTerm[i]
      PROVE  Decided(f, y + 1, u)'
  <2> SUFFICES ASSUME NEW p, p = y + 1 PROVE Decided(f, p, u)'
    OBVIOUS
  <2>1. /\ Len(chosen') = IF p <= Len(chosen) THEN Len(chosen) ELSE p
        /\ \A k \in 1 .. Len(chosen') : k > Len(chosen) =>
              chosen'[k].entry = f[k] /\ chosen'[k].at = u
        /\ \A k \in 1 .. Len(chosen) :
              /\ chosen'[k].entry = chosen[k].entry
              /\ chosen'[k].at = IF k <= p /\ u < chosen[k].at THEN u ELSE chosen[k].at
    BY <1>1, <1>5, ChooseFacts
  <2>2. p \in DOMAIN f /\ \A k \in DOMAIN chosen : k <= p => chosen[k].entry = f[k]
    BY <1>5, CommitByAgrees
  <2>3. /\ Len(chosen) \in Nat /\ DOMAIN chosen = 1 .. Len(chosen) /\ p \in Nat
        /\ \A k \in 1 .. Len(chosen) : chosen[k].at \in Nat
    BY <1>1, ChosenFacts
  <2>4. p <= Len(f) /\ p <= Len(chosen')
    BY <1>1, <2>1, <2>2, <2>3, LogFacts
  <2>5. ASSUME NEW k \in 1 .. p PROVE chosen'[k].at <= u /\ chosen'[k].entry = f[k]
    <3>1. CASE k > Len(chosen)
      BY <1>1, <2>1, <2>3, <2>4, <3>1
    <3>2. CASE k <= Len(chosen)
      <4>1. k \in 1 .. Len(chosen) /\ k <= p
        BY <2>3, <3>2
      <4>2. QED
        BY <1>1, <2>1, <2>2, <2>3, <4>1
    <3>3. QED
      BY <2>3, <3>1, <3>2
  <2>6. QED
    BY <2>4, <2>5 DEF Decided
<1>6. QED
  BY <1>2, <1>3, <1>4, <1>5 DEF CommitMove

LEMMA CommitsDecidedStep ==
    ASSUME SafeInv, TypeOK', LogInv', Frame, ChosenStep, IndexStep
    PROVE  CommitsDecided'
<1>1. ASSUME NEW i \in Server
      PROVE  /\ Decided(log[i], commitIndex[i] + 1, currentTerm[i])'
             /\ Decided(log[i], lastApplied[i] + 1, currentTerm[i])'
  <2> SUFFICES ASSUME NEW f, f = log'[i], NEW u, u = currentTerm'[i],
                      NEW y, y = commitIndex'[i], NEW z, z = lastApplied'[i]
               PROVE  Decided(f, y + 1, u)' /\ Decided(f, z + 1, u)'
    BY DEF Decided
  <2>1. y \in Index /\ z \in Index
    BY DEF TypeOK
  <2>2. CommitMove(i, y) /\ CommitMove(i, z)
    BY DEF IndexStep
  <2>3. QED
    BY <2>1, <2>2, MoveDecided
<1>2. ASSUME NEW m \in AppendRequests'
      PROVE  Decided(leaderLog[m.term], m.leader_commit + 1, m.term)'
  <2> SUFFICES ASSUME NEW f, f = leaderLog'[m.term]
               PROVE  Decided(f, m.leader_commit + 1, m.term)'
    BY DEF Decided
  <2>1. /\ m \in append_entries_req_t /\ m \in BagToSet(net') /\ m.term \in Term /\ m.term \in Nat
        /\ m.src \in Server /\ m.leader_commit \in Index /\ m.leader_commit + 1 \in Nat
        /\ m.code = "RPC_CALL_APPEND_ENT" /\ m.term <= m.term
    BY TypeFactsNext DEF append_entries_req_t, AppendRequests, Index
  <2>2. CASE m \in AppendRequests
    <3>1. Decided(leaderLog[m.term], m.leader_commit + 1, m.term)
      BY <2>2 DEF SafeInv, CommitInv, CommitsDecided
    <3>2. Agree(leaderLog[m.term], f, m.leader_commit + 1)
      <4>1. Agree(leaderLog[m.term], f, Len(leaderLog[m.term]))
        BY <2>1 DEF Frame, Growth
      <4>2. Len(leaderLog[m.term]) \in Nat
        BY <2>1, SafeFacts, LogFacts
      <4>3. m.leader_commit + 1 <= Len(leaderLog[m.term])
        BY <3>1 DEF Decided
      <4>4. QED
        BY <2>1, <4>1, <4>2, <4>3, AgreeShorter
    <3>3. QED
      BY <2>1, <3>1, <3>2, SafeFacts, DecidedStep
  <2>3. CASE m \notin AppendRequests
    <3>1. PacketOK(m)
      BY <2>1, <2>3 DEF Frame, NetOK, AppendRequests
    <3>2. role'[m.src] = "LEADER" /\ m.term = currentTerm[m.src]
          /\ m.leader_commit = commitIndex[m.src]
      BY <2>1, <3>1 DEF PacketOK
    <3>3. currentTerm'[m.src] = currentTerm[m.src]
      BY <2>1, <3>2 DEF Frame, LeadStep
    <3>4. log'[m.src] = f
      BY <2>1, <3>2, <3>3 DEF LogInv, LeadersOwnLog
    <3>5. Decided(log[m.src], m.leader_commit + 1, m.term)
      BY <2>1, <3>2 DEF SafeInv, CommitInv, CommitsDecided
    <3>6. Agree(log[m.src], f, m.leader_commit + 1)
      BY <2>1, <3>2, <3>4, <3>5, LogKept
    <3>7. QED
      BY <2>1, <3>5, <3>6, SafeFacts, DecidedStep
  <2>4. QED
    BY <2>2, <2>3
<1>3. QED
  BY <1>1, <1>2 DEF CommitsDecided


-----------------------------------------------------------------------------
(* What each action contributes to Frame *)

Detail == NetOK /\ VotersStep /\ MatchStep /\ ChosenStep /\ IndexStep

LEMMA ShrinkOK ==
    ASSUME BagToSet(net') \subseteq BagToSet(net)
    PROVE  NetOK
BY DEF NetOK

LEMMA AddOK ==
    ASSUME NEW out, BagToSet(net') \subseteq BagToSet(net) \cup out, \A x \in out : PacketOK(x)
    PROVE  NetOK
BY DEF NetOK

LEMMA ConsumeShrinks ==
    ASSUME TypeOK, NEW m \in BagToSet(net), Consume(m, {})
    PROVE  NetOK
<1>1. BagToSet(net') \subseteq BagToSet(net) \cup {}
  BY ConsumeNet
<1>2. QED
  BY <1>1, ShrinkOK

(* Refusals say nothing that CommitInv depends on. *)
LEMMA RefusalOK ==
    ASSUME NEW i, NEW j, NEW t, NEW w
    PROVE  /\ PacketOK(send_append_entries_response(i, j, t, w, FALSE))
           /\ PacketOK(send_request_vote_response(i, j, t, FALSE))
BY DEF PacketOK, send_append_entries_response, send_request_vote_response

LEMMA ConsumeAnswers ==
    ASSUME TypeOK, NEW m \in BagToSet(net), NEW x, Consume(m, {x}), PacketOK(x)
    PROVE  NetOK
<1>1. BagToSet(net') \subseteq BagToSet(net) \cup {x}
  BY ConsumeNet
<1>2. \A z \in {x} : PacketOK(z)
  OBVIOUS
<1>3. QED
  BY <1>1, <1>2, AddOK

LEMMA SameCommits ==
    ASSUME UNCHANGED <<commitIndex, lastApplied, chosen>>
    PROVE  ChosenStep /\ IndexStep
BY DEF ChosenStep, IndexStep, CommitMove

LEMMA SameMatch ==
    ASSUME UNCHANGED matchIndex
    PROVE  MatchStep
BY DEF MatchStep

LEMMA VotersKept ==
    ASSUME NEW i, role'[i] # "CANDIDATE",
           \A j \in Server : j # i => /\ role'[j] = role[j] /\ voters'[j] = voters[j]
                                      /\ currentTerm'[j] = currentTerm[j]
    PROVE  VotersStep
BY DEF VotersStep

LEMMA SameVoters ==
    ASSUME UNCHANGED <<role, voters, currentTerm>>
    PROVE  VotersStep
BY DEF VotersStep

LEMMA StepDownVoters ==
    ASSUME TypeOK, NEW i \in Server, NEW t, NEW k, StepDown(i, t, k)
    PROVE  VotersStep
<1>1. role'[i] = "FOLLOWER"
      /\ \A j \in Server : j # i => /\ role'[j] = role[j] /\ voters'[j] = voters[j]
                                    /\ currentTerm'[j] = currentTerm[j]
  BY DEF StepDown, TypeOK
<1>2. QED
  BY <1>1, VotersKept

LEMMA RecogniseVoters ==
    ASSUME TypeOK, NEW i \in Server, NEW m, RecogniseLeader(i, m)
    PROVE  VotersStep
<1>1. CASE m.term > currentTerm[i] \/ role[i] = "CANDIDATE"
  BY <1>1, StepDownVoters DEF RecogniseLeader, become_follower
<1>2. CASE ~ (m.term > currentTerm[i] \/ role[i] = "CANDIDATE")
  BY <1>2, SameVoters DEF RecogniseLeader
<1>3. QED
  BY <1>1, <1>2

LEMMA DropDetail ==
    ASSUME TypeOK, NEW m \in BagToSet(net), DropPacket(m)
    PROVE  Detail
<1>1. Consume(m, {}) /\ UNCHANGED <<role, voters, currentTerm, matchIndex, commitIndex,
                                    lastApplied, chosen>>
  BY DEF DropPacket, durable, electionVars, leaderVars, commitVars, history
<1>2. NetOK
  BY <1>1, ConsumeShrinks
<1>3. QED
  BY <1>1, <1>2, SameVoters, SameMatch, SameCommits DEF Detail

LEMMA StepDownDetail ==
    ASSUME TypeOK, NEW i \in Server, NEW m \in BagToSet(net), StepDownOnResponse(i, m)
    PROVE  Detail
<1>1. /\ Consume(m, {}) /\ StepDown(i, m.term, m.src)
      /\ UNCHANGED <<matchIndex, commitIndex, lastApplied, chosen>>
  BY DEF StepDownOnResponse, become_follower, leaderVars, commitVars, history
<1>2. NetOK
  BY <1>1, ConsumeShrinks
<1>3. QED
  BY <1>1, <1>2, StepDownVoters, SameMatch, SameCommits DEF Detail

LEMMA RefuseAppendDetail ==
    ASSUME TypeOK, NEW i \in Server, NEW m \in BagToSet(net),
           RejectStaleAppend(i, m) \/ RejectMismatch(i, m)
    PROVE  Detail
<1> SUFFICES ASSUME NEW x, x = send_append_entries_response(i, m.src, currentTerm[i], 0, FALSE)
             PROVE  Detail
  OBVIOUS
<1>1. Consume(m, {x}) /\ UNCHANGED <<matchIndex, commitIndex, lastApplied, chosen>>
  BY DEF RejectStaleAppend, RejectMismatch, leaderVars, commitVars, history
<1>2. VotersStep
  <2>1. CASE RejectStaleAppend(i, m)
    BY <2>1, SameVoters DEF RejectStaleAppend, electionVars, durable
  <2>2. CASE RejectMismatch(i, m)
    BY <2>2, RecogniseVoters DEF RejectMismatch
  <2>3. QED
    BY <2>1, <2>2
<1>3. NetOK
  BY <1>1, RefusalOK, ConsumeAnswers
<1>4. QED
  BY <1>1, <1>2, <1>3, SameMatch, SameCommits DEF Detail

LEMMA AppendFailedDetail ==
    ASSUME TypeOK, NEW i \in Server, NEW m \in BagToSet(net), AppendFailed(i, m)
    PROVE  Detail
<1>1. Consume(m, {}) /\ UNCHANGED <<role, voters, currentTerm, matchIndex, commitIndex,
                                    lastApplied, chosen>>
  BY DEF AppendFailed, durable, electionVars, commitVars, history
<1>2. NetOK
  BY <1>1, ConsumeShrinks
<1>3. QED
  BY <1>1, <1>2, SameVoters, SameMatch, SameCommits DEF Detail


LEMMA AppendNewDetail ==
    ASSUME ElectionInv, TypeOK', LogInv, NEW i \in Server, NEW m \in AppendRequests,
           m.dst = i, AppendNew(i, m)
    PROVE  Detail
<1> DEFINE n == I32(m.prev_log_idx) + 1
           f == leaderLog[m.term]
           c == FollowerCommit(m)
<1> SUFFICES ASSUME NEW x, x = send_append_entries_response(i, m.src, currentTerm[i],
                                   LastNew(m), TRUE)
             PROVE  Detail
  OBVIOUS
<1>1. TypeOK
  BY DEF ElectionInv
<1>2. /\ PrevMatches(log[i], m)
      /\ RecogniseLeader(i, m)
      /\ log' = [log EXCEPT ![i] = Merge(log[i], n, m.entries)]
      /\ Consume(m, {x})
      /\ UNCHANGED <<matchIndex, chosen>>
  BY DEF AppendNew, leaderVars, history
<1>3. /\ m \in append_entries_req_t /\ m \in BagToSet(net) /\ m \in Packet
      /\ m.term \in Term /\ m.term \in Nat /\ m.src \in Server
      /\ currentTerm[i] \in Nat /\ currentTerm[m.src] \in Nat
  BY <1>1, TypeFacts, PacketKind DEF TypeOK
<1>4. /\ \A j \in Server : j # i => currentTerm'[j] = currentTerm[j]
      /\ currentTerm'[i] = m.term /\ currentTerm[i] <= m.term
  BY <1>1, <1>2, <1>3, RecogniseRole
<1>5. m.src # i /\ LeaderOf(m.term, m.src) /\ SliceOf(m, f)
  BY DEF LogInv, RequestsAreSlices
<1>6. PacketOK(x)
  <2>1. x.code = "RPC_RESP_APPEND_ENT" /\ x.src = i /\ x.dst = m.src /\ x.term = currentTerm[i]
    BY DEF send_append_entries_response
  <2>2. m.term <= currentTerm[m.src] /\ currentTerm'[m.src] = currentTerm[m.src]
    BY <1>3, <1>4, <1>5 DEF LeaderOf, ElectionInv, ElectedByMajority
  <2>3. currentTerm[i] < currentTerm'[m.src] \/ currentTerm[i] = currentTerm'[i]
    BY <1>3, <1>4, <2>2
  <2>4. QED
    BY <2>1, <2>3 DEF PacketOK
<1>7. NetOK
  BY <1>1, <1>2, <1>3, <1>6, ConsumeAnswers
<1>8. \A j \in Server : j # i => commitIndex'[j] = commitIndex[j] /\ lastApplied'[j] = lastApplied[j]
  BY <1>1 DEF AppendNew, apply_to_state_machine, commitVars, TypeOK
<1>9. CASE ~ (m.leader_commit > commitIndex[i])
  <2>1. UNCHANGED <<commitIndex, lastApplied>>
    BY <1>9 DEF AppendNew, commitVars
  <2>2. QED
    BY <1>1, <1>2, <1>7, <2>1, RecogniseVoters, SameMatch, SameCommits DEF Detail
<1>10. CASE m.leader_commit > commitIndex[i]
  <2>1. /\ commitIndex' = [commitIndex EXCEPT ![i] = c]
        /\ lastApplied' = [lastApplied EXCEPT ![i] = IF lastApplied[i] < c THEN c ELSE lastApplied[i]]
    BY <1>10 DEF AppendNew, apply_to_state_machine
  <2>2. commitIndex'[i] = c /\ lastApplied'[i] \in {c, lastApplied[i]}
    BY <1>1, <2>1 DEF TypeOK
  <2>3. /\ I32(m.prev_log_idx) \in Int /\ I32(m.prev_log_idx) + 1 \in Nat /\ Len(m.entries) \in Nat
        /\ m.leader_commit \in Int /\ I32(LastNew(m)) = I32(m.prev_log_idx) + Len(m.entries)
        /\ c \in Index
    BY <1>3, IndexOfWire, LastNewType, WordAssumption DEF append_entries_req_t, Index
  <2>4. c \in Int /\ c + 1 \in Nat
    BY <2>3 DEF Index
  <2>5. c <= m.leader_commit /\ c <= I32(m.prev_log_idx) + Len(m.entries)
    <3>1. I32(m.prev_log_idx) + Len(m.entries) \in Int
      BY <2>3
    <3>2. QED
      BY <2>3, <3>1 DEF FollowerCommit
  <2> HIDE DEF c
  <2>6. n \in Nat /\ n + Len(m.entries) \in Nat /\ c + 1 <= n + Len(m.entries)
    <3>1. \A a, b, d \in Int : d <= a + b => d + 1 <= (a + 1) + b
      OBVIOUS
    <3>2. QED
      BY <2>3, <2>4, <2>5, <3>1
  <2>7. log[i] \in LogType /\ f \in LogType /\ Grounded(log[i]) /\ Grounded(f)
    BY <1>1, <1>3, TypeFacts DEF LogInv, LogsGrounded
  <2>8. Agree(Merge(log[i], n, m.entries), f, n + Len(m.entries))
    <3> HIDE DEF f
    <3>1. QED
      BY <1>1, <1>2, <1>3, <1>5, <2>7, MergeOutcome
  <2>9. Agree(log'[i], f, n + Len(m.entries))
    BY <1>1, <1>2, <2>8 DEF TypeOK
  <2> HIDE DEF n
  <2>10. Agree(log'[i], f, c + 1)
    BY <2>4, <2>6, <2>9, AgreeShorter
  <2>11. CommitMove(i, c) /\ CommitMove(i, lastApplied[i])
    BY <1>4, <2>5, <2>10 DEF CommitMove
  <2>12. IndexStep
    BY <1>8, <2>2, <2>11 DEF IndexStep, CommitMove
  <2>13. QED
    BY <1>1, <1>2, <1>7, <2>12, RecogniseVoters, SameMatch DEF Detail, ChosenStep
<1>11. QED
  BY <1>9, <1>10

(* The commit loop of a leader counts acknowledgements of its own entry. *)
LEMMA CountedCommit ==
    ASSUME TypeOK, LogInv, NEW i \in Server, NEW m \in Acks, m.dst = i, role[i] = "LEADER",
           m.term = currentTerm[i], NEW match,
           match = [matchIndex[i] EXCEPT ![m.src] = I32(m.new_match_index)],
           NEW c, c = NewCommit(i, match), c # commitIndex[i], chosen' = Choose(i, c)
    PROVE  CommitBy(i, c + 1)
<1>1. m \in append_entries_res_t /\ m.src \in Server /\ I32(m.new_match_index) \in Index
  BY TypeFacts, IndexOfWire DEF append_entries_res_t
<1>2. match \in [Server -> Index]
  BY <1>1 DEF TypeOK
<1>3. c \in Index /\ c \in Replicated(i, match) /\ c < Len(log[i])
  BY <1>2, NewCommitType
<1>4. /\ commitIndex[i] \in Index /\ log[i] \in LogType /\ Len(log[i]) \in Nat
      /\ Len(log[i]) <= MaxLogLen /\ DOMAIN log[i] = 1 .. Len(log[i])
  BY LogFacts DEF TypeOK
<1>5. /\ c \in Nat /\ c + 1 \in 1 .. MaxLogLen /\ c + 1 \in DOMAIN log[i] /\ (c + 1) - 1 = c
      /\ raft_get_log_term(log[i], c) = currentTerm[i]
      /\ Majority(1 + Cardinality({j \in Server \ {i} : match[j] >= c}))
  <2>1. /\ c \in commitIndex[i] + 1 .. Len(log[i]) - 1
        /\ raft_get_log_term(log[i], c) = currentTerm[i]
        /\ Majority(1 + Cardinality({j \in Server \ {i} : match[j] >= c}))
    BY <1>3, Zenon DEF Replicated
  <2>2. c \in Nat /\ c + 1 \in 1 .. MaxLogLen /\ c + 1 \in DOMAIN log[i] /\ (c + 1) - 1 = c
    BY <1>3, <1>4, <2>1, WordAssumption DEF Index
  <2>3. QED
    BY <2>1, <2>2, Zenon
<1>6. Holds(log[i], c + 1, currentTerm[i])
  BY <1>4, <1>5 DEF raft_get_log_term, Holds
<1>7. Majority(Cardinality({j \in Server : j = i \/ Acked(i, j, c + 1)}))
  <2> DEFINE S == {j \in Server \ {i} : match[j] >= c}
             P == S \cup {i}
             Q == {j \in Server : j = i \/ Acked(i, j, c + 1)}
  <2>1. IsFiniteSet(S)
    BY FS_Subset, ServerAssumption
  <2>2. Cardinality(P) = Cardinality(S) + 1 /\ Cardinality(S) \in Nat
    BY <2>1, FS_AddElement, FS_CardinalityType
  <2>3. Majority(Cardinality(P))
    <3>1. Majority(1 + Cardinality(S))
      BY <1>5
    <3> HIDE DEF S, P
    <3>2. 1 + Cardinality(S) = Cardinality(P)
      BY <2>2
    <3>3. QED
      BY <3>1, <3>2
  <2>4. ASSUME NEW j \in S PROVE Acked(i, j, c + 1)
    <3>1. j \in Server /\ match[j] >= c /\ match[j] \in Index
      BY <1>2
    <3>2. CASE j = m.src
      <4>1. I32(m.new_match_index) + 1 >= c + 1
        BY <1>1, <1>2, <1>5, <3>1, <3>2 DEF TypeOK, Index
      <4>2. QED
        BY <3>2, <4>1 DEF Acked
    <3>3. CASE j # m.src
      <4>1. match[j] = matchIndex[i][j]
        BY <3>1, <3>3 DEF TypeOK
      <4>2. matchIndex[i][j] + 1 >= c + 1
        BY <1>5, <3>1, <4>1 DEF Index
      <4>3. QED
        BY <4>2 DEF Acked
    <3>4. QED
      BY <3>2, <3>3
  <2>5. P \in SUBSET Server /\ Q \in SUBSET Server /\ P \subseteq Q
    BY <2>4
  <2> HIDE DEF P, Q
  <2>6. Majority(Cardinality(Q))
    BY <2>3, <2>5, MajorityGrows
  <2>7. QED
    BY <2>6 DEF Q
<1>8. QED
  BY <1>5, <1>6, <1>7 DEF CommitBy

LEMMA AppendSucceededDetail ==
    ASSUME TypeOK, LogInv, NEW i \in Server, NEW m \in Acks, m.dst = i,
           role[i] = "LEADER", m.term = currentTerm[i], AppendSucceeded(i, m)
    PROVE  Detail
<1> SUFFICES ASSUME NEW match, match = [matchIndex[i] EXCEPT ![m.src] = I32(m.new_match_index)],
                    NEW c, c = NewCommit(i, match)
             PROVE  Detail
  OBVIOUS
<1>1. m \in append_entries_res_t /\ m \in BagToSet(net) /\ m.src \in Server
  BY TypeFacts DEF append_entries_res_t
<1>2. /\ matchIndex' = [matchIndex EXCEPT ![i] = match]
      /\ commitIndex' = [commitIndex EXCEPT ![i] = c]
      /\ chosen' = Choose(i, c)
      /\ lastApplied' = [lastApplied EXCEPT ![i] = IF lastApplied[i] < c THEN c ELSE lastApplied[i]]
      /\ Consume(m, {})
      /\ UNCHANGED <<log, currentTerm, role, voters>>
  BY DEF AppendSucceeded, apply_to_state_machine, durable, electionVars
<1>3. NetOK
  BY <1>1, <1>2, ConsumeShrinks
<1>4. MatchStep
  <2>1. /\ \A k, j \in Server : ~ (k = i /\ j = m.src) => matchIndex'[k][j] = matchIndex[k][j]
        /\ matchIndex'[i][m.src] = I32(m.new_match_index)
    BY <1>1, <1>2 DEF TypeOK
  <2>2. QED
    BY <2>1 DEF MatchStep
<1>5. /\ commitIndex'[i] = c /\ lastApplied'[i] \in {c, lastApplied[i]}
      /\ \A j \in Server : j # i => /\ commitIndex'[j] = commitIndex[j]
                                    /\ lastApplied'[j] = lastApplied[j]
  BY <1>2 DEF TypeOK
<1>6. CASE c = commitIndex[i]
  <2>1. chosen' = chosen
    BY <1>2, <1>6 DEF Choose
  <2>2. IndexStep
    BY <1>5, <1>6 DEF IndexStep, CommitMove
  <2>3. QED
    BY <1>2, <1>3, <1>4, <2>1, <2>2, SameVoters DEF Detail, ChosenStep
<1>7. CASE c # commitIndex[i]
  <2>1. CommitBy(i, c + 1)
    BY <1>2, <1>7, CountedCommit
  <2>2. c + 1 \in 1 .. MaxLogLen
    BY <2>1 DEF CommitBy
  <2>3. ChosenStep
    BY <2>1, <2>2 DEF ChosenStep
  <2>4. CommitMove(i, c) /\ CommitMove(i, lastApplied[i])
    BY <1>2, <2>1 DEF CommitMove
  <2>5. IndexStep
    BY <1>5, <2>4 DEF IndexStep, CommitMove
  <2>6. QED
    BY <1>2, <1>3, <1>4, <2>3, <2>5, SameVoters DEF Detail
<1>8. QED
  BY <1>6, <1>7


LEMMA AppendRequestDetail ==
    ASSUME ElectionInv, TypeOK', LogInv, NEW i \in Server, NEW m \in BagToSet(net),
           m.dst = i, handle_append_entries_request(i, m)
    PROVE  Detail
<1>1. TypeOK /\ m \in AppendRequests
  BY DEF ElectionInv, handle_append_entries_request, AppendRequests
<1>2. QED
  BY <1>1, RefuseAppendDetail, AppendNewDetail DEF handle_append_entries_request

LEMMA AppendResponseDetail ==
    ASSUME TypeOK, LogInv, NEW i \in Server, NEW m \in BagToSet(net),
           m.dst = i, handle_append_entries_response(i, m)
    PROVE  Detail
<1>1. m.code = "RPC_RESP_APPEND_ENT"
  BY DEF handle_append_entries_response
<1>2. CASE StepDownOnResponse(i, m)
  BY <1>2, StepDownDetail
<1>3. CASE DropPacket(m)
  BY <1>3, DropDetail
<1>4. CASE m.term = currentTerm[i] /\ role[i] = "LEADER" /\ AppendSucceeded(i, m)
  <2>1. m \in Acks
    BY <1>1, <1>4 DEF AppendSucceeded, Acks
  <2>2. QED
    BY <1>4, <2>1, AppendSucceededDetail
<1>5. CASE AppendFailed(i, m)
  BY <1>5, AppendFailedDetail
<1>6. QED
  BY <1>2, <1>3, <1>4, <1>5 DEF handle_append_entries_response

LEMMA BallotDetail ==
    ASSUME TypeOK, NEW i \in Server, NEW m \in BagToSet(net), handle_request_vote_request(i, m)
    PROVE  Detail
<1>1. CASE RejectStaleBallot(i, m)
  <2> SUFFICES ASSUME NEW x, x = send_request_vote_response(i, m.src, currentTerm[i], FALSE)
               PROVE  Detail
    OBVIOUS
  <2>1. /\ Consume(m, {x})
        /\ UNCHANGED <<role, voters, currentTerm, matchIndex, commitIndex, lastApplied, chosen>>
    BY <1>1 DEF RejectStaleBallot, durable, electionVars, leaderVars, commitVars, history
  <2>2. NetOK
    BY <2>1, RefusalOK, ConsumeAnswers
  <2>3. QED
    BY <2>1, <2>2, SameVoters, SameMatch, SameCommits DEF Detail
<1>2. CASE AnswerBallot(i, m)
  <2> DEFINE newer == m.term > currentTerm[i]
             vote == IF newer THEN Nil ELSE votedFor[i]
             granted == /\ vote \in {Nil, m.src}
                        /\ log_is_up_to_date(log[i], m.last_log_idx, m.last_log_term)
  <2> SUFFICES ASSUME NEW x, x = send_request_vote_response(i, m.src, m.term, granted)
               PROVE  Detail
    OBVIOUS
  <2>1. /\ Consume(m, {x})
        /\ IF newer THEN StepDown(i, m.term, m.src) ELSE UNCHANGED <<currentTerm, electionVars>>
        /\ UNCHANGED <<matchIndex, commitIndex, lastApplied, chosen>>
    BY <1>2 DEF AnswerBallot, leaderVars, commitVars, history
  <2>2. granted => log_is_up_to_date(log[i], m.last_log_idx, m.last_log_term)
    OBVIOUS
  <2> HIDE DEF granted
  <2>3. PacketOK(x)
    <3>1. /\ x.code = "RPC_RESP_REQ_VOTE" /\ x.src = i /\ x.dst = m.src /\ x.term = m.term
          /\ x.vote_granted = granted
      BY DEF send_request_vote_response
    <3>2. m.code = "RPC_CALL_REQ_VOTE"
      BY DEF handle_request_vote_request
    <3>3. QED
      BY <2>2, <3>1, <3>2 DEF PacketOK
  <2>4. NetOK
    BY <2>1, <2>3, ConsumeAnswers
  <2>5. VotersStep
    BY <2>1, StepDownVoters, SameVoters DEF electionVars
  <2>6. QED
    BY <2>1, <2>4, <2>5, SameMatch, SameCommits DEF Detail
<1>3. QED
  BY <1>1, <1>2 DEF handle_request_vote_request

(* An append carries its leader's term and commit index. *)
LEMMA HeaderOK ==
    ASSUME NEW i, NEW j, NEW l, NEW next, NEW es, role'[i] = "LEADER"
    PROVE  PacketOK(AppendEntriesTo(i, j, l, next, es))
BY DEF PacketOK, AppendEntriesTo

LEMMA CountVoteDetail ==
    ASSUME TypeOK, NEW i \in Server, NEW m \in BagToSet(net), m.dst = i,
           m.code = "RPC_RESP_REQ_VOTE", role[i] = "CANDIDATE", CountVote(i, m)
    PROVE  Detail
<1>1. /\ m.term = currentTerm[i] /\ m.vote_granted
      /\ voters' = [voters EXCEPT ![i] = voters[i] \cup {m.src}]
      /\ UNCHANGED <<currentTerm, commitIndex, lastApplied, chosen>>
  BY DEF CountVote, durable, commitVars
<1>2. m \in request_vote_res_t /\ m.src \in Server
  BY PacketKind DEF TypeOK
<1>3. voters'[i] = voters[i] \cup {m.src} /\ \A j \in Server : j # i => voters'[j] = voters[j]
  BY <1>1 DEF TypeOK
<1>4. InFlight(Grant(m.src, i, currentTerm[i]))
  <2>1. m = Grant(m.src, i, currentTerm[i])
    BY <1>1, <1>2, GrantOf
  <2>2. InFlight(m)
    BY DEF InFlight, BagIn
  <2>3. QED
    BY <2>1, <2>2
<1>5. CASE Majority(votesReceived[i] + 1)
  <2> SUFFICES ASSUME NEW next, next = [j \in Server |-> U32(Len(log[i]))] PROVE Detail
    OBVIOUS
  <2>1. /\ role' = [role EXCEPT ![i] = "LEADER"]
        /\ matchIndex' = [matchIndex EXCEPT ![i] = [j \in Server |-> -1]]
        /\ Consume(m, send_heartbeats(i, next))
    BY <1>5 DEF CountVote, become_leader
  <2>2. /\ role'[i] = "LEADER"
        /\ \A j \in Server : j # i => role'[j] = role[j] /\ matchIndex'[j] = matchIndex[j]
    BY <2>1 DEF TypeOK
  <2>3. \A x \in send_heartbeats(i, next) : PacketOK(x)
    BY <2>2, HeaderOK DEF send_heartbeats
  <2>4. NetOK
    <3>1. BagToSet(net') \subseteq BagToSet(net) \cup send_heartbeats(i, next)
      BY <2>1, ConsumeNet
    <3>2. QED
      BY <2>3, <3>1, AddOK
  <2>5. MatchStep
    BY <2>2 DEF MatchStep
  <2>6. VotersStep
    BY <1>1, <1>3, <2>2, VotersKept
  <2>7. QED
    BY <1>1, <2>4, <2>5, <2>6, SameCommits DEF Detail
<1>6. CASE ~ Majority(votesReceived[i] + 1)
  <2>1. Consume(m, {}) /\ UNCHANGED <<role, matchIndex>>
    BY <1>6 DEF CountVote, leaderVars
  <2>2. NetOK
    BY <2>1, ConsumeShrinks
  <2>3. VotersStep
    BY <1>1, <1>3, <1>4, <2>1 DEF VotersStep
  <2>4. QED
    BY <1>1, <2>1, <2>2, <2>3, SameMatch, SameCommits DEF Detail
<1>7. QED
  BY <1>5, <1>6

LEMMA VoteDetail ==
    ASSUME TypeOK, NEW i \in Server, NEW m \in BagToSet(net), m.dst = i,
           handle_request_vote_response(i, m)
    PROVE  Detail
BY DropDetail, StepDownDetail, CountVoteDetail DEF handle_request_vote_response

LEMMA ElectionDetail ==
    ASSUME TypeOK, NEW i \in Server, become_candidate(i) \/ RetryElection(i)
    PROVE  Detail
<1> SUFFICES ASSUME NEW t, t = currentTerm[i] + 1 PROVE Detail
  OBVIOUS
<1>1. /\ currentTerm' = [currentTerm EXCEPT ![i] = t]
      /\ voters' = [voters EXCEPT ![i] = {i}]
      /\ Send(broadcast_request_vote(i, t))
      /\ UNCHANGED <<matchIndex, commitIndex, lastApplied, chosen>>
  BY DEF become_candidate, RetryElection, start_election, leaderVars, commitVars, history
<1>2. \A j \in Server : j # i => role'[j] = role[j]
  BY DEF become_candidate, RetryElection, TypeOK
<1>3. /\ currentTerm'[i] = currentTerm[i] + 1 /\ voters'[i] = {i}
      /\ \A j \in Server : j # i => currentTerm'[j] = currentTerm[j] /\ voters'[j] = voters[j]
  BY <1>1 DEF TypeOK
<1>4. VotersStep
  BY <1>2, <1>3 DEF VotersStep
<1>5. ASSUME NEW x \in broadcast_request_vote(i, t) PROVE PacketOK(x)
  <2>1. /\ x.code = "RPC_CALL_REQ_VOTE" /\ x.src = i
        /\ x.last_log_idx = U32(Len(log[i]) - 1)
        /\ x.last_log_term = raft_get_log_term(log[i], Len(log[i]) - 1)
    BY <1>5 DEF broadcast_request_vote
  <2>2. QED
    BY <2>1 DEF PacketOK, LastTerm
<1>6. NetOK
  <2>1. BagToSet(net') \subseteq BagToSet(net) \cup broadcast_request_vote(i, t)
    BY <1>1, SendNet
  <2>2. QED
    BY <1>5, <2>1, AddOK
<1>7. QED
  BY <1>1, <1>4, <1>6, SameMatch, SameCommits DEF Detail

LEMMA HeartbeatDetail ==
    ASSUME TypeOK, NEW i \in Server, HeartbeatTimeout(i)
    PROVE  Detail
<1>1. /\ Send(send_heartbeats(i, nextIndex[i])) /\ role[i] = "LEADER"
      /\ UNCHANGED <<role, voters, currentTerm, matchIndex, commitIndex, lastApplied, chosen>>
  BY DEF HeartbeatTimeout, durable, electionVars, leaderVars, commitVars, history
<1>2. \A x \in send_heartbeats(i, nextIndex[i]) : PacketOK(x)
  BY <1>1, HeaderOK DEF send_heartbeats
<1>3. NetOK
  <2>1. BagToSet(net') \subseteq BagToSet(net) \cup send_heartbeats(i, nextIndex[i])
    BY <1>1, SendNet
  <2>2. QED
    BY <1>2, <2>1, AddOK
<1>4. QED
  BY <1>1, <1>3, SameVoters, SameMatch, SameCommits DEF Detail

LEMMA ProcRequestDetail ==
    ASSUME TypeOK, NEW i \in Server, NEW r \in Request, handle_proc_request(i, r)
    PROVE  Detail
<1> SUFFICES ASSUME NEW l, l = Append(log[i], [term |-> currentTerm[i], req |-> r]) PROVE Detail
  OBVIOUS
<1>1. /\ Send(broadcast_append_entries(i, l)) /\ role[i] = "LEADER"
      /\ UNCHANGED <<role, voters, currentTerm, matchIndex, commitIndex, lastApplied, chosen>>
  BY DEF handle_proc_request, electionVars, leaderVars
<1>2. \A x \in broadcast_append_entries(i, l) : PacketOK(x)
  BY <1>1, HeaderOK DEF broadcast_append_entries
<1>3. NetOK
  <2>1. BagToSet(net') \subseteq BagToSet(net) \cup broadcast_append_entries(i, l)
    BY <1>1, SendNet
  <2>2. QED
    BY <1>2, <2>1, AddOK
<1>4. QED
  BY <1>1, <1>3, SameVoters, SameMatch, SameCommits DEF Detail

LEMMA CrashDetail ==
    ASSUME TypeOK, NEW i \in Server, Crash(i)
    PROVE  Detail
<1>1. raft_create(i) /\ \A j \in Server : j # i => currentTerm'[j] = currentTerm[j]
  BY DEF Crash, Restart, TornElection, TornStepDown, TornAppend, durable, TypeOK
<1>2. /\ role'[i] = "FOLLOWER" /\ commitIndex'[i] = -1 /\ lastApplied'[i] = -1
      /\ \A j \in Server : j # i =>
            /\ role'[j] = role[j] /\ voters'[j] = voters[j]
            /\ commitIndex'[j] = commitIndex[j] /\ lastApplied'[j] = lastApplied[j]
      /\ UNCHANGED <<matchIndex, chosen>>
  BY <1>1 DEF raft_create, leaderVars, history, TypeOK
<1>3. NetOK
  <2>1. BagToSet(net') \subseteq BagToSet(net)
    BY <1>1 DEF raft_create, BagToSet
  <2>2. QED
    BY <2>1, ShrinkOK
<1>4. VotersStep
  BY <1>1, <1>2, VotersKept
<1>5. ChosenStep /\ IndexStep
  BY <1>2 DEF ChosenStep, IndexStep, CommitMove
<1>6. QED
  BY <1>2, <1>3, <1>4, <1>5, SameMatch DEF Detail

LEMMA NextDetail ==
    ASSUME ElectionInv, TypeOK', LogInv, [Next]_vars
    PROVE  Detail
<1>1. TypeOK
  BY DEF ElectionInv
<1>2. CASE UNCHANGED vars
  <2>1. UNCHANGED <<net, role, voters, currentTerm, matchIndex, commitIndex, lastApplied, chosen>>
    BY <1>2 DEF vars, durable, electionVars, leaderVars, commitVars, history
  <2>2. NetOK
    BY <2>1 DEF NetOK
  <2>3. QED
    BY <2>1, <2>2, SameVoters, SameMatch, SameCommits DEF Detail
<1>3. ASSUME NEW i \in Server, NEW m \in BagToSet(net), m.dst = i, raft_handle_rpc(i, m)
      PROVE  Detail
  BY <1>1, <1>3, AppendRequestDetail, AppendResponseDetail, BallotDetail, VoteDetail
      DEF raft_handle_rpc
<1>4. ASSUME NEW i \in Server, raft_handle_timeout(i) PROVE Detail
  BY <1>1, <1>4, ElectionDetail, HeartbeatDetail DEF raft_handle_timeout
<1>5. QED
  BY <1>1, <1>2, <1>3, <1>4, ProcRequestDetail, CrashDetail DEF Next, raft_run


LEMMA NextLead ==
    ASSUME ElectionInv, ElectionInv', LogInv, [Next]_vars
    PROVE  LeadStep
<1> SUFFICES ASSUME NEW i \in Server, role'[i] = "LEADER"
             PROVE  /\ currentTerm'[i] = currentTerm[i]
                    /\ \/ role[i] = "LEADER" /\ Agree(log[i], log'[i], Len(log[i]))
                       \/ ~ Won(currentTerm[i]) /\ log'[i] = log[i]
  BY DEF LeadStep
<1>1. TypeOK /\ log[i] \in LogType /\ Len(log[i]) \in Nat
  BY TypeFacts, LogFacts DEF ElectionInv
<1>2. Agree(log[i], log[i], Len(log[i]))
  BY <1>1 DEF Agree
<1>3. CASE Tame
  BY <1>1, <1>2, <1>3, RoleFacts DEF Tame, LegalIndexes
<1>4. ASSUME NEW k \in Server, NEW m \in BagToSet(net), role[k] = "CANDIDATE",
             become_leader(k, m), UNCHANGED durable
      PROVE  /\ currentTerm'[i] = currentTerm[i]
             /\ \/ role[i] = "LEADER" /\ Agree(log[i], log'[i], Len(log[i]))
                \/ ~ Won(currentTerm[i]) /\ log'[i] = log[i]
  <2>1. UNCHANGED <<currentTerm, log>> /\ role' = [role EXCEPT ![k] = "LEADER"]
    BY <1>4 DEF durable, become_leader
  <2>2. CASE i = k
    <3> DEFINE win == [term |-> currentTerm[k], leader |-> k, quorum |-> voters[k] \cup {m.src}]
    <3>1. elected' = elected \cup {win} /\ win.term = currentTerm[k] /\ win.leader = k
      BY <1>4 DEF become_leader
    <3> HIDE DEF win
    <3>2. elected \subseteq elected' /\ \E f \in elected' : f.term = currentTerm[k] /\ f.leader = k
      BY <3>1
    <3>3. ~ Won(currentTerm[k])
      BY <1>4, <3>2, FirstWin
    <3>4. QED
      BY <2>1, <2>2, <3>3
  <2>3. CASE i # k
    BY <1>1, <1>2, <2>1, <2>3 DEF TypeOK
  <2>4. QED
    BY <2>2, <2>3
<1>5. ASSUME NEW k \in Server, NEW r \in Request, handle_proc_request(k, r)
      PROVE  /\ currentTerm'[i] = currentTerm[i]
             /\ role[i] = "LEADER" /\ Agree(log[i], log'[i], Len(log[i]))
  <2> SUFFICES ASSUME NEW e, e = [term |-> currentTerm[k], req |-> r]
               PROVE  /\ currentTerm'[i] = currentTerm[i]
                      /\ role[i] = "LEADER" /\ Agree(log[i], log'[i], Len(log[i]))
    OBVIOUS
  <2>1. /\ log' = [log EXCEPT ![k] = Append(log[k], e)]
        /\ UNCHANGED <<currentTerm, role>>
    BY <1>5 DEF handle_proc_request, electionVars
  <2>2. log'[i] = log[i] \/ log'[i] = Append(log[i], e)
    BY <1>1, <2>1 DEF TypeOK
  <2>3. e \in Entry
    BY <1>1, TypeFacts DEF Entry
  <2>4. Agree(log[i], Append(log[i], e), Len(log[i]))
    BY <1>1, <2>3 DEF Agree, LogType
  <2>5. QED
    BY <1>2, <2>1, <2>2, <2>4
<1>6. QED
  BY <1>3, <1>4, <1>5, StepKinds

LEMMA NextElect ==
    ASSUME ElectionInv, ElectionInv', LogInv, [Next]_vars
    PROVE  ElectStep
<1> SUFFICES ASSUME NEW u \in Term, Won(u)', ~ Won(u)
             PROVE  \E k \in Server, Q \in SUBSET Server :
                       /\ Standing(k, u) /\ leaderLog'[u] = log[k]
                       /\ Majority(Cardinality(Q)) /\ \A j \in Q : Supports(j, k, u)
  BY DEF ElectStep
<1>1. TypeOK /\ TypeOK'
  BY DEF ElectionInv
<1>2. elected' # elected
  BY DEF Won
<1>3. PICK k \in Server, m \in BagToSet(net) :
        /\ m.dst = k /\ m.code = "RPC_RESP_REQ_VOTE" /\ role[k] = "CANDIDATE"
        /\ CountVote(k, m) /\ become_leader(k, m)
  <2>1. ~ Tame
    BY <1>2 DEF Tame
  <2>2. \A i \in Server, r \in Request : ~ handle_proc_request(i, r)
    BY <1>2 DEF handle_proc_request
  <2>3. QED
    BY <2>1, <2>2, StepKinds
<1> DEFINE Q == voters[k] \cup {m.src}
           win == [term |-> currentTerm[k], leader |-> k, quorum |-> Q]
<1>4. /\ elected' = elected \cup {win} /\ win.term = currentTerm[k] /\ win.quorum = Q
      /\ leaderLog' = [leaderLog EXCEPT ![currentTerm[k]] = log[k]]
  BY <1>3 DEF become_leader
<1>5. m.term = currentTerm[k] /\ m.vote_granted
  BY <1>3 DEF CountVote
<1>6. m \in request_vote_res_t /\ m.src \in Server
  BY <1>1, <1>3, PacketKind DEF TypeOK
<1>7. Q \in SUBSET Server
  BY <1>1, <1>6 DEF TypeOK
<1>8. Majority(Cardinality(Q))
  BY <1>4 DEF ElectionInv, ElectedByMajority
<1> HIDE DEF win
<1>9. u = currentTerm[k]
  BY <1>4 DEF Won
<1>10. Standing(k, u)
  BY <1>3, <1>9 DEF Standing
<1>11. leaderLog'[u] = log[k]
  BY <1>1, <1>4, <1>9 DEF TypeOK
<1>12. InFlight(Grant(m.src, k, u))
  <2>1. m = Grant(m.src, k, u)
    BY <1>3, <1>5, <1>6, <1>9, GrantOf
  <2>2. InFlight(m)
    BY DEF InFlight, BagIn
  <2>3. QED
    BY <2>1, <2>2
<1>13. \A j \in Q : Supports(j, k, u)
  BY <1>10, <1>12 DEF Supports
<1>14. QED
  BY <1>7, <1>8, <1>10, <1>11, <1>13

LEMMA NextLogSteps ==
    ASSUME ElectionInv, ElectionInv', LogInv, [Next]_vars
    PROVE  Growth /\ \A j \in Server : LogStep(j)
<1>1. TypeOK
  BY DEF ElectionInv
<1>2. CASE Tame
  BY <1>1, <1>2, TameGrowth DEF Tame
<1>3. ASSUME NEW i \in Server, NEW m \in BagToSet(net), role[i] = "CANDIDATE",
             become_leader(i, m), UNCHANGED durable
      PROVE  Growth /\ \A j \in Server : LogStep(j)
  BY <1>3, WinStep DEF LogStep
<1>4. QED
  BY <1>2, <1>3, StepKinds, ProcRequestStep

-----------------------------------------------------------------------------
(* The invariant *)

LEMMA InitCommit == Init => CommitInv
<1> SUFFICES ASSUME Init PROVE CommitInv
  OBVIOUS
<1>1. BagToSet(net) = {}
  BY DEF Init, EmptyBag, SetToBag, BagToSet
<1>2. AppendRequests = {}
  BY <1>1 DEF AppendRequests
<1>3. /\ \A i \in Server : /\ role[i] = "FOLLOWER" /\ log[i] = <<>>
                           /\ commitIndex[i] = -1 /\ lastApplied[i] = -1
      /\ chosen = <<>> /\ elected = {}
  BY DEF Init
<1>4. DOMAIN chosen = {} /\ Len(chosen) = 0
  BY <1>3
<1>5. \A n, t : ~ CommitPoint(n, t)
  BY <1>4 DEF CommitPoint
<1>6. AckersBack
  BY <1>3 DEF AckersBack, Committable
<1>7. ChosenBacked
  BY <1>5 DEF ChosenBacked
<1>8. LaterLeadersHold
  BY <1>3 DEF LaterLeadersHold, Won
<1>9. BallotsHonest /\ ChosenFromLeaders
  BY <1>1, <1>4 DEF BallotsHonest, ChosenFromLeaders
<1>10. CommitsDecided
  <2>1. ASSUME NEW i \in Server
        PROVE  /\ Decided(log[i], commitIndex[i] + 1, currentTerm[i])
               /\ Decided(log[i], lastApplied[i] + 1, currentTerm[i])
    <3>1. commitIndex[i] + 1 = 0 /\ lastApplied[i] + 1 = 0 /\ Len(log[i]) = 0
      BY <1>3
    <3>2. QED
      BY <1>4, <3>1 DEF Decided
  <2>2. QED
    BY <1>2, <2>1 DEF CommitsDecided
<1>11. QED
  BY <1>6, <1>7, <1>8, <1>9, <1>10 DEF CommitInv

LEMMA NextSafe ==
    ASSUME SafeInv, [Next]_vars
    PROVE  SafeInv'
<1>1. ElectionInv /\ LogInv /\ TypeOK
  BY SafeFacts
<1>2. ElectionInv' /\ LogInv'
  BY <1>1, NextElection, NextLog
<1>3. TypeOK'
  BY <1>2 DEF ElectionInv
<1>4. Detail
  BY <1>1, <1>3, NextDetail
<1>5. Frame
  BY <1>1, <1>2, <1>4, NextLogSteps, NextLead, NextElect DEF Frame, Detail
<1>6. ChosenStep /\ IndexStep
  BY <1>4 DEF Detail
<1>7. AckersBack' /\ ChosenBacked' /\ LaterLeadersHold' /\ BallotsHonest'
  BY <1>2, <1>5, <1>6, AckersBackStep, ChosenBackedStep, LaterLeadersStep, BallotsHonestStep
<1>8. ChosenFromLeaders' /\ CommitsDecided'
  BY <1>2, <1>3, <1>5, <1>6, ChosenFromLeadersStep, CommitsDecidedStep
<1>9. CommitInv'
  BY <1>7, <1>8 DEF CommitInv
<1>10. QED
  BY <1>2, <1>9 DEF SafeInv

LEMMA SafeInvariant == Spec => []SafeInv
<1>1. Init => SafeInv
  BY InitElection, InitLog, InitCommit DEF SafeInv
<1>2. SafeInv /\ [Next]_vars => SafeInv'
  BY NextSafe
<1>3. QED
  BY <1>1, <1>2, PTL DEF Spec

(* CommitInv holds in every reachable state: what the commit loop of a      *)
(* leader has counted, or may still count from acknowledgements that are   *)
(* old, reordered or on their way, is in the log of every later leader.    *)
THEOREM CommitInvariant == Spec => []CommitInv
<1>1. SafeInv => CommitInv
  BY DEF SafeInv
<1>2. QED
  BY <1>1, SafeInvariant, PTL

-----------------------------------------------------------------------------
(* What follows from it *)

LEMMA SafeLeaders == SafeInv => LeaderCompleteness
<1> SUFFICES ASSUME SafeInv, NEW i \in Server, role[i] = "LEADER", NEW k \in DOMAIN chosen,
                    chosen[k].at <= currentTerm[i]
             PROVE  k \in DOMAIN log[i] /\ log[i][k] = chosen[k].entry
  BY DEF LeaderCompleteness
<1>1. LeaderOf(currentTerm[i], i) /\ log[i] = leaderLog[currentTerm[i]]
  BY SafeFacts DEF LogInv, LeadersOwnLog
<1>2. Won(currentTerm[i])
  BY <1>1 DEF Won, LeaderOf
<1>3. QED
  BY <1>1, <1>2, SafeFacts, WinnerComplete

LEMMA SafeApplied == SafeInv => StateMachineSafety
<1> SUFFICES ASSUME SafeInv, NEW i \in Server, NEW k \in 1 .. lastApplied[i] + 1
             PROVE  k \in DOMAIN log[i] /\ k \in DOMAIN chosen /\ log[i][k] = chosen[k].entry
  BY DEF StateMachineSafety
<1>1. Decided(log[i], lastApplied[i] + 1, currentTerm[i])
  BY DEF SafeInv, CommitInv, CommitsDecided
<1>2. /\ lastApplied[i] \in Int /\ Len(log[i]) \in Nat /\ DOMAIN log[i] = 1 .. Len(log[i])
      /\ Len(chosen) \in Nat /\ DOMAIN chosen = 1 .. Len(chosen)
  BY SafeFacts, ChosenFacts, LogFacts DEF TypeOK, Index
<1>3. QED
  BY <1>1, <1>2 DEF Decided

LEMMA SafeMajority == SafeInv => ChosenOnMajority
<1> SUFFICES ASSUME SafeInv, NEW k \in DOMAIN chosen
             PROVE  Majority(Cardinality({i \in Server :
                        k \in DOMAIN log[i] /\ log[i][k] = chosen[k].entry}))
  BY DEF ChosenOnMajority
<1> SUFFICES ASSUME NEW t, t = chosen[k].at
             PROVE  Majority(Cardinality({i \in Server :
                        k \in DOMAIN log[i] /\ log[i][k] = chosen[k].entry}))
  OBVIOUS
<1>1. /\ t \in Term /\ k \in 1 .. MaxLogLen /\ leaderLog[t][k] = chosen[k].entry
      /\ \E n \in k .. Len(chosen) : CommitPoint(n, t) /\ n \in 1 .. MaxLogLen /\ k <= n
  BY SafeFacts, ChosenLeader
<1>2. PICK n \in 1 .. MaxLogLen : CommitPoint(n, t) /\ k <= n
  BY <1>1
<1>3. PICK Q \in SUBSET Server : Majority(Cardinality(Q)) /\ \A j \in Q : Backs(j, n, t)
  BY <1>1, <1>2 DEF SafeInv, CommitInv, ChosenBacked
<1>4. ASSUME NEW j \in Q PROVE k \in DOMAIN log[j] /\ log[j][k] = chosen[k].entry
  <2>1. j \in Server /\ log[j] \in LogType /\ Grounded(log[j])
    BY SafeFacts
  <2>2. Holds(log[j], n, t)
    BY <1>3 DEF Backs
  <2>3. n <= Len(log[j]) /\ Agree(log[j], leaderLog[t], n)
    BY <2>1, <2>2, SafeFacts, HoldsAgree
  <2>4. k \in 1 .. n /\ DOMAIN log[j] = 1 .. Len(log[j]) /\ Len(log[j]) \in Nat
    BY <1>1, <1>2, <2>1, LogFacts
  <2>5. log[j][k] = leaderLog[t][k]
    BY <2>3, <2>4 DEF Agree
  <2>6. QED
    BY <1>1, <2>3, <2>4, <2>5
<1> DEFINE P == {i \in Server : k \in DOMAIN log[i] /\ log[i][k] = chosen[k].entry}
<1>5. Q \subseteq P /\ P \in SUBSET Server
  BY <1>4
<1> HIDE DEF P
<1>6. Majority(Cardinality(P))
  BY <1>3, <1>5, MajorityGrows
<1>7. QED
  BY <1>6 DEF P

(* Every leader holds what was committed in its own and in earlier terms,  *)
(* for any number of nodes, terms and crashes: log_is_up_to_date, with its *)
(* unsigned comparison, and the current-term rule of the commit loop are   *)
(* enough.                                                                 *)
THEOREM LeadersComplete == Spec => []LeaderCompleteness
BY SafeInvariant, SafeLeaders, PTL

(* What apply_to_state_machine has applied on any node is what leaders     *)
(* committed at that index, so no two nodes apply different commands.      *)
THEOREM AppliedIsCommitted == Spec => []StateMachineSafety
BY SafeInvariant, SafeApplied, PTL

(* A committed entry is on the disks of a majority in every later state:   *)
(* no merge loop, finished or cut short by a crash, takes it away.         *)
THEOREM CommittedStays == Spec => []ChosenOnMajority
BY SafeInvariant, SafeMajority, PTL

-----------------------------------------------------------------------------
(* The refinement                                                          *)
(*                                                                         *)
(* A step of node i is either a crash, which is StartOver(i), or a         *)
(* Progress(i): the decided sequence is chosen, which only grows, and what *)
(* a node has applied is kept in its log and decided, by CommitInv.  That  *)
(* no command is decided twice comes from AnswerInv.                       *)

(* Every entry of a log is in the log of the leader of its term. *)
LEMMA EntryHome ==
    ASSUME TypeOK, LogInv, NEW i \in Server, NEW p \in DOMAIN log[i]
    PROVE  \E t \in Term : p \in DOMAIN leaderLog[t] /\ leaderLog[t][p] = log[i][p]
<1>1. log[i] \in LogType /\ Grounded(log[i])
  BY TypeFacts DEF LogInv, LogsGrounded
<1>2. Holds(log[i], p, log[i][p].term)
  BY DEF Holds
<1> SUFFICES ASSUME NEW t, t = log[i][p].term
             PROVE  t \in Term /\ p \in DOMAIN leaderLog[t] /\ leaderLog[t][p] = log[i][p]
  OBVIOUS
<1>3. /\ p \in Nat /\ p > 0 /\ t \in Term /\ Agree(log[i], leaderLog[t], p)
      /\ Holds(leaderLog[t], p, t)
  BY <1>1, <1>2, HoldsAgree
<1>4. p \in 1 .. p
  BY <1>3
<1>5. QED
  BY <1>3, <1>4 DEF Agree, Holds

-----------------------------------------------------------------------------
(* What a step of node i does to the logs, the applied parts of them and   *)
(* the clients.                                                            *)

Answers(i) ==
    /\ lastApplied[i] <= lastApplied'[i]
    /\ \A r \in Request :
          /\ client[r] = "acked" => client'[r] = "acked"
          /\ client'[r] = "acked" =>
                \/ client[r] = "acked"
                \/ \E k \in 1 .. lastApplied'[i] + 1 : log'[i][k].req = r

NodeStep(i) ==
    /\ \A j \in Server : j # i => log'[j] = log[j] /\ lastApplied'[j] = lastApplied[j]
    /\ \A r \in Request : client[r] # "idle" => client'[r] # "idle"
    /\ \/ lastApplied'[i] = -1 /\ UNCHANGED <<chosen, client>>
       \/ Answers(i)

LEMMA QuietNode ==
    ASSUME TypeOK, NEW i \in Server, UNCHANGED <<lastApplied, client>>,
           \A j \in Server : j # i => log'[j] = log[j]
    PROVE  NodeStep(i)
<1>1. lastApplied[i] <= lastApplied[i]
  BY DEF TypeOK, Index
<1>2. QED
  BY <1>1 DEF NodeStep, Answers

LEMMA ApplyNode ==
    ASSUME TypeOK, NEW i \in Server, NEW r, NEW l, l = log'[i], NEW c \in Index,
           apply_to_state_machine(i, r, l, c), \A j \in Server : j # i => log'[j] = log[j]
    PROVE  NodeStep(i)
<1> DEFINE A == {l[k + 1].req : k \in {n \in lastApplied[i] + 1 .. c : n < Len(l)}}
           B == IF r = "LEADER" THEN A \cap outstanding[i] ELSE {}
<1>1. /\ lastApplied' = [lastApplied EXCEPT ![i] = IF lastApplied[i] < c THEN c ELSE lastApplied[i]]
      /\ client' = [q \in Request |-> IF q \in B THEN "acked" ELSE client[q]]
  BY DEF apply_to_state_machine
<1>2. lastApplied[i] \in Int /\ lastApplied[i] >= -1 /\ c \in Int /\ c >= -1
  BY WordAssumption DEF TypeOK, Index
<1>3. /\ lastApplied'[i] = IF lastApplied[i] < c THEN c ELSE lastApplied[i]
      /\ \A j \in Server : j # i => lastApplied'[j] = lastApplied[j]
  BY <1>1 DEF TypeOK
<1>4. ASSUME NEW q \in B PROVE \E k \in 1 .. lastApplied'[i] + 1 : l[k].req = q
  <2>1. q \in A
    BY <1>4
  <2>2. PICK k \in lastApplied[i] + 1 .. c : l[k + 1].req = q
    BY <2>1
  <2>3. k + 1 \in 1 .. lastApplied'[i] + 1
    BY <1>2, <1>3, <2>2
  <2>4. QED
    BY <2>2, <2>3
<1> HIDE DEF A, B
<1>5. lastApplied[i] <= lastApplied'[i]
  BY <1>2, <1>3
<1>6. \A q \in Request : client'[q] = IF q \in B THEN "acked" ELSE client[q]
  BY <1>1
<1>7. QED
  BY <1>3, <1>4, <1>5, <1>6 DEF NodeStep, Answers

LEMMA AppendRequestNode ==
    ASSUME TypeOK, NEW i \in Server, NEW m \in BagToSet(net), handle_append_entries_request(i, m)
    PROVE  NodeStep(i)
<1>1. CASE RejectStaleAppend(i, m) \/ RejectMismatch(i, m)
  <2>1. UNCHANGED <<log, lastApplied, client>>
    BY <1>1 DEF RejectStaleAppend, RejectMismatch, durable, commitVars
  <2>2. QED
    BY <2>1, QuietNode
<1>2. CASE AppendNew(i, m)
  <2>1. \A j \in Server : j # i => log'[j] = log[j]
    BY <1>2 DEF AppendNew, TypeOK
  <2>2. m \in append_entries_req_t
    BY PacketKind DEF TypeOK, handle_append_entries_request
  <2>3. FollowerCommit(m) \in Index
    BY <2>2, LastNewType
  <2>4. CASE m.leader_commit > commitIndex[i]
    <3> SUFFICES ASSUME NEW r, r = role'[i], NEW l, l = log'[i], NEW c, c = FollowerCommit(m)
                 PROVE  NodeStep(i)
      OBVIOUS
    <3>1. apply_to_state_machine(i, r, l, c)
      BY <1>2, <2>4 DEF AppendNew
    <3>2. QED
      BY <2>1, <2>3, <3>1, ApplyNode
  <2>5. CASE ~ (m.leader_commit > commitIndex[i])
    <3>1. UNCHANGED <<lastApplied, client>>
      BY <1>2, <2>5 DEF AppendNew, commitVars
    <3>2. QED
      BY <2>1, <3>1, QuietNode
  <2>6. QED
    BY <2>4, <2>5
<1>3. QED
  BY <1>1, <1>2 DEF handle_append_entries_request

LEMMA AppendSucceededNode ==
    ASSUME TypeOK, NEW i \in Server, NEW m \in BagToSet(net), m.code = "RPC_RESP_APPEND_ENT",
           AppendSucceeded(i, m)
    PROVE  NodeStep(i)
<1> SUFFICES ASSUME NEW match, match = [matchIndex[i] EXCEPT ![m.src] = I32(m.new_match_index)],
                    NEW c, c = NewCommit(i, match)
             PROVE  NodeStep(i)
  OBVIOUS
<1>1. apply_to_state_machine(i, "LEADER", log[i], c) /\ UNCHANGED log
  BY DEF AppendSucceeded, durable
<1>2. m \in append_entries_res_t
  BY PacketKind DEF TypeOK
<1>3. match \in [Server -> Index]
  BY <1>2, IndexOfWire DEF TypeOK, append_entries_res_t
<1>4. c \in Index
  BY <1>3, NewCommitType
<1>5. QED
  BY <1>1, <1>4, ApplyNode

LEMMA ProcRequestNode ==
    ASSUME TypeOK, NEW i \in Server, NEW r \in Request, handle_proc_request(i, r)
    PROVE  NodeStep(i)
<1>1. /\ client[r] = "idle" /\ client' = [client EXCEPT ![r] = "accepted"]
      /\ UNCHANGED lastApplied /\ \A j \in Server : j # i => log'[j] = log[j]
  BY DEF handle_proc_request, TypeOK
<1>2. client'[r] = "accepted" /\ \A q \in Request : q # r => client'[q] = client[q]
  BY <1>1 DEF TypeOK
<1>3. lastApplied[i] <= lastApplied'[i]
  BY <1>1 DEF TypeOK, Index
<1>4. QED
  BY <1>1, <1>2, <1>3 DEF NodeStep, Answers

LEMMA CrashNode ==
    ASSUME TypeOK, NEW i \in Server, Crash(i)
    PROVE  NodeStep(i)
<1>1. raft_create(i) /\ \A j \in Server : j # i => log'[j] = log[j]
  BY DEF Crash, Restart, TornElection, TornStepDown, TornAppend, durable, TypeOK
<1>2. /\ lastApplied' = [lastApplied EXCEPT ![i] = -1]
      /\ UNCHANGED <<chosen, client>>
  BY <1>1 DEF raft_create, history
<1>3. QED
  BY <1>1, <1>2 DEF NodeStep, TypeOK

LEMMA NextNode ==
    ASSUME TypeOK, Next
    PROVE  \E i \in Server : NodeStep(i)
<1>1. ASSUME NEW i \in Server, NEW m \in BagToSet(net), raft_handle_rpc(i, m)
      PROVE  NodeStep(i)
  <2>1. CASE handle_append_entries_request(i, m)
    BY <2>1, AppendRequestNode
  <2>2. CASE handle_append_entries_response(i, m)
    <3>1. CASE AppendSucceeded(i, m)
      BY <2>2, <3>1, AppendSucceededNode DEF handle_append_entries_response
    <3>2. CASE StepDownOnResponse(i, m) \/ DropPacket(m) \/ AppendFailed(i, m)
      <4>1. UNCHANGED <<log, lastApplied, client>>
        BY <3>2 DEF StepDownOnResponse, DropPacket, AppendFailed, durable, commitVars
      <4>2. QED
        BY <4>1, QuietNode
    <3>3. QED
      BY <2>2, <3>1, <3>2 DEF handle_append_entries_response
  <2>3. CASE handle_request_vote_request(i, m)
    <3>1. UNCHANGED <<log, lastApplied, client>>
      BY <2>3 DEF handle_request_vote_request, RejectStaleBallot, AnswerBallot, durable, commitVars
    <3>2. QED
      BY <3>1, QuietNode
  <2>4. CASE handle_request_vote_response(i, m)
    <3>1. UNCHANGED <<log, lastApplied, client>>
      BY <2>4 DEF handle_request_vote_response, StepDownOnResponse, DropPacket, CountVote,
          durable, commitVars
    <3>2. QED
      BY <3>1, QuietNode
  <2>5. QED
    BY <1>1, <2>1, <2>2, <2>3, <2>4 DEF raft_handle_rpc
<1>2. ASSUME NEW i \in Server, raft_handle_timeout(i) PROVE NodeStep(i)
  <2>1. UNCHANGED <<log, lastApplied, client>>
    BY <1>2 DEF raft_handle_timeout, become_candidate, RetryElection, HeartbeatTimeout,
        durable, commitVars
  <2>2. QED
    BY <2>1, QuietNode
<1>3. QED
  BY <1>1, <1>2, ProcRequestNode, CrashNode DEF Next, raft_run


-----------------------------------------------------------------------------
(* AnswerInv *)

(* Some leader's log has e as its p-th entry. *)
Old(p, e) == \E u \in Term : p \in DOMAIN leaderLog[u] /\ leaderLog[u][p] = e

(* At most one entry is new, for a command that was not yet in any log. *)
LEMMA EntryOrigin ==
    ASSUME ElectionInv, ElectionInv', LogInv, [Next]_vars
    PROVE  \/ \A t \in Term : \A p \in DOMAIN leaderLog'[t] : Old(p, leaderLog'[t][p])
           \/ \E r \in Request, n \in Nat :
                 /\ client[r] = "idle" /\ client'[r] # "idle"
                 /\ \A t \in Term : \A p \in DOMAIN leaderLog'[t] :
                       Old(p, leaderLog'[t][p]) \/ (p = n /\ leaderLog'[t][p].req = r)
<1>1. TypeOK
  BY DEF ElectionInv
<1>2. CASE Tame
  BY <1>2 DEF Tame, Old
<1>3. ASSUME NEW k \in Server, NEW m \in BagToSet(net), become_leader(k, m)
      PROVE  \A t \in Term : \A p \in DOMAIN leaderLog'[t] : Old(p, leaderLog'[t][p])
  <2>1. leaderLog' = [leaderLog EXCEPT ![currentTerm[k]] = log[k]]
    BY <1>3 DEF become_leader
  <2>2. \A t \in Term : leaderLog'[t] = leaderLog[t] \/ leaderLog'[t] = log[k]
    BY <1>1, <2>1 DEF TypeOK
  <2>3. \A p \in DOMAIN log[k] : Old(p, log[k][p])
    BY <1>1, EntryHome DEF Old
  <2>4. QED
    BY <2>2, <2>3 DEF Old
<1>4. ASSUME NEW k \in Server, NEW r \in Request, handle_proc_request(k, r)
      PROVE  \E n \in Nat :
                 /\ client[r] = "idle" /\ client'[r] # "idle"
                 /\ \A t \in Term : \A p \in DOMAIN leaderLog'[t] :
                       Old(p, leaderLog'[t][p]) \/ (p = n /\ leaderLog'[t][p].req = r)
  <2> SUFFICES ASSUME NEW e, e = [term |-> currentTerm[k], req |-> r],
                      NEW n, n = Len(log[k]) + 1,
                      NEW l, l = Append(log[k], e)
               PROVE  /\ client[r] = "idle" /\ client'[r] # "idle" /\ n \in Nat
                      /\ \A t \in Term : \A p \in DOMAIN leaderLog'[t] :
                            Old(p, leaderLog'[t][p]) \/ (p = n /\ leaderLog'[t][p].req = r)
    OBVIOUS
  <2>1. /\ leaderLog' = [leaderLog EXCEPT ![currentTerm[k]] = l]
        /\ client[r] = "idle" /\ client' = [client EXCEPT ![r] = "accepted"]
    BY <1>4 DEF handle_proc_request
  <2>2. client'[r] # "idle"
    BY <1>1, <2>1 DEF TypeOK
  <2>3. log[k] \in LogType /\ Len(log[k]) \in Nat /\ n \in Nat /\ DOMAIN log[k] = 1 .. Len(log[k])
    BY <1>1, TypeFacts, LogFacts
  <2>4. e \in Entry /\ e.req = r
    BY <1>1, TypeFacts DEF Entry
  <2>5. DOMAIN l = 1 .. n /\ l[n] = e /\ \A p \in 1 .. Len(log[k]) : l[p] = log[k][p]
    BY <2>3, <2>4 DEF LogType
  <2>6. \A p \in DOMAIN log[k] : Old(p, log[k][p])
    BY <1>1, EntryHome DEF Old
  <2>7. ASSUME NEW p \in DOMAIN l PROVE Old(p, l[p]) \/ (p = n /\ l[p].req = r)
    BY <2>3, <2>4, <2>5, <2>6, <2>7
  <2>8. \A t \in Term : leaderLog'[t] = leaderLog[t] \/ leaderLog'[t] = l
    BY <1>1, <2>1 DEF TypeOK
  <2>9. ASSUME NEW t \in Term, NEW p \in DOMAIN leaderLog'[t]
        PROVE  Old(p, leaderLog'[t][p]) \/ (p = n /\ leaderLog'[t][p].req = r)
    <3>1. CASE leaderLog'[t] = leaderLog[t]
      BY <2>9, <3>1 DEF Old
    <3>2. CASE leaderLog'[t] = l
      BY <2>7, <2>9, <3>2
    <3>3. QED
      BY <2>8, <3>1, <3>2
  <2>10. QED
    BY <2>1, <2>2, <2>3, <2>9
<1>5. QED
  BY <1>2, <1>3, <1>4, StepKinds

LEMMA InitAnswer == Init => AnswerInv
<1> SUFFICES ASSUME Init PROVE AnswerInv
  OBVIOUS
<1>1. /\ \A t \in Term : leaderLog[t] = <<>>
      /\ \A r \in Request : client[r] = "idle"
  BY DEF Init
<1>2. DOMAIN <<>> = {}
  OBVIOUS
<1>3. \A t \in Term : DOMAIN leaderLog[t] = {}
  BY <1>1, <1>2
<1>4. RequestsOnce /\ RequestsAccepted
  BY <1>3 DEF RequestsOnce, RequestsAccepted
<1>5. AnswersCommitted
  BY <1>1 DEF AnswersCommitted
<1>6. QED
  BY <1>4, <1>5 DEF AnswerInv

(* StateMachineSafety of the next state. *)
LEMMA AppliedNext ==
    ASSUME SafeInv', NEW i \in Server, NEW k \in 1 .. lastApplied'[i] + 1
    PROVE  k \in DOMAIN log'[i] /\ k \in DOMAIN chosen' /\ log'[i][k] = chosen'[k].entry
<1>1. (SafeInv => StateMachineSafety)'
  BY SafeApplied, PTL
<1>2. QED
  BY <1>1 DEF StateMachineSafety

LEMMA NextAnswer ==
    ASSUME SafeInv, SafeInv', AnswerInv, [Next]_vars
    PROVE  AnswerInv'
<1>1. TypeOK /\ ElectionInv /\ LogInv /\ TypeOK' /\ ElectionInv'
  BY SafeFacts DEF SafeInv, ElectionInv
<1>2. CASE UNCHANGED vars
  <2>1. UNCHANGED <<leaderLog, client, chosen>>
    BY <1>2 DEF vars, commitVars, history
  <2>2. QED
    BY <2>1 DEF AnswerInv, RequestsOnce, RequestsAccepted, AnswersCommitted
<1>3. CASE Next
  <2>1. PICK i \in Server : NodeStep(i)
    BY <1>1, <1>3, NextNode
  <2>2. \A r \in Request : client[r] # "idle" => client'[r] # "idle"
    BY <2>1 DEF NodeStep
  <2>3. /\ \A t \in Term : \A p \in DOMAIN leaderLog[t] :
              leaderLog[t][p].req \in Request /\ client[leaderLog[t][p].req] # "idle"
        /\ \A p, q, d, e : Old(p, d) /\ Old(q, e) /\ d.req = e.req => p = q
    <3>1. \A t \in Term : \A p \in DOMAIN leaderLog[t] : leaderLog[t][p] \in Entry
      BY <1>1, TypeFacts, LogFacts
    <3>2. QED
      BY <3>1 DEF AnswerInv, RequestsOnce, RequestsAccepted, Old, Entry
  <2>4. \A p, e : Old(p, e) => e.req \in Request /\ client[e.req] # "idle"
    BY <2>3 DEF Old
  <2>5. RequestsOnce' /\ RequestsAccepted'
    <3>1. CASE \A t \in Term : \A p \in DOMAIN leaderLog'[t] : Old(p, leaderLog'[t][p])
      <4>1. RequestsOnce'
        BY <2>3, <3>1 DEF RequestsOnce
      <4>2. RequestsAccepted'
        BY <2>2, <2>4, <3>1 DEF RequestsAccepted
      <4>3. QED
        BY <4>1, <4>2
    <3>2. ASSUME NEW r \in Request, NEW n \in Nat, client[r] = "idle", client'[r] # "idle",
                 \A t \in Term : \A p \in DOMAIN leaderLog'[t] :
                    Old(p, leaderLog'[t][p]) \/ (p = n /\ leaderLog'[t][p].req = r)
          PROVE  RequestsOnce' /\ RequestsAccepted'
      <4>1. \A p, e : Old(p, e) => e.req # r
        BY <2>4, <3>2
      <4>2. RequestsOnce'
        <5> SUFFICES ASSUME NEW t \in Term, NEW u \in Term, NEW p \in DOMAIN leaderLog'[t],
                            NEW q \in DOMAIN leaderLog'[u],
                            leaderLog'[t][p].req = leaderLog'[u][q].req
                     PROVE  p = q
          BY DEF RequestsOnce
        <5>1. Old(p, leaderLog'[t][p]) \/ (p = n /\ leaderLog'[t][p].req = r)
          BY <3>2
        <5>2. Old(q, leaderLog'[u][q]) \/ (q = n /\ leaderLog'[u][q].req = r)
          BY <3>2
        <5>3. QED
          BY <2>3, <4>1, <5>1, <5>2
      <4>3. RequestsAccepted'
        BY <2>2, <2>4, <3>2 DEF RequestsAccepted
      <4>4. QED
        BY <4>2, <4>3
    <3>3. QED
      BY <1>1, <3>1, <3>2, EntryOrigin
  <2>6. AnswersCommitted'
    <3> SUFFICES ASSUME NEW r \in Request, client'[r] = "acked"
                 PROVE  \E k \in DOMAIN chosen' : chosen'[k].entry.req = r
      BY DEF AnswersCommitted
    <3>1. CASE client[r] = "acked"
      <4>1. PICK k \in DOMAIN chosen : chosen[k].entry.req = r
        BY <3>1 DEF AnswerInv, AnswersCommitted
      <4>2. ChosenStep
        BY <1>1, NextDetail DEF Detail
      <4>3. Len(chosen) <= Len(chosen') /\ \A q \in 1 .. Len(chosen) : chosen'[q].entry = chosen[q].entry
        BY <1>1, <4>2, ChosenGrowth
      <4>4. /\ Len(chosen) \in Nat /\ DOMAIN chosen = 1 .. Len(chosen)
            /\ Len(chosen') \in Nat /\ DOMAIN chosen' = 1 .. Len(chosen')
        BY <1>1, ChosenFacts DEF TypeOK
      <4>5. k \in DOMAIN chosen'
        BY <4>3, <4>4
      <4>6. QED
        BY <4>1, <4>3, <4>4, <4>5
    <3>2. CASE client[r] # "acked"
      <4>1. \E k \in 1 .. lastApplied'[i] + 1 : log'[i][k].req = r
        BY <2>1, <3>2 DEF NodeStep, Answers
      <4>2. QED
        BY <4>1, AppliedNext
    <3>3. QED
      BY <3>1, <3>2
  <2>7. QED
    BY <2>5, <2>6 DEF AnswerInv
<1>4. QED
  BY <1>2, <1>3

LEMMA SafeAnswerInvariant == Spec => [](SafeInv /\ AnswerInv)
<1>1. Init => SafeInv /\ AnswerInv
  BY InitElection, InitLog, InitCommit, InitAnswer DEF SafeInv
<1>2. SafeInv /\ AnswerInv /\ [Next]_vars => (SafeInv /\ AnswerInv)'
  BY NextSafe, NextAnswer
<1>3. QED
  BY <1>1, <1>2, PTL DEF Spec

(* AnswerInv holds in every reachable state: a command is at one place in  *)
(* the logs, whichever leaders append, truncate and append again.          *)
THEOREM AnswerInvariant == Spec => []AnswerInv
BY SafeAnswerInvariant, PTL

(* No command is at two indexes of what was committed. *)
CommandsDistinct ==
    \A p, q \in DOMAIN chosen : chosen[p].entry.req = chosen[q].entry.req => p = q

LEMMA ChosenOnce == SafeInv /\ AnswerInv => CommandsDistinct
<1> SUFFICES ASSUME SafeInv, AnswerInv, NEW p \in DOMAIN chosen, NEW q \in DOMAIN chosen,
                    chosen[p].entry.req = chosen[q].entry.req
             PROVE  p = q
  BY DEF CommandsDistinct
<1>1. /\ chosen[p].at \in Term /\ p \in DOMAIN leaderLog[chosen[p].at]
      /\ leaderLog[chosen[p].at][p] = chosen[p].entry
  BY SafeFacts, ChosenLeader
<1>2. /\ chosen[q].at \in Term /\ q \in DOMAIN leaderLog[chosen[q].at]
      /\ leaderLog[chosen[q].at][q] = chosen[q].entry
  BY SafeFacts, ChosenLeader
<1>3. QED
  BY <1>1, <1>2 DEF AnswerInv, RequestsOnce

LEMMA SafeAnswers == SafeInv /\ AnswerInv => AnsweredIsChosen
<1> SUFFICES ASSUME SafeInv, AnswerInv, NEW r \in Request, client[r] = "acked"
             PROVE  Cardinality({k \in DOMAIN chosen : chosen[k].entry.req = r}) = 1
  BY DEF AnsweredIsChosen
<1>1. PICK k \in DOMAIN chosen : chosen[k].entry.req = r
  BY DEF AnswerInv, AnswersCommitted
<1>2. {q \in DOMAIN chosen : chosen[q].entry.req = r} = {k}
  BY <1>1, ChosenOnce DEF CommandsDistinct
<1>3. QED
  BY <1>2, FS_Singleton

(* A client that was told "success" has its command committed exactly      *)
(* once, whatever happens to the leader that answered it.                  *)
THEOREM AnswersAreFinal == Spec => []AnsweredIsChosen
BY SafeAnswerInvariant, SafeAnswers, PTL


-----------------------------------------------------------------------------
(* The refinement *)

LEMMA PrefixOf ==
    ASSUME NEW S, NEW s \in Seq(S), NEW t \in Seq(S), Len(s) <= Len(t),
           \A k \in 1 .. Len(s) : s[k] = t[k]
    PROVE  RSM!IsPrefix(s, t)
<1>1. Len(s) \in Nat /\ Len(t) \in Nat
  OBVIOUS
<1>2. /\ SubSeq(s, 1, Len(s)) \in Seq(S) /\ Len(SubSeq(s, 1, Len(s))) = Len(s)
      /\ \A k \in 1 .. Len(s) : SubSeq(s, 1, Len(s))[k] = s[k]
  BY <1>1, SubSeqType
<1>3. /\ SubSeq(t, 1, Len(s)) \in Seq(S) /\ Len(SubSeq(t, 1, Len(s))) = Len(s)
      /\ \A k \in 1 .. Len(s) : SubSeq(t, 1, Len(s))[k] = t[k]
  BY <1>1, SubSeqType
<1>4. SubSeq(s, 1, Len(s)) = SubSeq(t, 1, Len(s))
  BY <1>2, <1>3
<1>5. QED
  BY <1>4 DEF RSM!IsPrefix

(* The commands a node has applied. *)
LEMMA CommandsOf ==
    ASSUME NEW l \in LogType, NEW n \in Nat, n <= Len(l), NEW s, s = Commands(SubSeq(l, 1, n))
    PROVE  /\ s \in Seq(Request) /\ Len(s) = n /\ DOMAIN s = 1 .. n
           /\ \A k \in 1 .. n : s[k] = l[k].req
<1>1. l \in Seq(Entry) /\ Len(l) \in Nat
  BY DEF LogType
<1> SUFFICES ASSUME NEW p, p = SubSeq(l, 1, n)
             PROVE  /\ s \in Seq(Request) /\ Len(s) = n /\ DOMAIN s = 1 .. n
                    /\ \A k \in 1 .. n : s[k] = l[k].req
  OBVIOUS
<1>2. p \in Seq(Entry) /\ Len(p) = n /\ \A k \in 1 .. n : p[k] = l[k]
  BY <1>1, SubSeqType
<1>3. DOMAIN p = 1 .. n /\ \A k \in 1 .. n : p[k].req \in Request
  BY <1>2 DEF Entry
<1>4. s = [k \in 1 .. n |-> p[k].req]
  BY <1>3 DEF Commands
<1>5. QED
  BY <1>2, <1>3, <1>4

LEMMA DecidedCommands ==
    ASSUME TypeOK, NEW s, s = [k \in DOMAIN chosen |-> chosen[k].entry.req]
    PROVE  /\ s \in Seq(Request) /\ Len(s) = Len(chosen) /\ DOMAIN s = 1 .. Len(chosen)
           /\ \A k \in 1 .. Len(chosen) : s[k] = chosen[k].entry.req
<1>1. Len(chosen) \in Nat /\ DOMAIN chosen = 1 .. Len(chosen)
      /\ \A k \in 1 .. Len(chosen) : chosen[k].entry.req \in Request
  BY ChosenFacts DEF Entry
<1>2. s = [k \in 1 .. Len(chosen) |-> chosen[k].entry.req]
  BY <1>1
<1>3. QED
  BY <1>1, <1>2

LEMMA DecidedCommandsNext ==
    ASSUME TypeOK', NEW s, s = [k \in DOMAIN chosen' |-> chosen'[k].entry.req]
    PROVE  /\ s \in Seq(Request) /\ Len(s) = Len(chosen') /\ DOMAIN s = 1 .. Len(chosen')
           /\ \A k \in 1 .. Len(chosen') : s[k] = chosen'[k].entry.req
<1> DEFINE E == [entry : Entry, at : Term]
<1>1. chosen' \in Seq(E)
  BY DEF TypeOK
<1>2. \A x \in E : x.entry.req \in Request
  BY DEF E, Entry
<1> HIDE DEF E
<1>3. Len(chosen') \in Nat /\ DOMAIN chosen' = 1 .. Len(chosen')
      /\ \A k \in 1 .. Len(chosen') : chosen'[k].entry.req \in Request
  BY <1>1, <1>2
<1>4. s = [k \in 1 .. Len(chosen') |-> chosen'[k].entry.req]
  BY <1>3
<1>5. QED
  BY <1>3, <1>4

LEMMA InitRefines == Init => RSM!Init
<1> SUFFICES ASSUME Init PROVE RSM!Init
  OBVIOUS
<1>1. /\ chosen = <<>> /\ log = [i \in Server |-> <<>>] /\ lastApplied = [i \in Server |-> -1]
      /\ client = [r \in Request |-> "idle"]
  BY DEF Init
<1>2. TypeOK
  BY InitType
<1>3. [k \in DOMAIN chosen |-> chosen[k].entry.req] = <<>>
  <2> SUFFICES ASSUME NEW s, s = [k \in DOMAIN chosen |-> chosen[k].entry.req] PROVE s = <<>>
    OBVIOUS
  <2>1. s \in Seq(Request) /\ Len(s) = 0
    BY <1>1, <1>2, DecidedCommands
  <2>2. QED
    BY <2>1
<1>4. ASSUME NEW i \in Server PROVE Commands(SubSeq(log[i], 1, lastApplied[i] + 1)) = <<>>
  <2> SUFFICES ASSUME NEW n, n = lastApplied[i] + 1, NEW s, s = Commands(SubSeq(log[i], 1, n))
               PROVE  s = <<>>
    OBVIOUS
  <2>1. n = 0 /\ log[i] = <<>> /\ log[i] \in LogType
    BY <1>1, <1>2, TypeFacts
  <2>2. s \in Seq(Request) /\ Len(s) = 0
    BY <2>1, CommandsOf
  <2>3. QED
    BY <2>2
<1>5. {r \in Request : client[r] = "acked"} = {}
  BY <1>1
<1>6. QED
  BY <1>3, <1>4, <1>5 DEF RSM!Init


LEMMA ProgressRefines ==
    ASSUME SafeInv, SafeInv', AnswerInv, AnswerInv', ChosenStep, Frame, NEW i \in Server,
           NodeStep(i), Answers(i),
           NEW a, a = [j \in Server |-> Commands(SubSeq(log[j], 1, lastApplied[j] + 1))],
           NEW b, b = [j \in Server |-> Commands(SubSeq(log'[j], 1, lastApplied'[j] + 1))],
           b = [a EXCEPT ![i] = b[i]]
    PROVE  RSM!Progress(i)
<1> SUFFICES ASSUME NEW d, d = [k \in DOMAIN chosen |-> chosen[k].entry.req],
                    NEW e, e = [k \in DOMAIN chosen' |-> chosen'[k].entry.req],
                    NEW n, n = lastApplied[i] + 1, NEW q, q = lastApplied'[i] + 1
             PROVE  RSM!Progress(i)
  OBVIOUS
<1>1. TypeOK /\ TypeOK'
  BY SafeFacts DEF SafeInv, ElectionInv
<1>2. /\ d \in Seq(Request) /\ Len(d) = Len(chosen)
      /\ \A k \in 1 .. Len(chosen) : d[k] = chosen[k].entry.req
  BY <1>1, DecidedCommands
<1>3. /\ e \in Seq(Request) /\ Len(e) = Len(chosen') /\ DOMAIN e = 1 .. Len(chosen')
      /\ \A k \in 1 .. Len(chosen') : e[k] = chosen'[k].entry.req
  BY <1>1, DecidedCommandsNext
<1>4. /\ Len(chosen) <= Len(chosen') /\ Len(chosen') \in Nat /\ Len(chosen) \in Nat
      /\ \A k \in 1 .. Len(chosen) : chosen'[k].entry = chosen[k].entry
  BY <1>1, ChosenGrowth, ChosenFacts
<1>5. /\ n \in Nat /\ q \in Nat /\ n <= q
      /\ log[i] \in LogType /\ log'[i] \in LogType /\ Len(log[i]) \in Nat /\ Len(log'[i]) \in Nat
  <2>1. lastApplied[i] \in Index /\ lastApplied'[i] \in Index
    BY <1>1 DEF TypeOK
  <2>2. lastApplied[i] <= lastApplied'[i]
    BY DEF Answers
  <2>3. n \in Nat /\ q \in Nat /\ n <= q
    BY <2>1, <2>2 DEF Index
  <2>4. QED
    BY <1>1, <2>3, TypeFacts, TypeFactsNext, LogFacts
<1>6. Decided(log[i], n, currentTerm[i])
  BY DEF SafeInv, CommitInv, CommitsDecided
<1>7. n <= Len(log[i]) /\ Agree(log[i], log'[i], n)
  BY <1>1, <1>5, <1>6, LogKept DEF Decided
<1>8. \A k \in 1 .. q : /\ k \in DOMAIN log'[i] /\ k \in DOMAIN chosen'
                        /\ log'[i][k] = chosen'[k].entry
  BY AppliedNext
<1>9. q <= Len(log'[i]) /\ q <= Len(chosen')
  <2>1. (Decided(log[i], lastApplied[i] + 1, currentTerm[i]))'
    BY DEF SafeInv, CommitInv, CommitsDecided
  <2>2. QED
    BY <2>1 DEF Decided
<1>10. /\ a[i] \in Seq(Request) /\ Len(a[i]) = n
       /\ \A k \in 1 .. n : a[i][k] = log[i][k].req
  <2>1. a[i] = Commands(SubSeq(log[i], 1, n))
    OBVIOUS
  <2>2. QED
    BY <1>5, <1>7, <2>1, CommandsOf
<1>11. /\ b[i] \in Seq(Request) /\ Len(b[i]) = q /\ DOMAIN b[i] = 1 .. q
       /\ \A k \in 1 .. q : b[i][k] = log'[i][k].req
  <2>1. b[i] = Commands(SubSeq(log'[i], 1, q))
    OBVIOUS
  <2>2. QED
    BY <1>5, <1>9, <2>1, CommandsOf
<1>12. RSM!IsPrefix(d, e)
  <2>1. \A k \in 1 .. Len(d) : d[k] = e[k]
    BY <1>2, <1>3, <1>4
  <2>2. Len(d) <= Len(e)
    BY <1>2, <1>3, <1>4
  <2>3. QED
    BY <1>2, <1>3, <2>1, <2>2, PrefixOf, Zenon
<1>13. RSM!IsPrefix(a[i], b[i])
  <2>1. ASSUME NEW k \in 1 .. Len(a[i]) PROVE a[i][k] = b[i][k]
    <3>1. k \in 1 .. n /\ k \in 1 .. q
      BY <1>5, <1>10
    <3>2. log[i][k] = log'[i][k]
      BY <1>7, <3>1 DEF Agree
    <3>3. QED
      BY <1>10, <1>11, <3>1, <3>2
  <2>2. Len(a[i]) <= Len(b[i])
    BY <1>5, <1>10, <1>11
  <2>3. QED
    BY <1>10, <1>11, <2>1, <2>2, PrefixOf, Zenon
<1>14. RSM!IsPrefix(b[i], e)
  <2>1. \A k \in 1 .. Len(b[i]) : b[i][k] = e[k]
    BY <1>3, <1>4, <1>5, <1>8, <1>9, <1>11
  <2>2. Len(b[i]) <= Len(e)
    BY <1>3, <1>9, <1>11
  <2>3. QED
    BY <1>3, <1>11, <2>1, <2>2, PrefixOf, Zenon
<1>15. RSM!IsInjective(e)
  <2>1. (SafeInv /\ AnswerInv => CommandsDistinct)'
    BY ChosenOnce, PTL
  <2>2. QED
    BY <2>1 DEF CommandsDistinct, RSM!IsInjective
<1>16. /\ {r \in Request : client[r] = "acked"} \subseteq {r \in Request : client'[r] = "acked"}
       /\ {r \in Request : client'[r] = "acked"} \subseteq
            {r \in Request : client[r] = "acked"} \cup RSM!Range(b[i])
  <2>1. ASSUME NEW r \in Request, client'[r] = "acked", client[r] # "acked"
        PROVE  r \in RSM!Range(b[i])
    <3>1. PICK k \in 1 .. q : log'[i][k].req = r
      BY <2>1 DEF Answers
    <3>2. b[i][k] = r /\ k \in DOMAIN b[i]
      BY <1>11, <3>1
    <3>3. QED
      BY <3>2 DEF RSM!Range
  <2>2. QED
    BY <2>1 DEF Answers
<1>17. QED
  BY <1>12, <1>13, <1>14, <1>15, <1>16 DEF RSM!Progress

LEMMA NextRefines ==
    ASSUME SafeInv, SafeInv', AnswerInv, AnswerInv', [Next]_vars
    PROVE  [RSM!Next]_(RSM!vars)
<1>1. TypeOK /\ ElectionInv /\ LogInv /\ TypeOK' /\ ElectionInv'
  BY SafeFacts DEF SafeInv, ElectionInv
<1>2. CASE UNCHANGED vars
  <2>1. UNCHANGED <<chosen, log, lastApplied, client>>
    BY <1>2 DEF vars, durable, commitVars, history
  <2>2. QED
    BY <2>1 DEF RSM!vars
<1>3. CASE Next
  <2> SUFFICES ASSUME
        NEW a, a = [j \in Server |-> Commands(SubSeq(log[j], 1, lastApplied[j] + 1))],
        NEW b, b = [j \in Server |-> Commands(SubSeq(log'[j], 1, lastApplied'[j] + 1))]
               PROVE  RSM!Next
    OBVIOUS
  <2>1. PICK i \in Server : NodeStep(i)
    BY <1>1, <1>3, NextNode
  <2>2. \A j \in Server : j # i => b[j] = a[j]
    BY <2>1 DEF NodeStep
  <2>3. b = [a EXCEPT ![i] = b[i]]
    BY <2>2
  <2>4. CASE lastApplied'[i] = -1 /\ UNCHANGED <<chosen, client>>
    <3>1. log'[i] \in LogType /\ Len(log'[i]) \in Nat
      BY <1>1, TypeFactsNext, LogFacts
    <3>2. b[i] = <<>>
      <4>1. lastApplied'[i] + 1 = 0
        BY <2>4
      <4>2. b[i] = Commands(SubSeq(log'[i], 1, 0))
        BY <4>1
      <4>3. b[i] \in Seq(Request) /\ Len(b[i]) = 0
        BY <3>1, <4>2, CommandsOf
      <4>4. QED
        BY <4>3
    <3>3. b = [a EXCEPT ![i] = <<>>]
      BY <2>3, <3>2
    <3>4. RSM!StartOver(i)
      BY <2>4, <3>3 DEF RSM!StartOver
    <3>5. QED
      BY <3>4 DEF RSM!Next
  <2>5. CASE Answers(i)
    <3>1. Detail
      BY <1>1, NextDetail
    <3>2. Frame /\ ChosenStep
      BY <1>1, <3>1, NextLogSteps, NextLead, NextElect DEF Frame, Detail
    <3>3. RSM!Progress(i)
      BY <2>1, <2>3, <2>5, <3>2, ProgressRefines
    <3>4. QED
      BY <3>3 DEF RSM!Next
  <2>6. QED
    BY <2>1, <2>4, <2>5 DEF NodeStep
<1>4. QED
  BY <1>2, <1>3

(* Every behaviour of any number of nodes, with its elections, lost and    *)
(* reordered packets, torn writes and restarts, is a behaviour of a        *)
(* replicated state machine.                                               *)
THEOREM RaftImplementsStateMachine == Spec => ImplementsStateMachine
<1>1. Init => RSM!Init
  BY InitRefines
<1>2. SafeInv /\ SafeInv' /\ AnswerInv /\ AnswerInv' /\ [Next]_vars => [RSM!Next]_(RSM!vars)
  BY NextRefines
<1>3. QED
  BY <1>1, <1>2, SafeAnswerInvariant, PTL DEF Spec, RSM!Spec, ImplementsStateMachine
=============================================================================
