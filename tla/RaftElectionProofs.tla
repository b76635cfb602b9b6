------------------------- MODULE RaftElectionProofs -------------------------
(***************************************************************************)
(* Type correctness of Raft, with the facts about the network, the indexes *)
(* and the logs that every proof about it uses, and then election safety:  *)
(* at most one leader per term, for every number of nodes, with lost,      *)
(* delayed and reordered packets, restarts and torn writes.                *)
(*                                                                         *)
(* ElectionInv is inductive.  Its steps fall into four groups: steps that  *)
(* touch no vote, steps that make a node a follower (crashes included),    *)
(* the grant of a vote, and the start and the count of an election.        *)
(***************************************************************************)
EXTENDS RaftInv, SequenceTheorems, FiniteSetTheorems, NaturalsInduction, WellFoundedInduction,
        TLAPS

-----------------------------------------------------------------------------
(* The network *)

(* Sending at most one copy of each packet of out. *)
LEMMA DeliverBag ==
    ASSUME NEW bag, IsABag(bag), NEW out, Deliver(bag, out)
    PROVE  /\ IsABag(net')
           /\ BagToSet(net') \subseteq BagToSet(bag) \cup out
           /\ \A x : x \notin out => Copies(x, net') = Copies(x, bag)
           /\ \A x : \/ Copies(x, net') = Copies(x, bag)
                     \/ Copies(x, net') = Copies(x, bag) + 1
BY DEF Deliver, IsABag, BagToSet, Copies, BagIn, SetToBag, (+)

(* Receiving one copy of m. *)
LEMMA RemoveOne ==
    ASSUME NEW bag, IsABag(bag), NEW m \in BagToSet(bag)
    PROVE  /\ IsABag(bag (-) SetToBag({m}))
           /\ BagToSet(bag (-) SetToBag({m})) \subseteq BagToSet(bag)
           /\ Copies(m, bag (-) SetToBag({m})) = Copies(m, bag) - 1
           /\ \A x : x # m => Copies(x, bag (-) SetToBag({m})) = Copies(x, bag)
BY DEF IsABag, BagToSet, Copies, BagIn, SetToBag, (-)

(* A bag holds what it has copies of. *)
LEMMA CopiesType ==
    ASSUME NEW bag, IsABag(bag)
    PROVE  \A x : Copies(x, bag) \in Nat /\ (BagIn(x, bag) <=> Copies(x, bag) > 0)
BY DEF IsABag, Copies, BagIn, BagToSet

(* The packets in flight stay packets. *)
LEMMA SendType ==
    ASSUME IsABag(net), BagToSet(net) \subseteq Packet,
           NEW out \in SUBSET Packet, Send(out)
    PROVE  IsABag(net') /\ BagToSet(net') \subseteq Packet
BY DeliverBag DEF Send

LEMMA ConsumeType ==
    ASSUME IsABag(net), BagToSet(net) \subseteq Packet, NEW m \in BagToSet(net),
           NEW out \in SUBSET Packet, Consume(m, out)
    PROVE  IsABag(net') /\ BagToSet(net') \subseteq Packet
<1> DEFINE rest == net (-) SetToBag({m})
<1>1. IsABag(rest) /\ BagToSet(rest) \subseteq Packet
  BY RemoveOne
<1>2. Deliver(rest, out)
  BY DEF Consume
<1> HIDE DEF rest
<1>3. QED
  BY <1>1, <1>2, DeliverBag

-----------------------------------------------------------------------------
(* Indexes and logs *)

LEMMA SmallestExists ==
    ASSUME NEW T \in SUBSET Nat, T # {}
    PROVE  \E x \in T : \A y \in T : x <= y
<1>1. IsWellFoundedOn(OpToRel(<, Nat), Nat)
  BY NatLessThanWellFounded
<1>2. PICK x \in T : \A y \in T : ~ (<<y, x>> \in OpToRel(<, Nat))
  BY <1>1, WFMin
<1>3. \A a, b \in Nat : a < b => <<a, b>> \in OpToRel(<, Nat)
  BY Zenon DEF OpToRel
<1>4. \A y \in T : ~ (y < x)
  BY <1>2, <1>3, Zenon
<1>5. QED
  BY <1>4

LEMMA WireOfIndex ==
    ASSUME NEW k \in Index
    PROVE  U32(k) \in Wire /\ I32(U32(k)) = k
BY WordAssumption DEF Index, Wire, U32, I32

LEMMA IndexOfWire ==
    ASSUME NEW w \in Wire
    PROVE  I32(w) \in Index /\ U32(I32(w)) = w
BY WordAssumption DEF Index, Wire, U32, I32

LEMMA LogTermType ==
    ASSUME NEW l \in LogType, NEW k \in Int
    PROVE  raft_get_log_term(l, k) \in Term
<1>1. CASE k < 0 \/ k >= Len(l)
  BY <1>1, BoundAssumption DEF raft_get_log_term, Term
<1>2. CASE k \in 0 .. Len(l) - 1
  <2>1. l[k + 1] \in Entry
    BY <1>2 DEF LogType
  <2>2. QED
    BY <1>2, <2>1 DEF raft_get_log_term, Entry
<1>3. QED
  BY <1>1, <1>2 DEF LogType

LEMMA SubSeqType ==
    ASSUME NEW S, NEW l \in Seq(S), NEW a \in Int, NEW b \in Int,
           a >= 1, b <= Len(l)
    PROVE  /\ SubSeq(l, a, b) \in Seq(S)
           /\ Len(SubSeq(l, a, b)) = IF a <= b THEN b - a + 1 ELSE 0
           /\ \A k \in 1 .. b - a + 1 : SubSeq(l, a, b)[k] = l[a + k - 1]
OBVIOUS

LEMMA EntriesFromType ==
    ASSUME NEW l \in LogType, NEW k \in 0 .. MaxLogLen
    PROVE  EntriesFrom(l, k) \in Seq(Entry) /\ k + Len(EntriesFrom(l, k)) <= MaxLogLen
BY SubSeqType, CapacityAssumption, WordAssumption DEF EntriesFrom, LogType

LEMMA AppendEntriesToType ==
    ASSUME TypeOK, NEW i \in Server, NEW j \in Server, NEW l \in LogType,
           NEW next \in [Server -> 0 .. MaxLogLen],
           NEW es \in Seq(Entry), next[j] + Len(es) <= MaxLogLen
    PROVE  AppendEntriesTo(i, j, l, next, es) \in Packet
<1>1. next[j] - 1 \in Index /\ I32(next[j]) = next[j] /\ next[j] \in Int
  BY WordAssumption DEF Index, I32
<1>2. raft_get_log_term(l, I32(next[j]) - 1) \in Term
  BY <1>1, LogTermType
<1>3. U32(next[j] - 1) \in Wire /\ I32(U32(next[j] - 1)) = next[j] - 1
  BY <1>1, WireOfIndex
<1>4. currentTerm[i] \in Term /\ commitIndex[i] \in Index
  BY DEF TypeOK
<1>5. AppendEntriesTo(i, j, l, next, es) \in append_entries_req_t
  BY <1>1, <1>2, <1>3, <1>4, WordAssumption DEF AppendEntriesTo, append_entries_req_t
<1>6. QED
  BY <1>5 DEF Packet

LEMMA ResponseTypes ==
    ASSUME NEW i \in Server, NEW j \in Server, NEW t \in Term, NEW w \in Wire,
           NEW b \in BOOLEAN
    PROVE  /\ send_append_entries_response(i, j, t, w, b) \in Packet
           /\ send_append_entries_response(i, j, t, 0, b) \in Packet
           /\ send_request_vote_response(i, j, t, b) \in Packet
BY WordAssumption DEF send_append_entries_response, send_request_vote_response,
    Packet, append_entries_res_t, request_vote_res_t, Wire

LEMMA BallotType ==
    ASSUME TypeOK, NEW i \in Server, NEW t \in Term
    PROVE  broadcast_request_vote(i, t) \subseteq request_vote_req_t
<1>1. log[i] \in LogType
  BY DEF TypeOK
<1>2. Len(log[i]) - 1 \in Index /\ Len(log[i]) - 1 \in Int
  BY <1>1, WordAssumption DEF LogType, Index
<1>3. QED
  BY <1>1, <1>2, WireOfIndex, LogTermType DEF broadcast_request_vote, request_vote_req_t

LEMMA HeartbeatType ==
    ASSUME TypeOK, NEW i \in Server, NEW next \in [Server -> 0 .. MaxLogLen]
    PROVE  send_heartbeats(i, next) \subseteq Packet
<1>1. log[i] \in LogType /\ <<>> \in Seq(Entry) /\ Len(<<>>) = 0
  BY DEF TypeOK
<1>2. \A j \in Server : next[j] + Len(<<>>) <= MaxLogLen
  BY <1>1
<1>3. ASSUME NEW j \in Server
      PROVE  AppendEntriesTo(i, j, log[i], next, <<>>) \in Packet
  BY <1>1, <1>2, AppendEntriesToType
<1>4. QED
  BY <1>3 DEF send_heartbeats

LEMMA BroadcastType ==
    ASSUME TypeOK, NEW i \in Server, NEW l \in LogType
    PROVE  broadcast_append_entries(i, l) \subseteq Packet
<1>1. nextIndex[i] \in [Server -> 0 .. MaxLogLen]
  BY DEF TypeOK
<1>2. \A j \in Server : I32(nextIndex[i][j]) = nextIndex[i][j]
  BY <1>1, WordAssumption DEF I32
<1>3. ASSUME NEW j \in Server
      PROVE  AppendEntriesTo(i, j, l, nextIndex[i], EntriesFrom(l, I32(nextIndex[i][j]))) \in Packet
  <2>1. nextIndex[i][j] \in 0 .. MaxLogLen
    BY <1>1
  <2>2. /\ EntriesFrom(l, nextIndex[i][j]) \in Seq(Entry)
        /\ nextIndex[i][j] + Len(EntriesFrom(l, nextIndex[i][j])) <= MaxLogLen
    BY <2>1, EntriesFromType
  <2>3. AppendEntriesTo(i, j, l, nextIndex[i], EntriesFrom(l, nextIndex[i][j])) \in Packet
    BY <1>1, <2>2, AppendEntriesToType
  <2>4. QED
    BY <1>2, <2>3
<1>4. QED
  BY <1>3 DEF broadcast_append_entries

LEMMA PacketKind ==
    ASSUME NEW m \in Packet
    PROVE  /\ m.src \in Server /\ m.dst \in Server /\ m.term \in Term
           /\ m.code = "RPC_CALL_APPEND_ENT" => m \in append_entries_req_t
           /\ m.code = "RPC_RESP_APPEND_ENT" => m \in append_entries_res_t
           /\ m.code = "RPC_CALL_REQ_VOTE" => m \in request_vote_req_t
           /\ m.code = "RPC_RESP_REQ_VOTE" => m \in request_vote_res_t
BY DEF Packet, append_entries_req_t, append_entries_res_t, request_vote_req_t,
    request_vote_res_t

(* The first entry that does not fit exists and lies at most one past the log. *)
LEMMA FirstMisfit ==
    ASSUME NEW l \in LogType, NEW next \in 0 .. Len(l), NEW es \in Seq(Entry),
           Misfits(l, next, es) # {}
    PROVE  LET k == Min(Misfits(l, next, es))
           IN  /\ k \in 1 .. Len(es)
               /\ next + k - 1 <= Len(l)
               /\ k \in Misfits(l, next, es)
               /\ \A n \in Misfits(l, next, es) : k <= n
<1> DEFINE T == Misfits(l, next, es)
           k == Min(T)
<1>1. T \in SUBSET Nat /\ T \subseteq 1 .. Len(es)
  BY DEF Misfits
<1>2. k \in T /\ \A n \in T : k <= n
  <2>1. \E x \in T : \A y \in T : x <= y
    BY <1>1, SmallestExists
  <2>2. QED
    BY <2>1 DEF Min
<1>3. CASE k = 1
  BY <1>1, <1>2, <1>3 DEF LogType
<1>4. CASE k # 1
  <2>1. k - 1 \in 1 .. Len(es) /\ k - 1 \notin T
    BY <1>1, <1>2, <1>4
  <2>2. next + (k - 1) <= Len(l)
    BY <2>1 DEF Misfits, LogType
  <2>3. QED
    BY <1>1, <1>2, <2>2 DEF LogType
<1>5. QED
  BY <1>3, <1>4

LEMMA MergeType ==
    ASSUME NEW l \in LogType, NEW next \in 0 .. Len(l), NEW es \in Seq(Entry),
           next + Len(es) <= MaxLogLen
    PROVE  /\ Merge(l, next, es) \in LogType
           /\ PartialMerges(l, next, es) \subseteq LogType
<1> DEFINE k == Min(Misfits(l, next, es))
           keep == SubSeq(l, 1, next + k - 1)
           new == SubSeq(es, k, Len(es))
<1>1. CASE Misfits(l, next, es) = {}
  BY <1>1 DEF Merge, PartialMerges
<1>2. CASE Misfits(l, next, es) # {}
  <2>1. k \in 1 .. Len(es) /\ next + k - 1 <= Len(l)
    BY <1>2, FirstMisfit
  <2>2. l \in Seq(Entry) /\ Len(l) \in Nat /\ Len(es) \in Nat
    BY DEF LogType
  <2>3. keep \in Seq(Entry) /\ Len(keep) = next + k - 1
    BY <2>1, <2>2, SubSeqType
  <2>4. new \in Seq(Entry) /\ Len(new) = Len(es) - k + 1
    BY <2>1, <2>2, SubSeqType
  <2>5. keep \o new \in Seq(Entry) /\ Len(keep \o new) = next + Len(es)
    <3> HIDE DEF keep, new, k
    <3>1. keep \o new \in Seq(Entry) /\ Len(keep \o new) = Len(keep) + Len(new)
      BY <2>3, <2>4, ConcatProperties
    <3>2. QED
      BY <2>1, <2>2, <2>3, <2>4, <3>1
  <2>6. Merge(l, next, es) = keep \o new
    BY <1>2 DEF Merge
  <2>7. Merge(l, next, es) \in LogType
    BY <2>5, <2>6 DEF LogType
  <2>8. ASSUME NEW n \in next + k - 1 .. Len(Merge(l, next, es)) - 1
        PROVE  SubSeq(Merge(l, next, es), 1, n) \in LogType
    <3>1. Merge(l, next, es) \in Seq(Entry) /\ Len(Merge(l, next, es)) <= MaxLogLen
          /\ Len(Merge(l, next, es)) \in Nat
      BY <2>7 DEF LogType
    <3>2. n \in Int /\ n >= 0 /\ n <= Len(Merge(l, next, es))
      BY <2>1, <2>2, <2>8, <3>1
    <3>3. /\ SubSeq(Merge(l, next, es), 1, n) \in Seq(Entry)
          /\ Len(SubSeq(Merge(l, next, es), 1, n)) = n
      <4> HIDE DEF k
      <4> QED BY <3>1, <3>2, SubSeqType
    <3>4. QED
      BY <3>1, <3>2, <3>3, WordAssumption DEF LogType
  <2>9. QED
    BY <1>2, <2>7, <2>8 DEF PartialMerges
<1>3. QED
  BY <1>1, <1>2

LEMMA LargestExists ==
    ASSUME NEW b \in Int, NEW T, T \subseteq Int, T # {}, \A x \in T : x <= b
    PROVE  Max(T) \in T /\ \A y \in T : y <= Max(T)
<1> DEFINE D == {b - x : x \in T}
<1>1. D \in SUBSET Nat /\ D # {}
  <2>1. \A x \in T : b - x \in Nat
    OBVIOUS
  <2>2. QED
    BY <2>1
<1>2. PICK d \in D : \A e \in D : d <= e
  BY <1>1, SmallestExists
<1>3. PICK x \in T : d = b - x
  BY <1>2
<1>4. \A y \in T : x >= y
  <2> TAKE y \in T
  <2>1. d <= b - y
    BY <1>2
  <2>2. x \in Int /\ y \in Int
    OBVIOUS
  <2>3. QED
    BY <1>3, <2>1, <2>2
<1>5. /\ (CHOOSE z \in T : \A y \in T : z >= y) \in T
      /\ \A y \in T : (CHOOSE z \in T : \A w \in T : z >= w) >= y
  BY <1>4
<1>6. QED
  BY <1>5 DEF Max

LEMMA NewCommitType ==
    ASSUME TypeOK, NEW i \in Server, NEW match \in [Server -> Index]
    PROVE  /\ NewCommit(i, match) \in Index
           /\ NewCommit(i, match) # commitIndex[i] =>
                 /\ NewCommit(i, match) \in Replicated(i, match)
                 /\ NewCommit(i, match) < Len(log[i])
<1>1. log[i] \in LogType /\ commitIndex[i] \in Index
  BY DEF TypeOK
<1>2. /\ Len(log[i]) \in Nat /\ Len(log[i]) <= MaxLogLen
      /\ commitIndex[i] \in Int /\ commitIndex[i] >= -1
  BY <1>1 DEF LogType, Index
<1>3. CASE Replicated(i, match) = {}
  BY <1>1, <1>3 DEF NewCommit
<1>4. CASE Replicated(i, match) # {}
  <2>1. /\ Replicated(i, match) \subseteq Int
        /\ \A n \in Replicated(i, match) : n <= Len(log[i]) - 1
        /\ \A n \in Replicated(i, match) : n \in Index
    BY <1>2, WordAssumption DEF Replicated, Index
  <2>2. Len(log[i]) - 1 \in Int
    BY <1>2
  <2>3. Max(Replicated(i, match)) \in Replicated(i, match)
    BY <1>4, <2>1, <2>2, LargestExists
  <2>4. NewCommit(i, match) = Max(Replicated(i, match))
    BY <1>4 DEF NewCommit
  <2>5. QED
    BY <1>2, <2>1, <2>3, <2>4
<1>5. QED
  BY <1>3, <1>4

LEMMA ChooseType ==
    ASSUME TypeOK, NEW i \in Server, NEW c \in Index,
           c # commitIndex[i] => c < Len(log[i])
    PROVE  Choose(i, c) \in Seq([entry : Entry, at : Term])
<1> DEFINE E == [entry : Entry, at : Term]
           n == IF c < Len(chosen) THEN Len(chosen) ELSE c + 1
           g(k) == IF k > Len(chosen) THEN [entry |-> log[i][k], at |-> currentTerm[i]]
                   ELSE IF k <= c + 1 /\ currentTerm[i] < chosen[k].at
                   THEN [chosen[k] EXCEPT !.at = currentTerm[i]]
                   ELSE chosen[k]
           f == [k \in 1 .. n |-> g(k)]
<1>1. chosen \in Seq(E) /\ log[i] \in LogType /\ currentTerm[i] \in Term
  BY DEF TypeOK
<1>2. CASE c = commitIndex[i]
  BY <1>1, <1>2 DEF Choose
<1>3. CASE c # commitIndex[i]
  <2>1. c < Len(log[i]) /\ c \in Int /\ c >= -1 /\ Len(chosen) \in Nat
    BY <1>1, <1>3 DEF Index
  <2>2. n \in Nat
    BY <2>1
  <2>3. ASSUME NEW k \in 1 .. n PROVE f[k] \in E
    <3>1. CASE k <= Len(chosen)
      <4>1. k \in 1 .. Len(chosen)
        BY <2>1, <2>2, <3>1
      <4>2. chosen[k] \in E
        <5> HIDE DEF E
        <5> QED BY <1>1, <4>1
      <4>3. [chosen[k] EXCEPT !.at = currentTerm[i]] \in E
        BY <1>1, <4>2
      <4>4. f[k] = chosen[k] \/ f[k] = [chosen[k] EXCEPT !.at = currentTerm[i]]
        BY <2>1, <2>3, <3>1
      <4>5. QED
        BY <4>2, <4>3, <4>4
    <3>2. CASE k > Len(chosen)
      <4>1. k \in 1 .. Len(log[i])
        BY <1>1, <2>1, <2>3, <3>2 DEF LogType
      <4>2. log[i][k] \in Entry
        BY <1>1, <4>1 DEF LogType
      <4>3. f[k] = [entry |-> log[i][k], at |-> currentTerm[i]]
        BY <2>1, <3>2
      <4>4. QED
        BY <1>1, <4>2, <4>3
    <3>3. QED
      BY <2>1, <2>2, <3>1, <3>2
  <2>4. f \in Seq(E)
    <3>1. \A k \in 1 .. n : g(k) \in E
      BY <2>3
    <3> HIDE DEF n, E, g
    <3>2. QED
      BY <2>2, <3>1
  <2>5. QED
    BY <1>3, <2>4 DEF Choose
<1>4. QED
  BY <1>2, <1>3

-----------------------------------------------------------------------------
(* The steps *)

LEMMA StepDownType ==
    ASSUME TypeOK, NEW i \in Server, NEW t \in Term, NEW leader \in Server,
           StepDown(i, t, leader)
    PROVE  /\ currentTerm' \in [Server -> Term]
           /\ role' \in [Server -> Role]
           /\ leaderId' \in [Server -> Server \cup {Nil}]
           /\ votesReceived' \in [Server -> Nat]
           /\ voters' \in [Server -> SUBSET Server]
BY DEF TypeOK, StepDown, Role

LEMMA BecomeFollowerType ==
    ASSUME TypeOK, NEW i \in Server, NEW t \in Term, NEW leader \in Server,
           become_follower(i, t, leader)
    PROVE  /\ currentTerm' \in [Server -> Term]
           /\ votedFor' \in [Server -> Server \cup {Nil}]
           /\ role' \in [Server -> Role]
           /\ leaderId' \in [Server -> Server \cup {Nil}]
           /\ votesReceived' \in [Server -> Nat]
           /\ voters' \in [Server -> SUBSET Server]
<1>1. StepDown(i, t, leader)
  BY DEF become_follower
<1>2. votedFor' \in [Server -> Server \cup {Nil}]
  BY DEF TypeOK, become_follower
<1>3. QED
  BY <1>1, <1>2, StepDownType

LEMMA RecogniseType ==
    ASSUME TypeOK, NEW i \in Server, NEW m \in Packet, RecogniseLeader(i, m)
    PROVE  /\ currentTerm' \in [Server -> Term]
           /\ votedFor' \in [Server -> Server \cup {Nil}]
           /\ role' \in [Server -> Role]
           /\ leaderId' \in [Server -> Server \cup {Nil}]
           /\ votesReceived' \in [Server -> Nat]
           /\ voters' \in [Server -> SUBSET Server]
<1>1. m.term \in Term /\ m.src \in Server
  BY PacketKind
<1>2. CASE m.term > currentTerm[i] \/ role[i] = "CANDIDATE"
  BY <1>1, <1>2, BecomeFollowerType DEF RecogniseLeader
<1>3. CASE ~ (m.term > currentTerm[i] \/ role[i] = "CANDIDATE")
  BY <1>1, <1>3 DEF RecogniseLeader, TypeOK
<1>4. QED
  BY <1>2, <1>3

LEMMA ApplyType ==
    ASSUME TypeOK, NEW i \in Server, NEW r, NEW l, NEW c \in Index,
           apply_to_state_machine(i, r, l, c)
    PROVE  /\ lastApplied' \in [Server -> Index]
           /\ outstanding' \in [Server -> SUBSET Request]
           /\ client' \in [Request -> {"idle", "accepted", "acked"}]
BY DEF TypeOK, apply_to_state_machine

LEMMA CreateType ==
    ASSUME TypeOK, NEW i \in Server, raft_create(i),
           currentTerm' \in [Server -> Term],
           votedFor' \in [Server -> Server \cup {Nil}],
           log' \in [Server -> LogType]
    PROVE  TypeOK'
<1>1. role' \in [Server -> Role] /\ leaderId' \in [Server -> Server \cup {Nil}]
  BY DEF TypeOK, raft_create, Role
<1>2. votesReceived' \in [Server -> Nat] /\ voters' \in [Server -> SUBSET Server]
  BY DEF TypeOK, raft_create
<1>3. commitIndex' \in [Server -> Index] /\ lastApplied' \in [Server -> Index]
  BY WordAssumption DEF TypeOK, raft_create, Index
<1>4. outstanding' \in [Server -> SUBSET Request] /\ restarts' \in Nat
  BY DEF TypeOK, raft_create
<1>5. IsABag(net') /\ BagToSet(net') \subseteq Packet
  BY DEF TypeOK, raft_create, IsABag, BagToSet
<1>6. UNCHANGED <<nextIndex, matchIndex, client, elected, chosen, leaderLog>>
  BY DEF raft_create, leaderVars, history
<1>7. QED
  BY <1>1, <1>2, <1>3, <1>4, <1>5, <1>6 DEF TypeOK

(* AppendEntries request *)

LEMMA PrevMatchesNext ==
    ASSUME NEW l \in LogType, NEW m \in append_entries_req_t, PrevMatches(l, m)
    PROVE  /\ I32(m.prev_log_idx) + 1 \in 0 .. Len(l)
           /\ m.entries \in Seq(Entry)
           /\ I32(m.prev_log_idx) + 1 + Len(m.entries) <= MaxLogLen
<1>1. /\ m.prev_log_idx \in Wire /\ m.entries \in Seq(Entry)
      /\ I32(m.prev_log_idx) + Len(m.entries) < MaxLogLen
  BY DEF append_entries_req_t
<1>2. I32(m.prev_log_idx) \in Index
  BY <1>1, IndexOfWire
<1>3. I32(m.prev_log_idx) < Len(l) /\ Len(l) \in Nat /\ Len(m.entries) \in Nat
  BY <1>1 DEF PrevMatches, LogType
<1>4. QED
  BY <1>1, <1>2, <1>3, WordAssumption DEF Index

LEMMA LastNewType ==
    ASSUME NEW m \in append_entries_req_t
    PROVE  /\ LastNew(m) \in Wire
           /\ I32(LastNew(m)) = I32(m.prev_log_idx) + Len(m.entries)
           /\ FollowerCommit(m) \in Index
<1>1. /\ m.prev_log_idx \in Wire /\ Len(m.entries) \in Nat /\ m.leader_commit \in Index
      /\ I32(m.prev_log_idx) + Len(m.entries) < MaxLogLen
  BY DEF append_entries_req_t
<1>2. LastNew(m) \in Wire /\ I32(LastNew(m)) = I32(m.prev_log_idx) + Len(m.entries)
  <2> DEFINE p == m.prev_log_idx
             n == Len(m.entries)
  <2>1. p \in Wire /\ n \in Nat /\ I32(p) + n < MaxLogLen
    BY <1>1
  <2> HIDE DEF p, n
  <2>2. U32(p + n) \in Wire /\ I32(U32(p + n)) = I32(p) + n
    BY <2>1, WordAssumption DEF U32, I32, Wire
  <2>3. QED
    BY <2>2 DEF LastNew, p, n
<1>3. FollowerCommit(m) \in Index
  BY <1>1, <1>2, IndexOfWire DEF FollowerCommit
<1>4. QED
  BY <1>2, <1>3

LEMMA AppendRequestType ==
    ASSUME TypeOK, NEW i \in Server, NEW m \in BagToSet(net),
           handle_append_entries_request(i, m)
    PROVE  TypeOK'
<1>1. m \in Packet /\ m \in append_entries_req_t /\ m.src \in Server /\ currentTerm[i] \in Term
  BY PacketKind DEF TypeOK, handle_append_entries_request
<1>2. send_append_entries_response(i, m.src, currentTerm[i], 0, FALSE) \in Packet
  BY <1>1, LastNewType, ResponseTypes
<1>3. send_append_entries_response(i, m.src, currentTerm[i], LastNew(m), TRUE) \in Packet
  BY <1>1, LastNewType, ResponseTypes
<1>4. IsABag(net) /\ BagToSet(net) \subseteq Packet
  BY DEF TypeOK
<1>5. CASE RejectStaleAppend(i, m)
  <2>1. IsABag(net') /\ BagToSet(net') \subseteq Packet
    BY <1>2, <1>4, <1>5, ConsumeType DEF RejectStaleAppend
  <2>2. QED
    BY <1>5, <2>1 DEF RejectStaleAppend, TypeOK, durable, electionVars, leaderVars,
        commitVars, history
<1>6. CASE RejectMismatch(i, m)
  <2>1. IsABag(net') /\ BagToSet(net') \subseteq Packet
    BY <1>2, <1>4, <1>6, ConsumeType DEF RejectMismatch
  <2>2. QED
    BY <1>1, <1>6, <2>1, RecogniseType DEF RejectMismatch, TypeOK, leaderVars,
        commitVars, history
<1>7. CASE AppendNew(i, m)
  <2>1. IsABag(net') /\ BagToSet(net') \subseteq Packet
    BY <1>3, <1>4, <1>7, ConsumeType DEF AppendNew
  <2>2. log' \in [Server -> LogType]
    <3>1. log[i] \in LogType
      BY DEF TypeOK
    <3>2. Merge(log[i], I32(m.prev_log_idx) + 1, m.entries) \in LogType
      BY <1>1, <1>7, <3>1, PrevMatchesNext, MergeType DEF AppendNew
    <3>3. QED
      BY <1>7, <3>2 DEF AppendNew, TypeOK
  <2>3. /\ commitIndex' \in [Server -> Index] /\ lastApplied' \in [Server -> Index]
        /\ outstanding' \in [Server -> SUBSET Request]
        /\ client' \in [Request -> {"idle", "accepted", "acked"}]
    <3>1. CASE m.leader_commit > commitIndex[i]
      <4>1. FollowerCommit(m) \in Index
        BY <1>1, LastNewType
      <4>2. apply_to_state_machine(i, role'[i], log'[i], FollowerCommit(m))
        BY <1>7, <3>1 DEF AppendNew
      <4>3. commitIndex' \in [Server -> Index]
        BY <1>7, <3>1, <4>1 DEF AppendNew, TypeOK
      <4>4. QED
        BY <4>1, <4>2, <4>3, ApplyType
    <3>2. CASE ~ (m.leader_commit > commitIndex[i])
      BY <1>7, <3>2 DEF AppendNew, TypeOK, commitVars
    <3>3. QED
      BY <3>1, <3>2
  <2>4. UNCHANGED <<nextIndex, matchIndex, restarts, elected, chosen, leaderLog>>
    BY <1>7 DEF AppendNew, leaderVars, history
  <2>5. RecogniseLeader(i, m)
    BY <1>7 DEF AppendNew
  <2>6. QED
    BY <1>1, <2>1, <2>2, <2>3, <2>4, <2>5, RecogniseType DEF TypeOK
<1>8. QED
  BY <1>5, <1>6, <1>7 DEF handle_append_entries_request

(* Responses and ballots *)

LEMMA DropPacketType ==
    ASSUME TypeOK, NEW m \in BagToSet(net), DropPacket(m)
    PROVE  TypeOK'
<1>1. IsABag(net') /\ BagToSet(net') \subseteq Packet
  BY ConsumeType DEF DropPacket, TypeOK
<1>2. QED
  BY <1>1 DEF DropPacket, TypeOK, durable, electionVars, leaderVars, commitVars, history

LEMMA StepDownOnResponseType ==
    ASSUME TypeOK, NEW i \in Server, NEW m \in BagToSet(net), StepDownOnResponse(i, m)
    PROVE  TypeOK'
<1>1. IsABag(net') /\ BagToSet(net') \subseteq Packet
  BY ConsumeType DEF StepDownOnResponse, TypeOK
<1>2. m.term \in Term /\ m.src \in Server
  BY PacketKind DEF TypeOK
<1>3. become_follower(i, m.term, m.src)
  BY DEF StepDownOnResponse
<1>4. QED
  BY <1>1, <1>2, <1>3, BecomeFollowerType
     DEF StepDownOnResponse, TypeOK, leaderVars, commitVars, history

LEMMA LogLenType ==
    ASSUME TypeOK, NEW i \in Server
    PROVE  U32(Len(log[i])) \in 0 .. MaxLogLen
<1>1. log[i] \in LogType
  BY DEF TypeOK
<1>2. QED
  BY <1>1, WordAssumption DEF LogType, U32

LEMMA AppendResponseType ==
    ASSUME TypeOK, NEW i \in Server, NEW m \in BagToSet(net),
           handle_append_entries_response(i, m)
    PROVE  TypeOK'
<1>1. m \in append_entries_res_t /\ m.src \in Server
  BY PacketKind DEF TypeOK, handle_append_entries_response
<1>2. ASSUME AppendSucceeded(i, m) PROVE TypeOK'
  <2> DEFINE match == [matchIndex[i] EXCEPT ![m.src] = I32(m.new_match_index)]
             commit == NewCommit(i, match)
  <2>1. I32(m.new_match_index) \in Index
    BY <1>1, IndexOfWire DEF append_entries_res_t
  <2>2. match \in [Server -> Index]
    BY <1>1, <2>1 DEF TypeOK
  <2>3. commit \in Index /\ (commit # commitIndex[i] => commit < Len(log[i]))
    <3> HIDE DEF match
    <3> QED BY <2>2, NewCommitType
  <2>4. /\ matchIndex' = [matchIndex EXCEPT ![i] = match]
        /\ nextIndex' = [nextIndex EXCEPT ![i][m.src] = U32(Len(log[i]))]
        /\ commitIndex' = [commitIndex EXCEPT ![i] = commit]
        /\ chosen' = Choose(i, commit)
        /\ apply_to_state_machine(i, "LEADER", log[i], commit)
        /\ Consume(m, {})
        /\ UNCHANGED <<durable, electionVars, restarts, elected, leaderLog>>
    BY <1>2 DEF AppendSucceeded
  <2> HIDE DEF match, commit
  <2>5. matchIndex' \in [Server -> [Server -> Index]]
    BY <2>2, <2>4 DEF TypeOK
  <2>6. nextIndex' \in [Server -> [Server -> 0 .. MaxLogLen]]
    BY <1>1, <2>4, LogLenType DEF TypeOK
  <2>7. commitIndex' \in [Server -> Index]
    BY <2>3, <2>4 DEF TypeOK
  <2>8. chosen' \in Seq([entry : Entry, at : Term])
    BY <2>3, <2>4, ChooseType
  <2>9. /\ lastApplied' \in [Server -> Index]
        /\ outstanding' \in [Server -> SUBSET Request]
        /\ client' \in [Request -> {"idle", "accepted", "acked"}]
    BY <2>3, <2>4, ApplyType
  <2>10. IsABag(net') /\ BagToSet(net') \subseteq Packet
    BY <2>4, ConsumeType DEF TypeOK
  <2>11. QED
    BY <2>4, <2>5, <2>6, <2>7, <2>8, <2>9, <2>10 DEF TypeOK, durable, electionVars
<1>3. ASSUME AppendFailed(i, m) PROVE TypeOK'
  <2>1. IsABag(net') /\ BagToSet(net') \subseteq Packet
    BY <1>3, ConsumeType DEF AppendFailed, TypeOK
  <2>2. nextIndex' \in [Server -> [Server -> 0 .. MaxLogLen]]
    BY <1>1, <1>3, WordAssumption DEF AppendFailed, TypeOK
  <2>3. QED
    BY <1>3, <2>1, <2>2 DEF AppendFailed, TypeOK, durable, electionVars, commitVars, history
<1>4. QED
  BY <1>2, <1>3, StepDownOnResponseType, DropPacketType DEF handle_append_entries_response

LEMMA VoteRequestType ==
    ASSUME TypeOK, NEW i \in Server, NEW m \in BagToSet(net),
           handle_request_vote_request(i, m)
    PROVE  TypeOK'
<1>1. m.src \in Server /\ m.term \in Term /\ currentTerm[i] \in Term
  BY PacketKind DEF TypeOK
<1>2. CASE RejectStaleBallot(i, m)
  <2>1. send_request_vote_response(i, m.src, currentTerm[i], FALSE) \in Packet
    BY <1>1 DEF send_request_vote_response, Packet, request_vote_res_t
  <2>2. IsABag(net') /\ BagToSet(net') \subseteq Packet
    BY <1>2, <2>1, ConsumeType DEF RejectStaleBallot, TypeOK
  <2>3. QED
    BY <1>2, <2>2 DEF RejectStaleBallot, TypeOK, durable, electionVars, leaderVars,
        commitVars, history
<1>3. CASE AnswerBallot(i, m)
  <2>1. PICK g \in BOOLEAN, v \in Server \cup {Nil} :
           /\ votedFor' = [votedFor EXCEPT ![i] = v]
           /\ Consume(m, {send_request_vote_response(i, m.src, m.term, g)})
    BY <1>1, <1>3 DEF AnswerBallot, TypeOK
  <2>2. send_request_vote_response(i, m.src, m.term, g) \in Packet
    BY <1>1 DEF send_request_vote_response, Packet, request_vote_res_t
  <2>3. IsABag(net') /\ BagToSet(net') \subseteq Packet
    BY <2>1, <2>2, ConsumeType DEF TypeOK
  <2>4. /\ currentTerm' \in [Server -> Term]
        /\ role' \in [Server -> Role]
        /\ leaderId' \in [Server -> Server \cup {Nil}]
        /\ votesReceived' \in [Server -> Nat]
        /\ voters' \in [Server -> SUBSET Server]
    <3>1. CASE m.term > currentTerm[i]
      BY <1>1, <1>3, <3>1, StepDownType DEF AnswerBallot
    <3>2. CASE ~ (m.term > currentTerm[i])
      BY <1>3, <3>2 DEF AnswerBallot, TypeOK, electionVars
    <3>3. QED
      BY <3>1, <3>2
  <2>5. UNCHANGED <<log, leaderVars, commitVars, restarts, history>>
    BY <1>3 DEF AnswerBallot
  <2>6. votedFor' \in [Server -> Server \cup {Nil}]
    BY <2>1 DEF TypeOK
  <2>7. QED
    BY <2>3, <2>4, <2>5, <2>6 DEF TypeOK, leaderVars, commitVars, history
<1>4. QED
  BY <1>2, <1>3 DEF handle_request_vote_request

LEMMA VoteResponseType ==
    ASSUME TypeOK, NEW i \in Server, NEW m \in BagToSet(net),
           handle_request_vote_response(i, m)
    PROVE  TypeOK'
<1>1. m.src \in Server
  BY PacketKind DEF TypeOK
<1>2. ASSUME CountVote(i, m) PROVE TypeOK'
  <2>1. votesReceived' \in [Server -> Nat] /\ voters' \in [Server -> SUBSET Server]
    BY <1>1, <1>2 DEF CountVote, TypeOK
  <2>2. UNCHANGED <<durable, commitVars, restarts, chosen>> /\ log[i] \in LogType
    BY <1>2 DEF CountVote, TypeOK
  <2>3. CASE Majority(votesReceived[i] + 1)
    <3> DEFINE next == [j \in Server |-> U32(Len(log[i]))]
    <3>1. become_leader(i, m)
      BY <1>2, <2>3 DEF CountVote
    <3>2. next \in [Server -> 0 .. MaxLogLen]
      BY LogLenType
    <3>3. send_heartbeats(i, next) \subseteq Packet
      <4> HIDE DEF next
      <4> QED BY <3>2, HeartbeatType
    <3>4. IsABag(net') /\ BagToSet(net') \subseteq Packet
      BY <3>1, <3>3, ConsumeType DEF become_leader, TypeOK
    <3>5. nextIndex' \in [Server -> [Server -> 0 .. MaxLogLen]]
      BY <3>1, <3>2 DEF become_leader, TypeOK
    <3>6. matchIndex' \in [Server -> [Server -> Index]]
      BY <3>1, WordAssumption DEF become_leader, TypeOK, Index
    <3>7. role' \in [Server -> Role] /\ leaderId' \in [Server -> Server \cup {Nil}]
      BY <3>1 DEF become_leader, TypeOK, Role
    <3>8. elected' \subseteq [term : Term, leader : Server, quorum : SUBSET Server]
      BY <1>1, <3>1 DEF become_leader, TypeOK
    <3>9. leaderLog' \in [Term -> LogType]
      BY <2>2, <3>1 DEF become_leader, TypeOK
    <3>10. QED
      BY <2>1, <2>2, <3>4, <3>5, <3>6, <3>7, <3>8, <3>9 DEF TypeOK, durable, commitVars
  <2>4. CASE ~ Majority(votesReceived[i] + 1)
    <3>1. Consume(m, {}) /\ UNCHANGED <<role, leaderId, leaderVars, elected, leaderLog>>
      BY <1>2, <2>4 DEF CountVote
    <3>2. IsABag(net') /\ BagToSet(net') \subseteq Packet
      BY <3>1, ConsumeType DEF TypeOK
    <3>3. QED
      BY <2>1, <2>2, <3>1, <3>2 DEF TypeOK, durable, commitVars, leaderVars
  <2>5. QED
    BY <2>3, <2>4
<1>3. QED
  BY <1>2, StepDownOnResponseType, DropPacketType DEF handle_request_vote_response

(* Timers, clients and crashes *)

LEMMA StartElectionType ==
    ASSUME TypeOK, NEW i \in Server, start_election(i)
    PROVE  /\ currentTerm' \in [Server -> Term]
           /\ votedFor' \in [Server -> Server \cup {Nil}]
           /\ votesReceived' \in [Server -> Nat]
           /\ voters' \in [Server -> SUBSET Server]
           /\ IsABag(net') /\ BagToSet(net') \subseteq Packet
<1>1. currentTerm[i] + 1 \in Term
  BY BoundAssumption DEF start_election, TypeOK, Term
<1>2. currentTerm' \in [Server -> Term]
  BY <1>1 DEF start_election, TypeOK
<1>3. /\ votedFor' \in [Server -> Server \cup {Nil}]
      /\ votesReceived' \in [Server -> Nat]
      /\ voters' \in [Server -> SUBSET Server]
  BY DEF start_election, TypeOK
<1>4. broadcast_request_vote(i, currentTerm[i] + 1) \subseteq Packet
  BY <1>1, BallotType DEF Packet
<1>5. IsABag(net') /\ BagToSet(net') \subseteq Packet
  BY <1>4, SendType DEF start_election, TypeOK
<1>6. QED
  BY <1>2, <1>3, <1>5

LEMMA TimeoutType ==
    ASSUME TypeOK, NEW i \in Server, raft_handle_timeout(i)
    PROVE  TypeOK'
<1>1. CASE become_candidate(i)
  <2>1. start_election(i)
    BY <1>1 DEF become_candidate
  <2>2. role' \in [Server -> Role] /\ leaderId' \in [Server -> Server \cup {Nil}]
    BY <1>1 DEF become_candidate, TypeOK, Role
  <2>3. QED
    BY <1>1, <2>1, <2>2, StartElectionType
       DEF become_candidate, TypeOK, leaderVars, commitVars, history
<1>2. CASE RetryElection(i)
  BY <1>2, StartElectionType DEF RetryElection, TypeOK, leaderVars, commitVars, history
<1>3. CASE HeartbeatTimeout(i)
  <2>1. nextIndex[i] \in [Server -> 0 .. MaxLogLen]
    BY DEF TypeOK
  <2>2. IsABag(net') /\ BagToSet(net') \subseteq Packet
    BY <1>3, <2>1, HeartbeatType, SendType DEF HeartbeatTimeout, TypeOK
  <2>3. QED
    BY <1>3, <2>2 DEF HeartbeatTimeout, TypeOK, durable, electionVars, leaderVars,
        commitVars, history
<1>4. QED
  BY <1>1, <1>2, <1>3 DEF raft_handle_timeout

LEMMA ProcRequestType ==
    ASSUME TypeOK, NEW i \in Server, NEW r \in Request, handle_proc_request(i, r)
    PROVE  TypeOK'
<1> DEFINE e == [term |-> currentTerm[i], req |-> r]
           l == Append(log[i], e)
<1>1. e \in Entry
  BY DEF TypeOK, Entry
<1>2. l \in LogType
  <2>1. log[i] \in Seq(Entry) /\ Len(log[i]) < MaxLogLen /\ Len(log[i]) \in Nat
    BY DEF TypeOK, LogType, handle_proc_request
  <2> HIDE DEF e
  <2>2. l \in Seq(Entry) /\ Len(l) = Len(log[i]) + 1
    BY <1>1, <2>1
  <2>3. QED
    BY <2>1, <2>2, WordAssumption DEF LogType
<1>3. log' \in [Server -> LogType] /\ leaderLog' \in [Term -> LogType]
  BY <1>2 DEF handle_proc_request, TypeOK
<1>4. broadcast_append_entries(i, l) \subseteq Packet
  <2> HIDE DEF l
  <2> QED BY <1>2, BroadcastType
<1>5. IsABag(net') /\ BagToSet(net') \subseteq Packet
  BY <1>4, SendType DEF handle_proc_request, TypeOK
<1>6. /\ client' \in [Request -> {"idle", "accepted", "acked"}]
      /\ outstanding' \in [Server -> SUBSET Request]
  BY DEF handle_proc_request, TypeOK
<1>7. QED
  BY <1>3, <1>5, <1>6 DEF handle_proc_request, TypeOK, electionVars, leaderVars, history

LEMMA CrashType ==
    ASSUME TypeOK, NEW i \in Server, Crash(i)
    PROVE  TypeOK'
<1>1. CASE Restart(i)
  BY <1>1, CreateType DEF Restart, TypeOK, durable
<1>2. CASE TornElection(i)
  <2>1. currentTerm[i] + 1 \in Term
    BY <1>2, BoundAssumption DEF TornElection, TypeOK, Term
  <2>2. currentTerm' \in [Server -> Term]
    BY <1>2, <2>1 DEF TornElection, TypeOK
  <2>3. QED
    BY <1>2, <2>2, CreateType DEF TornElection, TypeOK
<1>3. ASSUME NEW m \in BagToSet(net), TornStepDown(i, m) PROVE TypeOK'
  <2>1. m.term \in Term
    BY PacketKind DEF TypeOK
  <2>2. currentTerm' \in [Server -> Term] /\ votedFor' \in [Server -> Server \cup {Nil}]
    BY <1>3, <2>1 DEF TornStepDown, TypeOK
  <2>3. QED
    BY <1>3, <2>2, CreateType DEF TornStepDown, TypeOK
<1>4. ASSUME NEW m \in BagToSet(net), TornAppend(i, m) PROVE TypeOK'
  <2>1. m.term \in Term /\ m \in append_entries_req_t
    BY <1>4, PacketKind DEF TypeOK, TornAppend
  <2>2. currentTerm' \in [Server -> Term] /\ votedFor' \in [Server -> Server \cup {Nil}]
    BY <1>4, <2>1 DEF TornAppend, TypeOK
  <2>3. log[i] \in LogType
    BY DEF TypeOK
  <2>4. PartialMerges(log[i], I32(m.prev_log_idx) + 1, m.entries) \subseteq LogType
    BY <1>4, <2>1, <2>3, PrevMatchesNext, MergeType DEF TornAppend
  <2>5. log' \in [Server -> LogType]
    BY <1>4, <2>4 DEF TornAppend, TypeOK
  <2>6. QED
    BY <1>4, <2>2, <2>5, CreateType DEF TornAppend
<1>5. QED
  BY <1>1, <1>2, <1>3, <1>4 DEF Crash

LEMMA InitType == Init => TypeOK
<1> SUFFICES ASSUME Init PROVE TypeOK
  OBVIOUS
<1>1. IsABag(net) /\ BagToSet(net) \subseteq Packet
  BY DEF Init, EmptyBag, SetToBag, IsABag, BagToSet
<1>2. currentTerm \in [Server -> Term]
  BY BoundAssumption DEF Init, Term
<1>3. log \in [Server -> LogType]
  BY WordAssumption DEF Init, LogType
<1>4. commitIndex \in [Server -> Index] /\ lastApplied \in [Server -> Index]
      /\ matchIndex \in [Server -> [Server -> Index]]
  BY WordAssumption DEF Init, Index
<1>5. nextIndex \in [Server -> [Server -> 0 .. MaxLogLen]]
  BY WordAssumption DEF Init
<1>6. leaderLog \in [Term -> LogType]
  BY WordAssumption DEF Init, LogType
<1>7. QED
  BY <1>1, <1>2, <1>3, <1>4, <1>5, <1>6 DEF Init, TypeOK, Role

LEMMA NextType ==
    ASSUME TypeOK, [Next]_vars
    PROVE  TypeOK'
<1>1. CASE UNCHANGED vars
  BY <1>1 DEF vars, durable, electionVars, leaderVars, commitVars, history, TypeOK
<1>2. ASSUME NEW i \in Server, NEW m \in BagToSet(net), raft_handle_rpc(i, m)
      PROVE  TypeOK'
  BY <1>2, AppendRequestType, AppendResponseType, VoteRequestType, VoteResponseType
     DEF raft_handle_rpc
<1>3. QED
  BY <1>1, <1>2, TimeoutType, ProcRequestType, CrashType DEF Next, raft_run

(* Type correctness for every cluster size, request set, capacity and      *)
(* bound: the unsigned index arithmetic of the packets, next_index and     *)
(* match_index never leaves the range of a legal log.                      *)
THEOREM TypeCorrect == Spec => []TypeOK
BY InitType, NextType, PTL DEF Spec

-----------------------------------------------------------------------------
(* Packets that carry votes *)

VotePacket(x) ==
    \/ x.code = "RPC_CALL_REQ_VOTE"
    \/ x.code = "RPC_RESP_REQ_VOTE" /\ x.vote_granted

(* The step sends no ballot and no grant. *)
QuietNet ==
    \A x \in Packet : VotePacket(x) => Copies(x, net') <= Copies(x, net)

LEMMA GrantIsPacket ==
    ASSUME NEW j \in Server, NEW k \in Server, NEW t \in Term
    PROVE  /\ Grant(j, k, t) \in Packet
           /\ VotePacket(Grant(j, k, t))
           /\ Grant(j, k, t).code = "RPC_RESP_REQ_VOTE"
           /\ Grant(j, k, t).src = j /\ Grant(j, k, t).dst = k
           /\ Grant(j, k, t).term = t /\ Grant(j, k, t).vote_granted
BY DEF Grant, send_request_vote_response, VotePacket, Packet, request_vote_res_t

(* A granted vote response is the Grant of its fields. *)
LEMMA GrantOf ==
    ASSUME NEW m \in request_vote_res_t, m.vote_granted
    PROVE  m = Grant(m.src, m.dst, m.term)
BY DEF Grant, send_request_vote_response, request_vote_res_t

LEMMA SendQuiet ==
    ASSUME TypeOK, NEW out, \A x \in out : ~ VotePacket(x), Send(out)
    PROVE  QuietNet
<1>1. \A x : Copies(x, net) \in Nat
  BY CopiesType DEF TypeOK
<1>2. \A x : x \notin out => Copies(x, net') = Copies(x, net)
  BY DeliverBag DEF Send, TypeOK
<1>3. QED
  BY <1>1, <1>2 DEF QuietNet

LEMMA ConsumeQuiet ==
    ASSUME TypeOK, NEW m \in BagToSet(net), NEW out, \A x \in out : ~ VotePacket(x),
           Consume(m, out)
    PROVE  QuietNet
<1> DEFINE rest == net (-) SetToBag({m})
<1>1. \A x : Copies(x, net) \in Nat
  BY CopiesType DEF TypeOK
<1>2. /\ IsABag(rest)
      /\ Copies(m, rest) = Copies(m, net) - 1
      /\ \A x : x # m => Copies(x, rest) = Copies(x, net)
  BY RemoveOne DEF TypeOK
<1>3. Deliver(rest, out)
  BY DEF Consume
<1> HIDE DEF rest
<1>4. \A x : x \notin out => Copies(x, net') = Copies(x, rest)
  BY <1>2, <1>3, DeliverBag
<1>5. \A x : Copies(x, rest) <= Copies(x, net)
  BY <1>1, <1>2
<1>6. QED
  BY <1>4, <1>5 DEF QuietNet

LEMMA CreateQuiet ==
    ASSUME TypeOK, NEW i \in Server, raft_create(i)
    PROVE  QuietNet
<1>1. \A x : Copies(x, net) \in Nat
  BY CopiesType DEF TypeOK
<1>2. \A x : Copies(x, net') = Copies(x, net) \/ Copies(x, net') = 0
  BY DEF raft_create, Copies, BagIn, BagToSet
<1>3. QED
  BY <1>1, <1>2 DEF QuietNet

(* The packets the handlers send, by whether they carry votes. *)
LEMMA NotVotePackets ==
    ASSUME NEW i, NEW j, NEW t, NEW w, NEW b, NEW l, NEW next
    PROVE  /\ ~ VotePacket(send_append_entries_response(i, j, t, w, b))
           /\ ~ VotePacket(send_request_vote_response(i, j, t, FALSE))
           /\ \A x \in send_heartbeats(i, next) : ~ VotePacket(x)
           /\ \A x \in broadcast_append_entries(i, l) : ~ VotePacket(x)
BY DEF VotePacket, send_append_entries_response, send_request_vote_response,
    send_heartbeats, broadcast_append_entries, AppendEntriesTo

LEMMA ReplyQuiet ==
    ASSUME ElectionInv, NEW m \in BagToSet(net), NEW x, ~ VotePacket(x), Consume(m, {x})
    PROVE  QuietNet
<1>1. TypeOK /\ \A y \in {x} : ~ VotePacket(y)
  BY DEF ElectionInv
<1>2. QED
  BY <1>1, ConsumeQuiet, Zenon

LEMMA SilentQuiet ==
    ASSUME ElectionInv, NEW m \in BagToSet(net), Consume(m, {})
    PROVE  QuietNet
<1>1. TypeOK /\ \A y \in {} : ~ VotePacket(y)
  BY DEF ElectionInv
<1>2. QED
  BY <1>1, ConsumeQuiet, Zenon

(* After a quiet step, what is in flight was in flight. *)
LEMMA QuietFacts ==
    ASSUME TypeOK, TypeOK', QuietNet,
           NEW j \in Server, NEW k \in Server, NEW t \in Term
    PROVE  /\ InFlight(Grant(j, k, t))' =>
                 /\ InFlight(Grant(j, k, t))
                 /\ Copies(Grant(j, k, t), net) = 1 => Copies(Grant(j, k, t), net') = 1
           /\ Ballots(j, k, t)' \subseteq Ballots(j, k, t)
           /\ \A m \in Ballots(j, k, t)' : Copies(m, net) = 1 => Copies(m, net') = 1
<1>1. /\ \A x : Copies(x, net) \in Nat /\ (BagIn(x, net) <=> Copies(x, net) > 0)
      /\ \A x : Copies(x, net') \in Nat /\ (BagIn(x, net') <=> Copies(x, net') > 0)
  BY CopiesType DEF TypeOK
<1>2. InFlight(Grant(j, k, t))' =>
                 /\ InFlight(Grant(j, k, t))
                 /\ Copies(Grant(j, k, t), net) = 1 => Copies(Grant(j, k, t), net') = 1
  <2>1. Copies(Grant(j, k, t), net') <= Copies(Grant(j, k, t), net)
    BY GrantIsPacket DEF QuietNet
  <2>2. InFlight(Grant(j, k, t))' <=> BagIn(Grant(j, k, t), net')
    BY DEF InFlight, Grant, send_request_vote_response
  <2>3. QED
    BY <1>1, <2>1, <2>2 DEF InFlight
<1>3. ASSUME NEW m \in Ballots(j, k, t)'
      PROVE  m \in Ballots(j, k, t) /\ (Copies(m, net) = 1 => Copies(m, net') = 1)
  <2>1. /\ m \in BagToSet(net') /\ m.code = "RPC_CALL_REQ_VOTE"
        /\ m.src = k /\ m.dst = j /\ m.term = t
    BY <1>3 DEF Ballots
  <2>2. m \in Packet /\ VotePacket(m) /\ BagIn(m, net')
    BY <2>1 DEF TypeOK, VotePacket, BagIn
  <2>3. Copies(m, net') <= Copies(m, net)
    BY <2>2 DEF QuietNet
  <2>4. BagIn(m, net) /\ (Copies(m, net) = 1 => Copies(m, net') = 1)
    BY <1>1, <2>2, <2>3
  <2>5. QED
    BY <2>1, <2>4 DEF Ballots, BagIn
<1>4. QED
  BY <1>2, <1>3

(* Wins are recorded with their types. *)
LEMMA WinType ==
    ASSUME TypeOK, NEW e \in elected
    PROVE  e.term \in Term /\ e.term \in Int /\ e.leader \in Server
               /\ e.quorum \in SUBSET Server
BY DEF TypeOK, Term

-----------------------------------------------------------------------------
(* Steps that touch no vote *)

LEMMA QuietStep ==
    ASSUME ElectionInv, TypeOK', QuietNet,
           UNCHANGED <<currentTerm, votedFor, role, votesReceived, voters, elected>>
    PROVE  ElectionInv'
<1>1. TypeOK
  BY DEF ElectionInv
<1>2. \A j, k \in Server, t \in Term : Supports(j, k, t)' => Supports(j, k, t)
  BY <1>1, QuietFacts DEF Supports, Standing
<1>3. SupportUnique'
  BY <1>2 DEF SupportUnique, ElectionInv
<1>4. SupportDurable'
  BY <1>2 DEF SupportDurable, ElectionInv
<1>5. OwnVote' /\ ElectedByMajority' /\ CountedOnce'
  BY DEF ElectionInv, OwnVote, ElectedByMajority, CountedOnce
<1>6. OneVoteEach'
  BY <1>1, QuietFacts DEF OneVoteEach, OneVote, ElectionInv, Standing
<1>7. QED
  BY <1>3, <1>4, <1>5, <1>6 DEF ElectionInv

-----------------------------------------------------------------------------
(* Node i is a follower after the step, in term t with vote v.  Its old    *)
(* support must not be contradicted: the term is new, or the vote is kept, *)
(* or i was a candidate, which nobody but itself supported.                *)

LEMMA FollowerStep ==
    ASSUME ElectionInv, TypeOK', QuietNet,
           NEW i \in Server, NEW t \in Term, NEW v \in Server \cup {Nil},
           currentTerm[i] <= t,
           t > currentTerm[i] \/ v = votedFor[i] \/ (role[i] = "CANDIDATE" /\ v = Nil),
           currentTerm' = [currentTerm EXCEPT ![i] = t],
           votedFor' = [votedFor EXCEPT ![i] = v],
           role' = [role EXCEPT ![i] = "FOLLOWER"],
           voters' = [voters EXCEPT ![i] = {}],
           votesReceived' = [votesReceived EXCEPT ![i] = 0],
           elected' = elected
    PROVE  ElectionInv'
<1>1. TypeOK
  BY DEF ElectionInv
<1>2. /\ role'[i] = "FOLLOWER" /\ currentTerm'[i] = t /\ votedFor'[i] = v
      /\ \A k \in Server : k # i =>
            /\ role'[k] = role[k] /\ currentTerm'[k] = currentTerm[k]
            /\ votedFor'[k] = votedFor[k] /\ voters'[k] = voters[k]
            /\ votesReceived'[k] = votesReceived[k]
      /\ currentTerm \in [Server -> Term]
      /\ \A k \in Server : currentTerm[k] \in Int
      /\ t \in Int
  BY <1>1 DEF TypeOK, Term
<1>3. \A k \in Server, n \in Term : Standing(k, n)' =>
          Standing(k, n) /\ k # i /\ voters'[k] = voters[k]
  BY <1>2 DEF Standing
<1>4. \A j, k \in Server, n \in Term : Supports(j, k, n)' => Supports(j, k, n)
  BY <1>1, <1>3, QuietFacts DEF Supports
<1>5. SupportUnique'
  BY <1>4 DEF SupportUnique, ElectionInv
<1>6. SupportDurable'
  <2> SUFFICES ASSUME NEW j \in Server, NEW k \in Server, NEW n \in Term,
                      Supports(j, k, n)'
               PROVE  n <= currentTerm'[j] /\ (n = currentTerm'[j] => votedFor'[j] = k)
    BY DEF SupportDurable
  <2>1. n <= currentTerm[j] /\ (n = currentTerm[j] => votedFor[j] = k) /\ n \in Int
    BY <1>4 DEF ElectionInv, SupportDurable, Term
  <2>2. CASE j # i
    BY <1>2, <2>1, <2>2
  <2>3. CASE j = i /\ (t > currentTerm[i] \/ v = votedFor[i])
    BY <1>2, <2>1, <2>3
  <2>4. CASE j = i /\ t = currentTerm[i] /\ role[i] = "CANDIDATE"
    <3>1. SUFFICES ASSUME n = t PROVE FALSE
      BY <1>2, <2>1, <2>4
    <3>2. k = i
      BY <2>1, <2>4, <3>1 DEF ElectionInv, OwnVote
    <3>3. ~ InFlight(Grant(j, k, n))'
      BY <1>1, <2>4, <3>2, QuietFacts DEF ElectionInv, OneVoteEach, OneVote
    <3>4. ~ Standing(k, n)'
      BY <1>3, <3>2
    <3>5. ~ \E e \in elected : e.term = n /\ e.leader = k
      BY <1>2, <2>4, <3>1, <3>2 DEF ElectionInv, OwnVote
    <3>6. QED
      BY <3>3, <3>4, <3>5 DEF Supports
  <2>5. QED
    BY <1>2, <2>2, <2>3, <2>4
<1>7. OwnVote'
  <2>1. \A k \in Server : k # i =>
           /\ role'[k] # "FOLLOWER" => votedFor'[k] = k
           /\ role'[k] = "CANDIDATE" =>
                 \A e \in elected' : e.leader = k => e.term < currentTerm'[k]
    BY <1>2 DEF ElectionInv, OwnVote
  <2>2. QED
    BY <1>2, <2>1 DEF OwnVote
<1>8. ElectedByMajority'
  <2> SUFFICES ASSUME NEW e \in elected
               PROVE  e.term <= currentTerm'[e.leader] /\ Majority(Cardinality(e.quorum))
    BY DEF ElectedByMajority
  <2>1. e.term \in Int /\ e.leader \in Server
    BY <1>1, WinType
  <2>2. e.term <= currentTerm[e.leader] /\ Majority(Cardinality(e.quorum))
    BY DEF ElectionInv, ElectedByMajority
  <2>3. QED
    BY <1>2, <2>1, <2>2
<1>9. CountedOnce'
  BY <1>2 DEF ElectionInv, CountedOnce
<1>10. OneVoteEach'
  <2> SUFFICES ASSUME NEW j \in Server, NEW k \in Server, NEW n \in Term
               PROVE  OneVote(j, k, n)'
    BY DEF OneVoteEach
  <2>1. n \in Int /\ (n <= currentTerm[k] => n <= currentTerm'[k])
    BY <1>2 DEF Term
  <2>2. Standing(k, n)' => Standing(k, n) /\ voters'[k] = voters[k]
    BY <1>3
  <2>3. ASSUME NEW m \in Ballots(j, k, n)'
        PROVE  /\ j # k /\ n <= currentTerm'[k]
               /\ Copies(m, net') = 1
               /\ Ballots(j, k, n)' = {m}
               /\ ~ InFlight(Grant(j, k, n))'
               /\ Standing(k, n)' => j \notin voters'[k]
    <3>1. m \in Ballots(j, k, n) /\ (Copies(m, net) = 1 => Copies(m, net') = 1)
          /\ Ballots(j, k, n)' \subseteq Ballots(j, k, n)
          /\ (InFlight(Grant(j, k, n))' => InFlight(Grant(j, k, n)))
      BY <1>1, <2>3, QuietFacts
    <3>2. /\ j # k /\ n <= currentTerm[k] /\ Copies(m, net) = 1
          /\ Ballots(j, k, n) = {m} /\ ~ InFlight(Grant(j, k, n))
          /\ Standing(k, n) => j \notin voters[k]
      BY <3>1 DEF ElectionInv, OneVoteEach, OneVote
    <3>3. QED
      BY <2>1, <2>2, <2>3, <3>1, <3>2
  <2>4. ASSUME InFlight(Grant(j, k, n))'
        PROVE  /\ j # k /\ n <= currentTerm'[k]
               /\ Copies(Grant(j, k, n), net') = 1
               /\ Standing(k, n)' => j \notin voters'[k]
    BY <1>1, <2>1, <2>2, <2>4, QuietFacts DEF ElectionInv, OneVoteEach, OneVote
  <2>5. QED
    BY <2>3, <2>4 DEF OneVote, Grant, send_request_vote_response
<1>11. QED
  BY <1>5, <1>6, <1>7, <1>8, <1>9, <1>10 DEF ElectionInv

-----------------------------------------------------------------------------
(* The grant of a vote *)

LEMMA GrantInjective ==
    ASSUME NEW j, NEW k, NEW t, NEW a, NEW b, NEW n, Grant(j, k, t) = Grant(a, b, n)
    PROVE  j = a /\ k = b /\ t = n
BY DEF Grant, send_request_vote_response

(* Consuming a packet m and sending at most out, seen packet by packet. *)
LEMMA ConsumeCopies ==
    ASSUME TypeOK, NEW m \in BagToSet(net), NEW out, Consume(m, out)
    PROVE  /\ m \notin out => Copies(m, net') = Copies(m, net) - 1
           /\ \A x : x # m /\ x \notin out => Copies(x, net') = Copies(x, net)
           /\ \A x : x # m => \/ Copies(x, net') = Copies(x, net)
                              \/ Copies(x, net') = Copies(x, net) + 1
<1> DEFINE rest == net (-) SetToBag({m})
<1>1. /\ IsABag(rest)
      /\ Copies(m, rest) = Copies(m, net) - 1
      /\ \A x : x # m => Copies(x, rest) = Copies(x, net)
  BY RemoveOne DEF TypeOK
<1>2. Deliver(rest, out)
  BY DEF Consume
<1> HIDE DEF rest
<1>3. /\ \A x : x \notin out => Copies(x, net') = Copies(x, rest)
      /\ \A x : \/ Copies(x, net') = Copies(x, rest)
                \/ Copies(x, net') = Copies(x, rest) + 1
  BY <1>1, <1>2, DeliverBag
<1>4. QED
  BY <1>1, <1>3

LEMMA GrantStep ==
    ASSUME ElectionInv, TypeOK', NEW i \in Server,
           NEW m \in BagToSet(net), m.code = "RPC_CALL_REQ_VOTE", m.dst = i,
           m.term >= currentTerm[i],
           m.term = currentTerm[i] => votedFor[i] \in {Nil, m.src},
           Consume(m, {Grant(i, m.src, m.term)}),
           currentTerm' = [currentTerm EXCEPT ![i] = m.term],
           votedFor' = [votedFor EXCEPT ![i] = m.src],
           role' = [role EXCEPT ![i] = "FOLLOWER"],
           \A j \in Server : j # i =>
               voters'[j] = voters[j] /\ votesReceived'[j] = votesReceived[j],
           elected' = elected
    PROVE  ElectionInv'
<1> DEFINE k == m.src
           t == m.term
           g == Grant(i, k, t)
<1>1. TypeOK
  BY DEF ElectionInv
<1>2. k \in Server /\ t \in Term /\ m \in Packet
  BY <1>1, PacketKind DEF TypeOK
<1>3. m \in Ballots(i, k, t)
  BY DEF Ballots
<1>4. /\ i # k /\ t <= currentTerm[k] /\ Copies(m, net) = 1
      /\ Ballots(i, k, t) = {m} /\ ~ InFlight(g)
      /\ Standing(k, t) => i \notin voters[k]
  BY <1>2, <1>3 DEF ElectionInv, OneVoteEach, OneVote
<1>5. g # m /\ g.code = "RPC_RESP_REQ_VOTE"
  BY DEF Grant, send_request_vote_response
<1>6. /\ Copies(m, net') = 0
      /\ \A x : x # m /\ x # g => Copies(x, net') = Copies(x, net)
      /\ Copies(g, net') = Copies(g, net) \/ Copies(g, net') = Copies(g, net) + 1
  BY <1>1, <1>4, <1>5, ConsumeCopies
<1>7. /\ \A x : Copies(x, net) \in Nat /\ (BagIn(x, net) <=> Copies(x, net) > 0)
      /\ \A x : Copies(x, net') \in Nat /\ (BagIn(x, net') <=> Copies(x, net') > 0)
  BY <1>1, CopiesType DEF TypeOK
<1>8. Copies(g, net) = 0
  BY <1>4, <1>7 DEF InFlight
<1>9. /\ role'[i] = "FOLLOWER" /\ currentTerm'[i] = t /\ votedFor'[i] = k
      /\ \A j \in Server : j # i =>
            /\ role'[j] = role[j] /\ currentTerm'[j] = currentTerm[j]
            /\ votedFor'[j] = votedFor[j] /\ voters'[j] = voters[j]
            /\ votesReceived'[j] = votesReceived[j]
      /\ \A j \in Server : currentTerm[j] \in Int
      /\ t \in Int
  <2>1. /\ role' = [role EXCEPT ![i] = "FOLLOWER"] /\ role \in [Server -> Role]
        /\ currentTerm' = [currentTerm EXCEPT ![i] = t] /\ currentTerm \in [Server -> Term]
        /\ votedFor' = [votedFor EXCEPT ![i] = k] /\ votedFor \in [Server -> Server \cup {Nil}]
    BY <1>1 DEF TypeOK
  <2>2. \A j \in Server : j # i => voters'[j] = voters[j] /\ votesReceived'[j] = votesReceived[j]
    BY <1>1 DEF TypeOK
  <2>3. Term \subseteq Int
    BY DEF Term
  <2>4. QED
    BY <1>2, <2>1, <2>2, <2>3
<1> HIDE DEF k, t, g
<1>10. \A a \in Server, n \in Term : Standing(a, n)' =>
          Standing(a, n) /\ a # i /\ voters'[a] = voters[a]
  BY <1>9 DEF Standing
<1>11. ASSUME NEW j \in Server, NEW a \in Server, NEW n \in Term,
              InFlight(Grant(j, a, n))'
       PROVE  \/ InFlight(Grant(j, a, n)) /\ Grant(j, a, n) # g
                   /\ Copies(Grant(j, a, n), net') = Copies(Grant(j, a, n), net)
              \/ j = i /\ a = k /\ n = t /\ Copies(Grant(j, a, n), net') = 1
  <2>1. BagIn(Grant(j, a, n), net')
    BY <1>11 DEF InFlight, Grant, send_request_vote_response
  <2>2. CASE Grant(j, a, n) = g
    <3>1. j = i /\ a = k /\ n = t
      BY <2>2, GrantInjective DEF g
    <3>2. QED
      BY <1>6, <1>7, <1>8, <2>1, <2>2, <3>1
  <2>3. CASE Grant(j, a, n) # g
    <3>1. Grant(j, a, n) # m
      BY DEF Grant, send_request_vote_response
    <3>2. QED
      BY <1>6, <1>7, <2>1, <2>3, <3>1 DEF InFlight
  <2>4. QED
    BY <2>2, <2>3
<1>12. ASSUME NEW j \in Server, NEW a \in Server, NEW n \in Term,
              NEW x \in Ballots(j, a, n)'
       PROVE  /\ x \in Ballots(j, a, n) /\ x # m
              /\ Copies(x, net') = Copies(x, net)
  <2>1. /\ BagIn(x, net') /\ x.code = "RPC_CALL_REQ_VOTE"
        /\ x.src = a /\ x.dst = j /\ x.term = n
    BY <1>12 DEF Ballots, BagIn
  <2>2. x # m /\ x # g
    BY <1>5, <1>6, <1>7, <2>1
  <2>3. Copies(x, net') = Copies(x, net) /\ BagIn(x, net)
    BY <1>6, <1>7, <2>1, <2>2
  <2>4. QED
    BY <2>1, <2>2, <2>3 DEF Ballots, BagIn
<1>13. ASSUME NEW j \in Server, NEW a \in Server, NEW n \in Term, Supports(j, a, n)'
       PROVE  Supports(j, a, n) \/ (j = i /\ a = k /\ n = t)
  BY <1>10, <1>11, <1>13 DEF Supports
<1>14. ASSUME NEW a \in Server, Supports(i, a, t)
       PROVE  a = k
  <2>1. t = currentTerm[i] /\ votedFor[i] = a
    BY <1>2, <1>9, <1>14 DEF ElectionInv, SupportDurable, t
  <2>2. QED
    BY <2>1, ServerAssumption DEF k, t
<1>15. SupportUnique'
  <2> SUFFICES ASSUME NEW j \in Server, NEW a \in Server, NEW b \in Server, NEW n \in Term,
                      Supports(j, a, n)', Supports(j, b, n)'
               PROVE  a = b
    BY DEF SupportUnique
  <2>1. CASE j = i /\ n = t
    BY <1>13, <1>14, <2>1
  <2>2. CASE ~ (j = i /\ n = t)
    BY <1>13, <2>2 DEF ElectionInv, SupportUnique
  <2>3. QED
    BY <2>1, <2>2
<1>16. SupportDurable'
  <2> SUFFICES ASSUME NEW j \in Server, NEW a \in Server, NEW n \in Term,
                      Supports(j, a, n)'
               PROVE  n <= currentTerm'[j] /\ (n = currentTerm'[j] => votedFor'[j] = a)
    BY DEF SupportDurable
  <2>1. n \in Int
    BY DEF Term
  <2>2. CASE j # i
    BY <1>9, <1>13, <2>2 DEF ElectionInv, SupportDurable
  <2>3. CASE j = i /\ n = t
    BY <1>9, <1>13, <1>14, <2>3
  <2>4. CASE j = i /\ n # t
    <3>1. n <= currentTerm[i]
      BY <1>13, <2>4 DEF ElectionInv, SupportDurable
    <3>2. currentTerm[i] <= t
      BY <1>9 DEF t
    <3>3. QED
      BY <1>9, <2>1, <2>4, <3>1, <3>2
  <2>5. QED
    BY <2>2, <2>3, <2>4
<1>17. OwnVote'
  <2>1. \A j \in Server : j # i =>
           /\ role'[j] # "FOLLOWER" => votedFor'[j] = j
           /\ role'[j] = "CANDIDATE" =>
                 \A e \in elected' : e.leader = j => e.term < currentTerm'[j]
    BY <1>9 DEF ElectionInv, OwnVote
  <2>2. QED
    BY <1>9, <2>1 DEF OwnVote
<1>18. ElectedByMajority'
  <2> SUFFICES ASSUME NEW e \in elected
               PROVE  e.term <= currentTerm'[e.leader] /\ Majority(Cardinality(e.quorum))
    BY DEF ElectedByMajority
  <2>1. e.term \in Int /\ e.leader \in Server
    BY <1>1, WinType
  <2>2. e.term <= currentTerm[e.leader] /\ Majority(Cardinality(e.quorum))
    BY DEF ElectionInv, ElectedByMajority
  <2>3. currentTerm[i] <= t
    BY <1>9 DEF t
  <2>4. QED
    BY <1>9, <2>1, <2>2, <2>3
<1>19. CountedOnce'
  BY <1>9 DEF ElectionInv, CountedOnce
<1>20. OneVoteEach'
  <2> SUFFICES ASSUME NEW j \in Server, NEW a \in Server, NEW n \in Term
               PROVE  OneVote(j, a, n)'
    BY DEF OneVoteEach
  <2>1. n <= currentTerm[a] => n <= currentTerm'[a]
    <3>1. n \in Int /\ currentTerm[i] <= t
      BY <1>9 DEF Term, t
    <3>2. QED
      BY <1>9, <3>1
  <2>2. Standing(a, n)' => Standing(a, n) /\ voters'[a] = voters[a]
    BY <1>10
  <2>3. ASSUME NEW x \in Ballots(j, a, n)'
        PROVE  /\ j # a /\ n <= currentTerm'[a]
               /\ Copies(x, net') = 1
               /\ Ballots(j, a, n)' = {x}
               /\ ~ InFlight(Grant(j, a, n))'
               /\ Standing(a, n)' => j \notin voters'[a]
    <3>1. x \in Ballots(j, a, n) /\ x # m /\ Copies(x, net') = Copies(x, net)
          /\ Ballots(j, a, n)' \subseteq Ballots(j, a, n)
      BY <1>12, <2>3
    <3>2. /\ j # a /\ n <= currentTerm[a] /\ Copies(x, net) = 1
          /\ Ballots(j, a, n) = {x} /\ ~ InFlight(Grant(j, a, n))
          /\ Standing(a, n) => j \notin voters[a]
      BY <3>1 DEF ElectionInv, OneVoteEach, OneVote
    <3>3. ~ (j = i /\ a = k /\ n = t)
      BY <1>4, <3>1, <3>2 DEF k, t
    <3>4. ~ InFlight(Grant(j, a, n))'
      BY <1>11, <3>2, <3>3
    <3>5. QED
      BY <2>1, <2>2, <2>3, <3>1, <3>2, <3>4
  <2>4. ASSUME InFlight(Grant(j, a, n))'
        PROVE  /\ j # a /\ n <= currentTerm'[a]
               /\ Copies(Grant(j, a, n), net') = 1
               /\ Standing(a, n)' => j \notin voters'[a]
    <3>1. CASE j = i /\ a = k /\ n = t
      BY <1>4, <1>6, <1>8, <1>11, <2>1, <2>2, <2>4, <3>1 DEF g, k, t
    <3>2. CASE ~ (j = i /\ a = k /\ n = t)
      BY <1>11, <2>1, <2>2, <2>4, <3>2 DEF ElectionInv, OneVoteEach, OneVote
    <3>3. QED
      BY <3>1, <3>2
  <2>5. QED
    BY <2>3, <2>4 DEF OneVote, Grant, send_request_vote_response
<1>21. QED
  BY <1>15, <1>16, <1>17, <1>18, <1>19, <1>20 DEF ElectionInv

-----------------------------------------------------------------------------
(* The start of an election: nothing of the new term exists yet. *)

LEMMA StartElectionStep ==
    ASSUME ElectionInv, TypeOK', NEW i \in Server, start_election(i),
           role' = [role EXCEPT ![i] = "CANDIDATE"],
           elected' = elected
    PROVE  ElectionInv'
<1> DEFINE t == currentTerm[i] + 1
           out == broadcast_request_vote(i, t)
<1>1. TypeOK
  BY DEF ElectionInv
<1>2. /\ role'[i] = "CANDIDATE" /\ currentTerm'[i] = t /\ votedFor'[i] = i
      /\ voters'[i] = {i} /\ votesReceived'[i] = 1
      /\ \A j \in Server : j # i =>
            /\ role'[j] = role[j] /\ currentTerm'[j] = currentTerm[j]
            /\ votedFor'[j] = votedFor[j] /\ voters'[j] = voters[j]
            /\ votesReceived'[j] = votesReceived[j]
  BY <1>1 DEF TypeOK, start_election
<1>3. /\ \A j \in Server : currentTerm[j] \in Int
      /\ t \in Int /\ currentTerm[i] < t /\ t \in Term
  <2>1. currentTerm \in [Server -> Term] /\ currentTerm[i] < MaxTerm /\ MaxTerm \in Nat
    BY <1>1, BoundAssumption DEF TypeOK, start_election
  <2>2. QED
    BY <2>1 DEF Term
<1>4. /\ \A x : x \notin out => Copies(x, net') = Copies(x, net)
      /\ \A x : \/ Copies(x, net') = Copies(x, net)
                \/ Copies(x, net') = Copies(x, net) + 1
  BY <1>1, DeliverBag DEF start_election, Send, TypeOK
<1>5. \A x \in out : /\ x.code = "RPC_CALL_REQ_VOTE" /\ x.src = i /\ x.term = t
                     /\ x.dst \in Server /\ x.dst # i
  BY DEF broadcast_request_vote
<1>6. \A x, y \in out : x.dst = y.dst => x = y
  BY DEF broadcast_request_vote
<1> HIDE DEF t, out
<1>7. /\ \A x : Copies(x, net) \in Nat /\ (BagIn(x, net) <=> Copies(x, net) > 0)
      /\ \A x : Copies(x, net') \in Nat /\ (BagIn(x, net') <=> Copies(x, net') > 0)
  BY <1>1, CopiesType DEF TypeOK
(* Nothing of i's new term is in flight. *)
<1>8. \A j \in Server : Ballots(j, i, t) = {} /\ ~ InFlight(Grant(j, i, t))
  BY <1>3 DEF ElectionInv, OneVoteEach, OneVote
<1>9. ASSUME NEW j \in Server, NEW a \in Server, NEW n \in Term
      PROVE  /\ InFlight(Grant(j, a, n))' <=> InFlight(Grant(j, a, n))
             /\ Copies(Grant(j, a, n), net') = Copies(Grant(j, a, n), net)
  <2>1. Grant(j, a, n) \notin out
    BY <1>5, GrantIsPacket
  <2>2. Copies(Grant(j, a, n), net') = Copies(Grant(j, a, n), net)
    BY <1>4, <2>1
  <2>3. InFlight(Grant(j, a, n))' <=> BagIn(Grant(j, a, n), net')
    BY DEF InFlight, Grant, send_request_vote_response
  <2>4. QED
    BY <1>7, <2>2, <2>3 DEF InFlight
<1>10. ASSUME NEW j \in Server, NEW a \in Server, NEW n \in Term,
              NEW x \in Ballots(j, a, n)'
       PROVE  \/ x \in Ballots(j, a, n) /\ x \notin out /\ Copies(x, net') = Copies(x, net)
              \/ x \in out /\ a = i /\ n = t /\ Copies(x, net') = 1
  <2>1. /\ BagIn(x, net') /\ x.code = "RPC_CALL_REQ_VOTE"
        /\ x.src = a /\ x.dst = j /\ x.term = n
    BY <1>10 DEF Ballots, BagIn
  <2>2. CASE x \in out
    <3>1. a = i /\ n = t
      BY <1>5, <2>1, <2>2
    <3>2. ~ BagIn(x, net)
      BY <1>8, <2>1, <3>1 DEF Ballots, BagIn
    <3>3. QED
      BY <1>4, <1>7, <2>1, <2>2, <3>1, <3>2
  <2>3. CASE x \notin out
    <3>1. Copies(x, net') = Copies(x, net) /\ BagIn(x, net)
      BY <1>4, <1>7, <2>1, <2>3
    <3>2. QED
      BY <2>1, <2>3, <3>1 DEF Ballots, BagIn
  <2>4. QED
    BY <2>2, <2>3
<1>11. \A a \in Server, n \in Term : Standing(a, n)' =>
          \/ a = i /\ n = t
          \/ a # i /\ Standing(a, n) /\ voters'[a] = voters[a]
  BY <1>2 DEF Standing
<1>12. ASSUME NEW j \in Server, NEW a \in Server, NEW n \in Term, Supports(j, a, n)'
       PROVE  Supports(j, a, n) \/ (j = i /\ a = i /\ n = t)
  BY <1>2, <1>9, <1>11, <1>12 DEF Supports
<1>13. \A a \in Server : ~ Supports(i, a, t)
  BY <1>3 DEF ElectionInv, SupportDurable
<1>14. SupportUnique'
  <2> SUFFICES ASSUME NEW j \in Server, NEW a \in Server, NEW b \in Server, NEW n \in Term,
                      Supports(j, a, n)', Supports(j, b, n)'
               PROVE  a = b
    BY DEF SupportUnique
  <2>1. CASE j = i /\ n = t
    BY <1>12, <1>13, <2>1
  <2>2. CASE ~ (j = i /\ n = t)
    BY <1>12, <2>2 DEF ElectionInv, SupportUnique
  <2>3. QED
    BY <2>1, <2>2
<1>15. SupportDurable'
  <2> SUFFICES ASSUME NEW j \in Server, NEW a \in Server, NEW n \in Term,
                      Supports(j, a, n)'
               PROVE  n <= currentTerm'[j] /\ (n = currentTerm'[j] => votedFor'[j] = a)
    BY DEF SupportDurable
  <2>1. n \in Int
    BY DEF Term
  <2>2. CASE j = i /\ a = i /\ n = t
    BY <1>2, <1>3, <2>2
  <2>3. CASE Supports(j, a, n)
    <3>1. n <= currentTerm[j] /\ (n = currentTerm[j] => votedFor[j] = a)
      BY <2>3 DEF ElectionInv, SupportDurable
    <3>2. QED
      BY <1>2, <1>3, <2>1, <3>1
  <2>4. QED
    BY <1>12, <2>2, <2>3
<1>16. OwnVote' /\ ElectedByMajority'
  <2>1. \A e \in elected : e.leader \in Server /\ e.term \in Int
            /\ e.term <= currentTerm[e.leader] /\ Majority(Cardinality(e.quorum))
    BY <1>1, WinType DEF ElectionInv, ElectedByMajority
  <2>2. \A e \in elected : e.leader = i => e.term < t
    BY <1>3, <2>1
  <2>3. ElectedByMajority'
    <3> SUFFICES ASSUME NEW e \in elected
                 PROVE  e.term <= currentTerm'[e.leader] /\ Majority(Cardinality(e.quorum))
      BY DEF ElectedByMajority
    <3>1. QED
      BY <1>2, <1>3, <2>1
  <2>4. \A j \in Server : j # i =>
           /\ role'[j] # "FOLLOWER" => votedFor'[j] = j
           /\ role'[j] = "CANDIDATE" =>
                 \A e \in elected' : e.leader = j => e.term < currentTerm'[j]
    BY <1>2 DEF ElectionInv, OwnVote
  <2>5. QED
    BY <1>2, <2>2, <2>3, <2>4 DEF OwnVote
<1>17. CountedOnce'
  <2>1. Cardinality({i}) = 1
    BY FS_Singleton
  <2>2. QED
    BY <1>2, <2>1 DEF ElectionInv, CountedOnce
<1>18. OneVoteEach'
  <2> SUFFICES ASSUME NEW j \in Server, NEW a \in Server, NEW n \in Term
               PROVE  OneVote(j, a, n)'
    BY DEF OneVoteEach
  <2>1. n \in Int /\ (n <= currentTerm[a] => n <= currentTerm'[a])
    BY <1>2, <1>3 DEF Term
  <2>2. n <= currentTerm[a] /\ Standing(a, n)' => Standing(a, n) /\ voters'[a] = voters[a]
    BY <1>3, <1>11, <2>1
  <2>3. ASSUME NEW x \in Ballots(j, a, n)'
        PROVE  /\ j # a /\ n <= currentTerm'[a]
               /\ Copies(x, net') = 1
               /\ Ballots(j, a, n)' = {x}
               /\ ~ InFlight(Grant(j, a, n))'
               /\ Standing(a, n)' => j \notin voters'[a]
    <3>1. CASE x \in out
      <4>1. a = i /\ n = t /\ Copies(x, net') = 1
        BY <1>10, <2>3, <3>1
      <4>2. x.dst = j /\ j # i
        BY <1>5, <2>3, <3>1 DEF Ballots
      <4>3. \A y \in Ballots(j, a, n)' : y \in out /\ y.dst = j
        BY <1>8, <1>10, <4>1 DEF Ballots
      <4>4. Ballots(j, a, n)' = {x}
        BY <1>6, <2>3, <3>1, <4>2, <4>3
      <4>5. QED
        BY <1>2, <1>3, <1>8, <1>9, <4>1, <4>2, <4>4
    <3>2. CASE x \notin out
      <4>1. x \in Ballots(j, a, n) /\ Copies(x, net') = Copies(x, net)
        BY <1>10, <2>3, <3>2
      <4>2. /\ j # a /\ n <= currentTerm[a] /\ Copies(x, net) = 1
            /\ Ballots(j, a, n) = {x} /\ ~ InFlight(Grant(j, a, n))
            /\ Standing(a, n) => j \notin voters[a]
        BY <4>1 DEF ElectionInv, OneVoteEach, OneVote
      <4>3. ~ (a = i /\ n = t)
        BY <1>3, <4>2
      <4>4. Ballots(j, a, n)' = {x}
        BY <1>10, <2>3, <4>2, <4>3
      <4>5. QED
        BY <1>9, <2>1, <2>2, <4>1, <4>2, <4>4
    <3>3. QED
      BY <3>1, <3>2
  <2>4. ASSUME InFlight(Grant(j, a, n))'
        PROVE  /\ j # a /\ n <= currentTerm'[a]
               /\ Copies(Grant(j, a, n), net') = 1
               /\ Standing(a, n)' => j \notin voters'[a]
    BY <1>9, <2>1, <2>2, <2>4 DEF ElectionInv, OneVoteEach, OneVote
  <2>5. QED
    BY <2>3, <2>4 DEF OneVote, Grant, send_request_vote_response
<1>19. QED
  BY <1>14, <1>15, <1>16, <1>17, <1>18 DEF ElectionInv

-----------------------------------------------------------------------------
(* The count of a vote, which may win the election. *)

LEMMA CountVoteStep ==
    ASSUME ElectionInv, TypeOK', NEW i \in Server,
           NEW m \in BagToSet(net), m.code = "RPC_RESP_REQ_VOTE", m.dst = i,
           role[i] = "CANDIDATE", CountVote(i, m)
    PROVE  ElectionInv'
<1> DEFINE j == m.src
           t == currentTerm[i]
           V == voters[i] \cup {j}
           win == [term |-> t, leader |-> i, quorum |-> V]
<1>1. TypeOK
  BY DEF ElectionInv
<1>2. j \in Server /\ t \in Term /\ t \in Int /\ m = Grant(j, i, t) /\ m \in Packet
  <2>1. m \in request_vote_res_t /\ j \in Server /\ m \in Packet
    BY <1>1, PacketKind DEF TypeOK
  <2>2. t \in Term /\ t \in Int
    BY <1>1 DEF TypeOK, Term
  <2>3. QED
    BY <2>1, <2>2, GrantOf DEF CountVote
<1>3. /\ votesReceived'[i] = votesReceived[i] + 1 /\ voters'[i] = V
      /\ \A k \in Server : k # i =>
            voters'[k] = voters[k] /\ votesReceived'[k] = votesReceived[k]
      /\ currentTerm' = currentTerm /\ votedFor' = votedFor
  BY <1>1 DEF CountVote, durable, TypeOK
<1>4. /\ \A k \in Server : k # i => role'[k] = role[k]
      /\ \/ role'[i] = "CANDIDATE" /\ elected' = elected
         \/ /\ role'[i] = "LEADER" /\ elected' = elected \cup {win}
            /\ Majority(votesReceived[i] + 1)
  BY <1>1 DEF CountVote, become_leader, TypeOK
<1>5. PICK out : Consume(m, out) /\ \A x \in out : ~ VotePacket(x)
  <2>1. \/ Consume(m, {})
        \/ Consume(m, send_heartbeats(i, [k \in Server |-> U32(Len(log[i]))]))
    BY DEF CountVote, become_leader
  <2>2. \A x \in send_heartbeats(i, [k \in Server |-> U32(Len(log[i]))]) : ~ VotePacket(x)
    BY NotVotePackets
  <2>3. QED
    BY <2>1, <2>2
<1> HIDE DEF j, t, V, win
<1>6. QuietNet
  BY <1>1, <1>5, ConsumeQuiet
<1>7. InFlight(m)
  BY DEF InFlight, BagIn
<1>8. /\ j # i /\ Copies(m, net) = 1 /\ j \notin voters[i]
      /\ Ballots(j, i, t) = {}
  BY <1>2, <1>7 DEF ElectionInv, OneVoteEach, OneVote, Standing, t
<1>9. ~ BagIn(m, net')
  <2>1. VotePacket(m)
    BY <1>2, GrantIsPacket
  <2>2. Copies(m, net') = Copies(m, net) - 1
    BY <1>1, <1>5, <2>1, ConsumeCopies
  <2>3. QED
    BY <1>8, <2>2, CopiesType DEF TypeOK
<1>10. Cardinality(V) = votesReceived[i] + 1
  <2>1. IsFiniteSet(voters[i])
    BY <1>1, ServerAssumption, FS_Subset DEF TypeOK
  <2>2. Cardinality(V) = Cardinality(voters[i]) + 1
    BY <1>8, <2>1, FS_AddElement DEF V
  <2>3. QED
    BY <2>2 DEF ElectionInv, CountedOnce
<1>11. \A k \in Server, n \in Term : Standing(k, n)' => Standing(k, n)
  BY <1>3, <1>4 DEF Standing
<1>12. ASSUME NEW x \in V PROVE Supports(x, i, t)
  <2>1. CASE x = j
    BY <1>2, <1>7, <2>1 DEF Supports
  <2>2. CASE x \in voters[i]
    BY <2>2 DEF Supports, Standing, t
  <2>3. QED
    BY <2>1, <2>2 DEF V
<1>13. ASSUME NEW x \in Server, NEW k \in Server, NEW n \in Term, Supports(x, k, n)'
       PROVE  Supports(x, k, n)
  <2>1. CASE InFlight(Grant(x, k, n))'
    BY <1>1, <1>6, <2>1, QuietFacts DEF Supports
  <2>2. CASE Standing(k, n)' /\ x \in voters'[k]
    <3>1. CASE k = i
      <4>1. n = t /\ x \in V
        BY <1>3, <2>2, <3>1 DEF Standing, t
      <4>2. QED
        BY <1>12, <3>1, <4>1
    <3>2. CASE k # i
      BY <1>3, <1>11, <2>2, <3>2 DEF Supports
    <3>3. QED
      BY <3>1, <3>2
  <2>3. CASE \E e \in elected' : e.term = n /\ e.leader = k /\ x \in e.quorum
    <3>1. CASE \E e \in elected : e.term = n /\ e.leader = k /\ x \in e.quorum
      BY <3>1 DEF Supports
    <3>2. CASE win.term = n /\ win.leader = k /\ x \in win.quorum
      BY <1>12, <3>2 DEF win
    <3>3. QED
      BY <1>4, <2>3, <3>1, <3>2
  <2>4. QED
    BY <1>13, <2>1, <2>2, <2>3 DEF Supports
<1>14. SupportUnique' /\ SupportDurable'
  BY <1>3, <1>13 DEF ElectionInv, SupportUnique, SupportDurable
<1>15. OwnVote'
  <2> SUFFICES ASSUME NEW k \in Server
               PROVE  /\ role'[k] # "FOLLOWER" => votedFor'[k] = k
                      /\ role'[k] = "CANDIDATE" =>
                            \A e \in elected' : e.leader = k => e.term < currentTerm'[k]
    BY DEF OwnVote
  <2>1. /\ role[k] # "FOLLOWER" => votedFor[k] = k
        /\ role[k] = "CANDIDATE" => \A e \in elected : e.leader = k => e.term < currentTerm[k]
    BY DEF ElectionInv, OwnVote
  <2>2. CASE k = i
    BY <1>3, <1>4, <2>1, <2>2
  <2>3. CASE k # i
    BY <1>3, <1>4, <2>1, <2>3 DEF win
  <2>4. QED
    BY <2>2, <2>3
<1>16. ElectedByMajority'
  <2> SUFFICES ASSUME NEW e \in elected'
               PROVE  e.term <= currentTerm[e.leader] /\ Majority(Cardinality(e.quorum))
    BY <1>3 DEF ElectedByMajority
  <2>1. CASE e \in elected
    BY <2>1 DEF ElectionInv, ElectedByMajority
  <2>2. CASE e = win /\ Majority(votesReceived[i] + 1)
    BY <1>2, <1>10, <2>2 DEF win, t
  <2>3. QED
    BY <1>4, <2>1, <2>2
<1>17. CountedOnce'
  BY <1>3, <1>4, <1>10 DEF ElectionInv, CountedOnce
<1>18. OneVoteEach'
  <2> SUFFICES ASSUME NEW x \in Server, NEW k \in Server, NEW n \in Term
               PROVE  OneVote(x, k, n)'
    BY DEF OneVoteEach
  <2>1. OneVote(x, k, n)
    BY DEF ElectionInv, OneVoteEach
  <2>2. Standing(k, n)' /\ x \notin voters[k] /\ ~ (x = j /\ k = i /\ n = t)
            => Standing(k, n) /\ x \notin voters'[k]
    <3>1. CASE k = i
      BY <1>3, <1>11, <3>1 DEF Standing, V, t
    <3>2. CASE k # i
      BY <1>3, <1>11, <3>2
    <3>3. QED
      BY <3>1, <3>2
  <2>3. ASSUME NEW b \in Ballots(x, k, n)'
        PROVE  /\ x # k /\ n <= currentTerm'[k]
               /\ Copies(b, net') = 1
               /\ Ballots(x, k, n)' = {b}
               /\ ~ InFlight(Grant(x, k, n))'
               /\ Standing(k, n)' => x \notin voters'[k]
    <3>1. /\ b \in Ballots(x, k, n) /\ (Copies(b, net) = 1 => Copies(b, net') = 1)
          /\ Ballots(x, k, n)' \subseteq Ballots(x, k, n)
          /\ InFlight(Grant(x, k, n))' => InFlight(Grant(x, k, n))
      BY <1>1, <1>6, <2>3, QuietFacts
    <3>2. /\ x # k /\ n <= currentTerm[k] /\ Copies(b, net) = 1
          /\ Ballots(x, k, n) = {b} /\ ~ InFlight(Grant(x, k, n))
          /\ Standing(k, n) => x \notin voters[k]
      BY <2>1, <3>1 DEF OneVote
    <3>3. ~ (x = j /\ k = i /\ n = t)
      BY <1>8, <3>1
    <3>4. QED
      BY <1>3, <1>11, <2>2, <2>3, <3>1, <3>2, <3>3
  <2>4. ASSUME InFlight(Grant(x, k, n))'
        PROVE  /\ x # k /\ n <= currentTerm'[k]
               /\ Copies(Grant(x, k, n), net') = 1
               /\ Standing(k, n)' => x \notin voters'[k]
    <3>1. InFlight(Grant(x, k, n)) /\ (Copies(Grant(x, k, n), net) = 1
                                         => Copies(Grant(x, k, n), net') = 1)
      BY <1>1, <1>6, <2>4, QuietFacts
    <3>2. BagIn(Grant(x, k, n), net')
      BY <2>4 DEF InFlight, Grant, send_request_vote_response
    <3>3. ~ (x = j /\ k = i /\ n = t)
      BY <1>2, <1>9, <3>2
    <3>4. /\ x # k /\ n <= currentTerm[k] /\ Copies(Grant(x, k, n), net) = 1
          /\ Standing(k, n) => x \notin voters[k]
      BY <2>1, <3>1 DEF OneVote
    <3>5. QED
      BY <1>3, <1>11, <2>2, <3>1, <3>3, <3>4
  <2>5. QED
    BY <2>3, <2>4 DEF OneVote, Grant, send_request_vote_response
<1>19. QED
  BY <1>14, <1>15, <1>16, <1>17, <1>18 DEF ElectionInv

-----------------------------------------------------------------------------
(* The handlers *)

LEMMA DropPacketElection ==
    ASSUME ElectionInv, TypeOK', NEW m \in BagToSet(net), DropPacket(m)
    PROVE  ElectionInv'
<1>1. QuietNet
  BY ConsumeQuiet DEF DropPacket, ElectionInv
<1>2. QED
  BY <1>1, QuietStep DEF DropPacket, durable, electionVars, history

LEMMA BecomeFollowerElection ==
    ASSUME ElectionInv, TypeOK', QuietNet, NEW i \in Server, NEW t \in Term, NEW leader,
           t > currentTerm[i] \/ (t = currentTerm[i] /\ role[i] = "CANDIDATE"),
           become_follower(i, t, leader), elected' = elected
    PROVE  ElectionInv'
<1>1. currentTerm[i] <= t
  BY DEF ElectionInv, TypeOK, Term
<1>2. QED
  BY <1>1, FollowerStep DEF become_follower, StepDown

LEMMA StepDownOnResponseElection ==
    ASSUME ElectionInv, TypeOK', NEW i \in Server, NEW m \in BagToSet(net),
           StepDownOnResponse(i, m)
    PROVE  ElectionInv'
<1>1. QuietNet
  BY ConsumeQuiet DEF StepDownOnResponse, ElectionInv
<1>2. m.term \in Term
  BY PacketKind DEF ElectionInv, TypeOK
<1>3. QED
  BY <1>1, <1>2, BecomeFollowerElection DEF StepDownOnResponse, history

LEMMA RecogniseLeaderElection ==
    ASSUME ElectionInv, TypeOK', QuietNet, NEW i \in Server, NEW m \in BagToSet(net),
           RecogniseLeader(i, m), elected' = elected
    PROVE  ElectionInv'
<1>1. m.term \in Term /\ m.term \in Int /\ currentTerm[i] \in Int
  BY PacketKind DEF ElectionInv, TypeOK, Term
<1>2. CASE m.term > currentTerm[i] \/ role[i] = "CANDIDATE"
  <2>1. become_follower(i, m.term, m.src)
    BY <1>2 DEF RecogniseLeader
  <2>2. m.term > currentTerm[i] \/ (m.term = currentTerm[i] /\ role[i] = "CANDIDATE")
    BY <1>1, <1>2 DEF RecogniseLeader
  <2>3. QED
    BY <1>1, <2>1, <2>2, BecomeFollowerElection
<1>3. CASE ~ (m.term > currentTerm[i] \/ role[i] = "CANDIDATE")
  BY <1>3, QuietStep DEF RecogniseLeader
<1>4. QED
  BY <1>2, <1>3

LEMMA AppendRequestElection ==
    ASSUME ElectionInv, TypeOK', NEW i \in Server, NEW m \in BagToSet(net),
           handle_append_entries_request(i, m)
    PROVE  ElectionInv'
<1>1. CASE RejectStaleAppend(i, m)
  <2>1. QuietNet
    <3>1. Consume(m, {send_append_entries_response(i, m.src, currentTerm[i], 0, FALSE)})
      BY <1>1 DEF RejectStaleAppend
    <3>2. QED
      BY <3>1, NotVotePackets, ReplyQuiet, Zenon
  <2>2. QED
    BY <1>1, <2>1, QuietStep DEF RejectStaleAppend, durable, electionVars, history
<1>2. CASE RejectMismatch(i, m)
  <2>1. QuietNet
    <3>1. Consume(m, {send_append_entries_response(i, m.src, currentTerm[i], 0, FALSE)})
      BY <1>2 DEF RejectMismatch
    <3>2. QED
      BY <3>1, NotVotePackets, ReplyQuiet, Zenon
  <2>2. QED
    BY <1>2, <2>1, RecogniseLeaderElection DEF RejectMismatch, history
<1>3. CASE AppendNew(i, m)
  <2>1. QuietNet
    <3>1. Consume(m, {send_append_entries_response(i, m.src, currentTerm[i], LastNew(m), TRUE)})
      BY <1>3, Zenon DEF AppendNew
    <3>2. QED
      BY <3>1, NotVotePackets, ReplyQuiet, Zenon
  <2>2. RecogniseLeader(i, m) /\ elected' = elected
    BY <1>3 DEF AppendNew, history
  <2>3. QED
    BY <2>1, <2>2, RecogniseLeaderElection
<1>4. QED
  BY <1>1, <1>2, <1>3 DEF handle_append_entries_request

LEMMA AppendResponseElection ==
    ASSUME ElectionInv, TypeOK', NEW i \in Server, NEW m \in BagToSet(net),
           handle_append_entries_response(i, m)
    PROVE  ElectionInv'
<1>1. CASE StepDownOnResponse(i, m)
  BY <1>1, StepDownOnResponseElection
<1>2. CASE DropPacket(m)
  BY <1>2, DropPacketElection
<1>3. CASE AppendSucceeded(i, m) \/ AppendFailed(i, m)
  <2>1. QuietNet
    <3>1. Consume(m, {})
      BY <1>3, Zenon DEF AppendSucceeded, AppendFailed
    <3>2. QED
      BY <3>1, SilentQuiet
  <2>2. UNCHANGED <<currentTerm, votedFor, role, votesReceived, voters, elected>>
    BY <1>3 DEF AppendSucceeded, AppendFailed, durable, electionVars, history
  <2>3. QED
    BY <2>1, <2>2, QuietStep
<1>4. QED
  BY <1>1, <1>2, <1>3 DEF handle_append_entries_response

(* A vote is granted to a ballot of a newer term, or by a node that has    *)
(* not voted for anyone else in this one and hence is a follower.          *)
LEMMA VoteRequestElection ==
    ASSUME ElectionInv, TypeOK', NEW i \in Server, NEW m \in BagToSet(net), m.dst = i,
           handle_request_vote_request(i, m)
    PROVE  ElectionInv'
<1>1. TypeOK
  BY DEF ElectionInv
<1>2. /\ m.term \in Term /\ m.src \in Server /\ m.term \in Int /\ currentTerm[i] \in Int
      /\ m.code = "RPC_CALL_REQ_VOTE"
  <2>1. m \in Packet /\ currentTerm[i] \in Term
    BY <1>1 DEF TypeOK
  <2>2. m.term \in Term /\ m.src \in Server
    BY <2>1, PacketKind
  <2>3. m.code = "RPC_CALL_REQ_VOTE"
    BY DEF handle_request_vote_request
  <2>4. QED
    BY <2>1, <2>2, <2>3 DEF Term
<1>3. CASE RejectStaleBallot(i, m)
  <2>1. QuietNet
    <3>1. Consume(m, {send_request_vote_response(i, m.src, currentTerm[i], FALSE)})
      BY <1>3 DEF RejectStaleBallot
    <3>2. QED
      BY <3>1, NotVotePackets, ReplyQuiet, Zenon
  <2>2. QED
    BY <1>3, <2>1, QuietStep DEF RejectStaleBallot, durable, electionVars, history
<1>4. CASE AnswerBallot(i, m)
  <2> DEFINE newer == m.term > currentTerm[i]
             vote == IF newer THEN Nil ELSE votedFor[i]
             granted == /\ vote \in {Nil, m.src}
                        /\ log_is_up_to_date(log[i], m.last_log_idx, m.last_log_term)
  <2>1. /\ m.term >= currentTerm[i]
        /\ IF newer THEN StepDown(i, m.term, m.src)
                    ELSE UNCHANGED <<currentTerm, electionVars>>
        /\ votedFor' = [votedFor EXCEPT ![i] = IF granted THEN m.src ELSE vote]
        /\ Consume(m, {send_request_vote_response(i, m.src, m.term, granted)})
        /\ elected' = elected
    BY <1>4 DEF AnswerBallot, history
  <2>2. m.src # i
    BY <1>2 DEF ElectionInv, OneVoteEach, OneVote, Ballots
  <2>3. ~ newer => m.term = currentTerm[i]
    BY <1>2, <2>1
  <2>4. granted \in BOOLEAN /\ (granted => vote \in {Nil, m.src})
    OBVIOUS
  <2> HIDE DEF granted
  <2>5. CASE granted
    <3>1. Consume(m, {Grant(i, m.src, m.term)})
      <4>1. granted = TRUE
        BY <2>4, <2>5
      <4>2. QED
        BY <2>1, <4>1 DEF Grant
    <3>2. m.term = currentTerm[i] => votedFor[i] \in {Nil, m.src}
      BY <1>2, <2>4, <2>5
    <3>3. ~ newer => role[i] = "FOLLOWER"
      BY <2>2, <2>3, <3>2, ServerAssumption DEF ElectionInv, OwnVote
    <3>4. /\ currentTerm' = [currentTerm EXCEPT ![i] = m.term]
          /\ role' = [role EXCEPT ![i] = "FOLLOWER"]
          /\ \A j \in Server : j # i =>
                voters'[j] = voters[j] /\ votesReceived'[j] = votesReceived[j]
      <4>1. CASE newer
        BY <1>1, <2>1, <4>1 DEF StepDown, TypeOK
      <4>2. CASE ~ newer
        BY <1>1, <2>1, <2>3, <3>3, <4>2 DEF electionVars, TypeOK
      <4>3. QED
        BY <4>1, <4>2
    <3>5. votedFor' = [votedFor EXCEPT ![i] = m.src]
      BY <2>1, <2>5
    <3>6. QED
      BY <1>2, <2>1, <3>1, <3>2, <3>4, <3>5, GrantStep
  <2>6. CASE ~ granted
    <3>1. QuietNet
      <4>1. granted = FALSE
        BY <2>4, <2>6
      <4>2. Consume(m, {send_request_vote_response(i, m.src, m.term, FALSE)})
        BY <2>1, <4>1
      <4>3. QED
        BY <4>2, NotVotePackets, ReplyQuiet, Zenon
    <3>2. CASE newer
      <4>1. votedFor' = [votedFor EXCEPT ![i] = Nil]
        BY <2>1, <2>6, <3>2
      <4>2. become_follower(i, m.term, m.src)
        BY <2>1, <3>2, <4>1 DEF become_follower
      <4>3. QED
        BY <1>2, <2>1, <3>1, <3>2, <4>2, BecomeFollowerElection
    <3>3. CASE ~ newer
      <4>1. votedFor' = votedFor
        BY <1>1, <2>1, <2>6, <3>3 DEF TypeOK
      <4>2. QED
        BY <2>1, <3>1, <3>3, <4>1, QuietStep DEF electionVars
    <3>4. QED
      BY <3>2, <3>3
  <2>7. QED
    BY <2>5, <2>6
<1>5. QED
  BY <1>3, <1>4 DEF handle_request_vote_request

LEMMA VoteResponseElection ==
    ASSUME ElectionInv, TypeOK', NEW i \in Server, NEW m \in BagToSet(net), m.dst = i,
           handle_request_vote_response(i, m)
    PROVE  ElectionInv'
<1>1. CASE DropPacket(m)
  BY <1>1, DropPacketElection
<1>2. CASE role[i] = "CANDIDATE" /\ StepDownOnResponse(i, m)
  BY <1>2, StepDownOnResponseElection
<1>3. CASE role[i] = "CANDIDATE" /\ CountVote(i, m)
  BY <1>3, CountVoteStep DEF handle_request_vote_response
<1>4. QED
  BY <1>1, <1>2, <1>3 DEF handle_request_vote_response

LEMMA TimeoutElection ==
    ASSUME ElectionInv, TypeOK', NEW i \in Server, raft_handle_timeout(i)
    PROVE  ElectionInv'
<1>1. CASE become_candidate(i)
  BY <1>1, StartElectionStep DEF become_candidate, history
<1>2. CASE RetryElection(i)
  <2>1. role' = [role EXCEPT ![i] = "CANDIDATE"]
    BY <1>2 DEF RetryElection, ElectionInv, TypeOK
  <2>2. QED
    BY <1>2, <2>1, StartElectionStep DEF RetryElection, history
<1>3. CASE HeartbeatTimeout(i)
  <2>1. QuietNet
    BY <1>3, SendQuiet, NotVotePackets DEF HeartbeatTimeout, ElectionInv
  <2>2. QED
    BY <1>3, <2>1, QuietStep DEF HeartbeatTimeout, durable, electionVars, history
<1>4. QED
  BY <1>1, <1>2, <1>3 DEF raft_handle_timeout

LEMMA ProcRequestElection ==
    ASSUME ElectionInv, TypeOK', NEW i \in Server, NEW r \in Request,
           handle_proc_request(i, r)
    PROVE  ElectionInv'
<1> DEFINE l == Append(log[i], [term |-> currentTerm[i], req |-> r])
<1>1. Send(broadcast_append_entries(i, l))
  BY DEF handle_proc_request
<1>2. UNCHANGED <<currentTerm, votedFor, role, votesReceived, voters, elected>>
  BY DEF handle_proc_request, electionVars, history
<1> HIDE DEF l
<1>3. \A x \in broadcast_append_entries(i, l) : ~ VotePacket(x)
  BY NotVotePackets
<1>4. QuietNet
  BY <1>1, <1>3, SendQuiet DEF ElectionInv
<1>5. QED
  BY <1>2, <1>4, QuietStep

(* A crash leaves a follower whose term and vote were written in an order  *)
(* that forgets no vote of the term on disk.                               *)
LEMMA CrashElection ==
    ASSUME ElectionInv, TypeOK', NEW i \in Server, Crash(i)
    PROVE  ElectionInv'
<1>1. TypeOK
  BY DEF ElectionInv
<1>2. currentTerm[i] \in Term /\ currentTerm[i] \in Int
      /\ votedFor[i] \in Server \cup {Nil}
  BY <1>1 DEF TypeOK, Term
<1>3. ASSUME raft_create(i), NEW t \in Term, NEW v \in Server \cup {Nil},
             currentTerm[i] <= t,
             t > currentTerm[i] \/ v = votedFor[i] \/ (role[i] = "CANDIDATE" /\ v = Nil),
             currentTerm' = [currentTerm EXCEPT ![i] = t],
             votedFor' = [votedFor EXCEPT ![i] = v]
      PROVE  ElectionInv'
  <2>1. QuietNet
    BY <1>1, <1>3, CreateQuiet
  <2>2. /\ role' = [role EXCEPT ![i] = "FOLLOWER"]
        /\ voters' = [voters EXCEPT ![i] = {}]
        /\ votesReceived' = [votesReceived EXCEPT ![i] = 0]
        /\ elected' = elected
    BY <1>3 DEF raft_create, history
  <2>3. QED
    BY <1>3, <2>1, <2>2, FollowerStep
<1>4. CASE Restart(i)
  <2>1. /\ currentTerm' = [currentTerm EXCEPT ![i] = currentTerm[i]]
        /\ votedFor' = [votedFor EXCEPT ![i] = votedFor[i]]
    BY <1>1, <1>4 DEF Restart, durable, TypeOK
  <2>2. currentTerm[i] <= currentTerm[i] /\ raft_create(i)
    BY <1>2, <1>4 DEF Restart
  <2>3. QED
    BY <1>2, <1>3, <2>1, <2>2
<1>5. CASE TornElection(i)
  <2>1. currentTerm[i] + 1 \in Term
    BY <1>2, <1>5, BoundAssumption DEF TornElection, Term
  <2>2. /\ currentTerm' = [currentTerm EXCEPT ![i] = currentTerm[i] + 1]
        /\ votedFor' = [votedFor EXCEPT ![i] = votedFor[i]]
    BY <1>1, <1>5 DEF TornElection, TypeOK
  <2>3. currentTerm[i] <= currentTerm[i] + 1
    BY <1>2
  <2>4. QED
    BY <1>2, <1>3, <1>5, <2>1, <2>2, <2>3 DEF TornElection
<1>6. ASSUME NEW m \in BagToSet(net), TornStepDown(i, m) PROVE ElectionInv'
  <2>1. m.term \in Term /\ m.term \in Int /\ m.term > currentTerm[i]
    BY <1>1, <1>6, PacketKind DEF TypeOK, TornStepDown, Term
  <2>2. PICK v \in {votedFor[i], Nil} : votedFor' = [votedFor EXCEPT ![i] = v]
    BY <1>6 DEF TornStepDown
  <2>3. currentTerm' = [currentTerm EXCEPT ![i] = m.term] /\ raft_create(i)
    BY <1>6 DEF TornStepDown
  <2>4. currentTerm[i] <= m.term /\ v \in Server \cup {Nil}
    BY <1>2, <2>1
  <2>5. QED
    BY <1>3, <2>1, <2>2, <2>3, <2>4
<1>7. ASSUME NEW m \in BagToSet(net), TornAppend(i, m) PROVE ElectionInv'
  <2> DEFINE newer == m.term > currentTerm[i] \/ role[i] = "CANDIDATE"
             v == IF newer THEN Nil ELSE votedFor[i]
  <2>1. m.term \in Term /\ m.term \in Int /\ m.term >= currentTerm[i]
    BY <1>1, <1>7, PacketKind DEF TypeOK, TornAppend, Term
  <2>2. /\ currentTerm' = [currentTerm EXCEPT ![i] = m.term] /\ raft_create(i)
        /\ votedFor' = [votedFor EXCEPT ![i] = v]
    BY <1>7 DEF TornAppend
  <2>3. v \in Server \cup {Nil}
    BY <1>2
  <2>4. m.term > currentTerm[i] \/ v = votedFor[i] \/ (role[i] = "CANDIDATE" /\ v = Nil)
    OBVIOUS
  <2> HIDE DEF v
  <2>5. QED
    BY <1>2, <1>3, <2>1, <2>2, <2>3, <2>4
<1>8. QED
  BY <1>4, <1>5, <1>6, <1>7 DEF Crash

-----------------------------------------------------------------------------
LEMMA InitElection == Init => ElectionInv
<1> SUFFICES ASSUME Init PROVE ElectionInv
  OBVIOUS
<1>1. TypeOK
  BY InitType
<1>2. BagToSet(net) = {}
  BY DEF Init, EmptyBag, SetToBag, BagToSet
<1>3. elected = {} /\ \A i \in Server : role[i] = "FOLLOWER"
  BY DEF Init
<1>4. \A j, k, t : ~ InFlight(Grant(j, k, t)) /\ Ballots(j, k, t) = {}
  BY <1>2 DEF InFlight, BagIn, Ballots
<1>5. \A j, k \in Server, t \in Term : ~ Supports(j, k, t)
  BY <1>3, <1>4 DEF Supports, Standing
<1>6. QED
  BY <1>1, <1>3, <1>4, <1>5
     DEF ElectionInv, SupportUnique, SupportDurable, OwnVote, ElectedByMajority,
         CountedOnce, OneVoteEach, OneVote

LEMMA NextElection ==
    ASSUME ElectionInv, [Next]_vars
    PROVE  ElectionInv'
<1>1. TypeOK'
  BY NextType DEF ElectionInv
<1>2. CASE UNCHANGED vars
  <2>1. UNCHANGED <<currentTerm, votedFor, role, votesReceived, voters, elected, net>>
    BY <1>2 DEF vars, durable, electionVars, history
  <2>2. \A x : Copies(x, net) \in Nat /\ Copies(x, net') = Copies(x, net)
    BY <2>1, CopiesType DEF ElectionInv, TypeOK
  <2>3. QuietNet
    BY <2>2 DEF QuietNet
  <2>4. QED
    BY <1>1, <2>1, <2>3, QuietStep
<1>3. ASSUME NEW i \in Server, NEW m \in BagToSet(net), m.dst = i, raft_handle_rpc(i, m)
      PROVE  ElectionInv'
  BY <1>1, <1>3, AppendRequestElection, AppendResponseElection, VoteRequestElection,
     VoteResponseElection DEF raft_handle_rpc
<1>4. QED
  BY <1>1, <1>2, <1>3, TimeoutElection, ProcRequestElection, CrashElection
     DEF Next, raft_run

(* Two majorities share a node, which supports one candidate per term. *)
LEMMA ElectionInvSafe == ElectionInv => ElectionSafety
<1> SUFFICES ASSUME ElectionInv, NEW e \in elected, NEW f \in elected, e.term = f.term
             PROVE  e.leader = f.leader
  BY DEF ElectionSafety
<1>1. /\ e.term \in Term /\ e.leader \in Server /\ e.quorum \in SUBSET Server
      /\ f.leader \in Server /\ f.quorum \in SUBSET Server
  BY WinType DEF ElectionInv
<1>2. /\ IsFiniteSet(e.quorum) /\ IsFiniteSet(f.quorum)
      /\ Cardinality(e.quorum) \in Nat /\ Cardinality(f.quorum) \in Nat
      /\ Cardinality(Server) \in Nat
  BY <1>1, ServerAssumption, FS_Subset, FS_CardinalityType
<1>3. Cardinality(e.quorum) + Cardinality(f.quorum) > Cardinality(Server)
  <2>1. /\ Cardinality(e.quorum) > Cardinality(Server) \div 2
        /\ Cardinality(f.quorum) > Cardinality(Server) \div 2
    BY DEF ElectionInv, ElectedByMajority, Majority
  <2>2. QED
    BY <1>2, <2>1
<1>4. PICK j : j \in e.quorum /\ j \in f.quorum
  BY <1>1, <1>3, ServerAssumption, FS_MajoritiesIntersect
<1>5. j \in Server /\ Supports(j, e.leader, e.term) /\ Supports(j, f.leader, e.term)
  BY <1>1, <1>4 DEF Supports
<1>6. QED
  BY <1>1, <1>5 DEF ElectionInv, SupportUnique

(* The strengthening of ElectionSafety holds in every reachable state: a   *)
(* vote that is in flight, counted or part of a leadership is the only one *)
(* of its voter in that term and is still on the voter's disk.             *)
THEOREM ElectionInvariant == Spec => []ElectionInv
BY InitElection, NextElection, PTL DEF Spec

(* At most one node wins a term, for every cluster size and every bound,   *)
(* although votes_received is a bare counter and the durable vote may be   *)
(* erased by a candidate or left half written by a crash.                  *)
THEOREM OneLeaderPerTerm == Spec => []ElectionSafety
BY ElectionInvariant, ElectionInvSafe, PTL
=============================================================================
