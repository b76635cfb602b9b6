--------------------------- MODULE RaftLogProofs ---------------------------
(***************************************************************************)
(* Logs match, leaders only append, and match_index tells the truth, for   *)
(* every number of nodes, with lost, delayed and reordered packets,        *)
(* restarts and torn writes.                                               *)
(*                                                                         *)
(* LogInv is inductive relative to ElectionInv.  Two kinds of steps extend *)
(* leaderLog, the win of an election and a client's request; every other   *)
(* step is Tame: it leaves leaderLog alone, and what it writes to a log is *)
(* a prefix of the log of the node's leader.                               *)
(***************************************************************************)
EXTENDS RaftElectionProofs, RaftLogInv

-----------------------------------------------------------------------------
(* Logs that agree *)

LEMMA AgreeShorter ==
    ASSUME NEW l, NEW f, NEW n \in Int, NEW k \in Int, k <= n,
           Len(l) \in Nat, Len(f) \in Nat, Agree(l, f, n)
    PROVE  Agree(l, f, k)
BY DEF Agree

LEMMA AgreeTrans ==
    ASSUME NEW l, NEW f, NEW g, NEW n \in Int, Agree(l, f, n), Agree(f, g, n)
    PROVE  Agree(l, g, n)
BY DEF Agree

LEMMA AgreeSym ==
    ASSUME NEW l, NEW f, NEW n \in Int, Agree(l, f, n)
    PROVE  Agree(f, l, n)
BY DEF Agree

LEMMA LogFacts ==
    ASSUME NEW l \in LogType
    PROVE  /\ Len(l) \in Nat /\ Len(l) <= MaxLogLen /\ DOMAIN l = 1 .. Len(l)
           /\ \A k \in 1 .. Len(l) : l[k] \in Entry /\ l[k].term \in Term /\ l[k].req \in Request
           /\ l = <<>> <=> Len(l) = 0
<1>1. l \in Seq(Entry) /\ Len(l) <= MaxLogLen
  BY DEF LogType
<1>2. Len(l) \in Nat /\ DOMAIN l = 1 .. Len(l) /\ \A k \in 1 .. Len(l) : l[k] \in Entry
  BY <1>1
<1>3. l = <<>> <=> Len(l) = 0
  BY <1>1
<1>4. QED
  BY <1>1, <1>2, <1>3 DEF Entry

(* Agreement on everything is equality. *)
LEMMA AgreeAll ==
    ASSUME NEW l \in LogType, NEW f \in LogType, Len(l) = Len(f), Agree(l, f, Len(l))
    PROVE  l = f
BY DEF Agree, LogType

(* Log matching, for any two logs with the invariant's property. *)
LEMMA GroundedMatch ==
    ASSUME TypeOK, NEW l \in LogType, NEW f \in LogType, Grounded(l), Grounded(f),
           NEW n \in DOMAIN l, n \in DOMAIN f, l[n].term = f[n].term
    PROVE  Agree(l, f, n)
<1>1. Agree(l, leaderLog[l[n].term], n) /\ Agree(f, leaderLog[l[n].term], n)
  BY DEF Grounded
<1>2. QED
  BY <1>1 DEF Agree

LEMMA GroundedPrefix ==
    ASSUME TypeOK, NEW l \in LogType, NEW f \in LogType, Grounded(f),
           Agree(l, f, Len(l))
    PROVE  Grounded(l)
<1> SUFFICES ASSUME NEW p \in DOMAIN l PROVE Agree(l, leaderLog[l[p].term], p)
  BY DEF Grounded
<1>1. p \in 1 .. Len(l) /\ Len(l) \in Nat /\ Len(f) \in Nat /\ DOMAIN f = 1 .. Len(f)
  BY LogFacts
<1>2. p \in DOMAIN f /\ l[p] = f[p]
  BY <1>1 DEF Agree
<1>3. Agree(f, leaderLog[l[p].term], p)
  BY <1>2 DEF Grounded
<1>4. Agree(l, f, p)
  BY <1>1, AgreeShorter
<1>5. QED
  BY <1>1, <1>3, <1>4, AgreeTrans

-----------------------------------------------------------------------------
(* The merge loop, for a packet that is a slice of f *)

LEMMA MergeOutcome ==
    ASSUME TypeOK, NEW l \in LogType, NEW f \in LogType, Grounded(l), Grounded(f),
           NEW m \in append_entries_req_t, SliceOf(m, f), PrevMatches(l, m)
    PROVE  LET n == I32(m.prev_log_idx) + 1
               merged == Merge(l, n, m.entries)
           IN  /\ merged = l \/ Agree(merged, f, Len(merged))
               /\ Agree(merged, f, n + Len(m.entries))
               /\ \A q \in Nat : Agree(l, f, q) => Agree(merged, f, q)
               /\ \A p \in PartialMerges(l, n, m.entries) :
                     /\ Agree(p, f, Len(p))
                     /\ \A q \in Nat : Agree(l, f, q) => Agree(p, f, q)
<1> DEFINE n == I32(m.prev_log_idx) + 1
           es == m.entries
           k == Min(Misfits(l, n, es))
           merged == Merge(l, n, es)
<1>1. /\ Len(l) \in Nat /\ Len(f) \in Nat /\ DOMAIN l = 1 .. Len(l)
      /\ DOMAIN f = 1 .. Len(f)
      /\ \A p \in 1 .. Len(l) : l[p].term \in Term
      /\ \A p \in 1 .. Len(f) : f[p].term \in Term
  BY LogFacts
<1>2. es \in Seq(Entry) /\ Len(es) \in Nat /\ DOMAIN es = 1 .. Len(es) /\ n \in Nat
  BY IndexOfWire DEF append_entries_req_t, Index
<1>3. n <= Len(l) /\ n + Len(es) <= Len(f) /\ n + Len(es) <= MaxLogLen
      /\ n \in 0 .. Len(l)
  <2>1. I32(m.prev_log_idx) \in Int /\ I32(m.prev_log_idx) < Len(l)
    BY IndexOfWire DEF PrevMatches, append_entries_req_t, Index
  <2>2. n + Len(es) <= Len(f) /\ Len(f) <= MaxLogLen
    BY LogFacts DEF SliceOf
  <2>3. QED
    BY <1>1, <1>2, <2>1, <2>2, WordAssumption
<1>4. \A x \in 1 .. Len(es) : es[x] = f[n + x]
  BY <1>2 DEF SliceOf
<1>5. Agree(l, f, n)
  <2>1. CASE n = 0
    BY <1>1, <2>1 DEF Agree
  <2>2. CASE n > 0
    <3>1. n - 1 \in Int /\ ~ (n - 1 < 0) /\ n - 1 < Len(l) /\ n - 1 < Len(f)
      BY <1>1, <1>2, <1>3, <2>2
    <3>2. raft_get_log_term(l, n - 1) = l[n].term /\ raft_get_log_term(f, n - 1) = f[n].term
      BY <1>1, <1>2, <3>1 DEF raft_get_log_term
    <3>3. raft_get_log_term(l, n - 1) = raft_get_log_term(f, n - 1)
      <4>1. I32(m.prev_log_idx) = n - 1
        BY IndexOfWire DEF append_entries_req_t, Index
      <4>2. QED
        BY <4>1 DEF PrevMatches, SliceOf
    <3>4. n \in DOMAIN l /\ n \in DOMAIN f
      BY <1>1, <1>2, <1>3, <2>2
    <3>5. QED
      BY <3>2, <3>3, <3>4, GroundedMatch
  <2>3. QED
    BY <1>2, <2>1, <2>2
<1> HIDE DEF n, es
<1>6. ASSUME NEW x \in 1 .. Len(es), x \notin Misfits(l, n, es)
      PROVE  Agree(l, f, n + x)
  <2>1. n + x <= Len(l) /\ l[n + x].term = es[x].term
    BY <1>1, <1>2, <1>6 DEF Misfits
  <2>2. n + x \in DOMAIN l /\ n + x \in DOMAIN f /\ l[n + x].term = f[n + x].term
    BY <1>1, <1>2, <1>3, <1>4, <2>1
  <2>3. QED
    BY <2>2, GroundedMatch
<1>7. CASE Misfits(l, n, es) = {}
  <2>1. merged = l /\ PartialMerges(l, n, es) = {}
    BY <1>7 DEF Merge, PartialMerges
  <2>2. Agree(l, f, n + Len(es))
    <3>1. CASE Len(es) = 0
      BY <1>2, <1>5, <3>1
    <3>2. CASE Len(es) > 0
      BY <1>2, <1>6, <1>7, <3>2
    <3>3. QED
      BY <1>2, <3>1, <3>2
  <2>3. QED
    BY <2>1, <2>2 DEF n, es
<1>8. CASE Misfits(l, n, es) # {}
  <2>1. /\ k \in 1 .. Len(es) /\ n + k - 1 <= Len(l) /\ k \in Misfits(l, n, es)
        /\ \A x \in Misfits(l, n, es) : k <= x
    BY <1>2, <1>3, <1>8, FirstMisfit
  <2> HIDE DEF k
  <2>2. Agree(l, f, n + k - 1)
    <3>1. CASE k = 1
      BY <1>2, <1>5, <3>1
    <3>2. CASE k > 1
      <4>1. k - 1 \in 1 .. Len(es) /\ k - 1 \notin Misfits(l, n, es)
        BY <1>2, <2>1, <3>2
      <4>2. Agree(l, f, n + (k - 1))
        BY <1>6, <4>1
      <4>3. n + (k - 1) = n + k - 1
        BY <1>2, <2>1
      <4>4. QED
        BY <4>2, <4>3
    <3>3. QED
      BY <2>1, <3>1, <3>2
  <2>3. \A q \in Nat : Agree(l, f, q) => q <= n + k - 1
    <3> SUFFICES ASSUME NEW q \in Nat, Agree(l, f, q), q >= n + k PROVE FALSE
      BY <1>2, <2>1
    <3>1. n + k <= Len(l) /\ l[n + k] = f[n + k]
      BY <1>1, <1>2, <2>1 DEF Agree
    <3>2. QED
      BY <1>1, <1>2, <1>4, <2>1, <3>1 DEF Misfits
  <2> DEFINE keep == SubSeq(l, 1, n + k - 1)
             new == SubSeq(es, k, Len(es))
  <2>4. /\ keep \in Seq(Entry) /\ Len(keep) = n + k - 1
        /\ \A x \in 1 .. n + k - 1 : keep[x] = l[x]
    <3>1. l \in Seq(Entry) /\ n + k - 1 \in Nat
      BY <1>2, <2>1 DEF LogType
    <3>2. QED
      BY <2>1, <3>1, SubSeqType
  <2>5. /\ new \in Seq(Entry) /\ Len(new) = Len(es) - k + 1
        /\ \A x \in 1 .. Len(es) - k + 1 : new[x] = es[k + x - 1]
    BY <1>2, <2>1, SubSeqType
  <2>6. merged = keep \o new
    BY <1>8 DEF Merge, k
  <2> HIDE DEF keep, new
  <2>7. /\ Len(merged) = n + Len(es)
        /\ \A x \in 1 .. Len(keep) : merged[x] = keep[x]
        /\ \A x \in Len(keep) + 1 .. Len(keep) + Len(new) : merged[x] = new[x - Len(keep)]
    <3>1. /\ Len(keep \o new) = Len(keep) + Len(new)
          /\ \A x \in 1 .. Len(keep) + Len(new) :
                (keep \o new)[x] = IF x <= Len(keep) THEN keep[x] ELSE new[x - Len(keep)]
      BY <2>4, <2>5, ConcatProperties
    <3>2. Len(keep) \in Nat /\ Len(new) \in Nat
      BY <2>4, <2>5
    <3>3. Len(keep) + Len(new) = n + Len(es)
      BY <1>2, <2>1, <2>4, <2>5
    <3> HIDE DEF merged
    <3>4. QED
      BY <2>6, <3>1, <3>2, <3>3
  <2>8. Agree(merged, f, n + Len(es))
    <3>1. ASSUME NEW x \in 1 .. n + Len(es) PROVE merged[x] = f[x]
      <4>1. CASE x <= n + k - 1
        BY <1>2, <2>1, <2>2, <2>4, <2>7, <3>1, <4>1 DEF Agree
      <4>2. CASE x > n + k - 1
        <5>1. merged[x] = new[x - (n + k - 1)]
          <6>1. x \in Len(keep) + 1 .. Len(keep) + Len(new)
            BY <1>2, <2>1, <2>4, <2>5, <3>1, <4>2
          <6> HIDE DEF merged
          <6>2. QED
            BY <2>4, <2>7, <6>1
        <5>2. new[x - (n + k - 1)] = es[x - n]
          <6>1. x - (n + k - 1) \in 1 .. Len(es) - k + 1
            BY <1>2, <2>1, <3>1, <4>2
          <6>2. k + (x - (n + k - 1)) - 1 = x - n
            BY <1>2, <2>1, <3>1
          <6>3. QED
            BY <2>5, <6>1, <6>2
        <5>3. es[x - n] = f[x]
          <6>1. x - n \in 1 .. Len(es) /\ n + (x - n) = x
            BY <1>2, <2>1, <3>1, <4>2
          <6>2. QED
            BY <1>4, <6>1
        <5>4. QED
          BY <5>1, <5>2, <5>3
      <4>3. QED
        BY <1>2, <2>1, <3>1, <4>1, <4>2
    <3>2. QED
      BY <1>1, <1>2, <1>3, <2>7, <3>1 DEF Agree
  <2>9. \A q \in Nat : Agree(l, f, q) => Agree(merged, f, q)
    <3> SUFFICES ASSUME NEW q \in Nat, Agree(l, f, q) PROVE Agree(merged, f, q)
      OBVIOUS
    <3>1. q <= n + Len(es)
      BY <1>2, <2>1, <2>3
    <3> HIDE DEF merged
    <3>2. QED
      BY <1>1, <1>2, <2>7, <2>8, <3>1, AgreeShorter
  <2>10. ASSUME NEW p \in PartialMerges(l, n, es)
         PROVE  Agree(p, f, Len(p)) /\ \A q \in Nat : Agree(l, f, q) => Agree(p, f, q)
    <3>1. PICK z \in n + k - 1 .. Len(merged) - 1 : p = SubSeq(merged, 1, z)
      BY <1>8, <2>10 DEF PartialMerges, k
    <3>2. merged \in Seq(Entry)
      BY <1>2, <1>3, MergeType DEF LogType
    <3>3. z \in Nat /\ z <= n + Len(es) /\ z <= Len(merged) /\ n + k - 1 <= z
      BY <1>2, <2>1, <2>7, <3>1
    <3> HIDE DEF merged
    <3>4. Len(p) = z /\ \A x \in 1 .. z : p[x] = merged[x]
      BY <3>1, <3>2, <3>3, SubSeqType
    <3>5. Agree(p, f, z)
      BY <1>1, <1>2, <2>8, <3>3, <3>4 DEF Agree
    <3>6. ASSUME NEW q \in Nat, Agree(l, f, q) PROVE Agree(p, f, q)
      <4>1. q <= z
        BY <1>2, <2>1, <2>3, <3>3, <3>6
      <4>2. QED
        BY <1>1, <3>3, <3>4, <3>5, <4>1, AgreeShorter
    <3>7. QED
      BY <3>4, <3>5, <3>6
  <2>11. QED
    BY <2>7, <2>8, <2>9, <2>10 DEF n, es
<1>9. QED
  BY <1>7, <1>8 DEF n, es

-----------------------------------------------------------------------------
(* What a step does to leaderLog, to a node and to the network *)

Growth ==
    /\ \A t \in Term : Agree(leaderLog[t], leaderLog'[t], Len(leaderLog[t]))
    /\ elected \subseteq elected'
    /\ \A j \in Server : currentTerm[j] <= currentTerm'[j]

(* A log changes only towards the log of its node's leader. *)
LogStep(j) ==
    LET u == currentTerm'[j]
    IN  \/ log'[j] = log[j]
        \/ /\ Won(u) /\ role'[j] # "CANDIDATE"
           /\ Agree(log'[j], leaderLog'[u], Len(log'[j]))
           /\ \A n \in Nat : Agree(log[j], leaderLog[u], n) => Agree(log'[j], leaderLog'[u], n)

(* Other than by winning, a node's role and term change only in these ways. *)
RoleStep(j) ==
    \/ role'[j] = role[j] /\ currentTerm'[j] = currentTerm[j]
    \/ role'[j] = "FOLLOWER" /\ currentTerm[j] <= currentTerm'[j]
    \/ role'[j] = "CANDIDATE" /\ currentTerm'[j] = currentTerm[j] + 1

AppendRequestOK(m) ==
    m.src # m.dst /\ LeaderOf(m.term, m.src) /\ SliceOf(m, leaderLog[m.term])
AckOK(m) ==
    \/ m.term < currentTerm[m.dst]
    \/ /\ m.src # m.dst /\ LeaderOf(m.term, m.dst)
       /\ Kept(m.src, m.term, I32(m.new_match_index) + 1)

(* The appends and positive acknowledgements it sends are legal. *)
LegalNet ==
    /\ \A m \in AppendRequests' : m \in AppendRequests \/ AppendRequestOK(m)'
    /\ \A m \in Acks' : m \in Acks \/ AckOK(m)'

(* What a leader knows of its peers stays within its log and true. *)
LegalIndexes ==
    \A i \in Server : role'[i] = "LEADER" =>
        /\ log'[i] = log[i]
        /\ \A j \in Server :
              /\ nextIndex'[i][j] <= Len(log[i])
              /\ j # i => \/ matchIndex'[i][j] = matchIndex[i][j]
                          \/ Kept(j, currentTerm[i], matchIndex'[i][j] + 1)

Tame ==
    /\ UNCHANGED <<leaderLog, elected>>
    /\ \A j \in Server : RoleStep(j) /\ LogStep(j)
    /\ LegalNet /\ LegalIndexes

LEMMA TypeFacts ==
    ASSUME TypeOK
    PROVE  /\ \A i \in Server : log[i] \in LogType
           /\ \A i \in Server : currentTerm[i] \in Term /\ currentTerm[i] \in Nat
           /\ \A t \in Term : leaderLog[t] \in LogType /\ t \in Nat
           /\ \A i, j \in Server : matchIndex[i][j] \in Index /\ matchIndex[i][j] + 1 \in Nat
           /\ \A i, j \in Server : nextIndex[i][j] \in 0 .. MaxLogLen
           /\ \A m \in AppendRequests : m \in append_entries_req_t /\ m \in BagToSet(net)
           /\ \A m \in Acks : m \in append_entries_res_t /\ m \in BagToSet(net)
<1>1. \A m \in AppendRequests : m \in append_entries_req_t /\ m \in BagToSet(net)
  BY PacketKind DEF TypeOK, AppendRequests
<1>2. \A m \in Acks : m \in append_entries_res_t /\ m \in BagToSet(net)
  BY PacketKind DEF TypeOK, Acks
<1>3. \A i, j \in Server : matchIndex[i][j] \in Index /\ matchIndex[i][j] + 1 \in Nat
  <2>1. \A i, j \in Server : matchIndex[i][j] \in Index
    BY DEF TypeOK
  <2>2. \A k \in Index : k + 1 \in Nat
    BY DEF Index
  <2>3. QED
    BY <2>1, <2>2
<1>4. \A i \in Server : currentTerm[i] \in Term /\ currentTerm[i] \in Nat
  BY DEF TypeOK, Term
<1>5. (\A t \in Term : leaderLog[t] \in LogType) /\ \A t \in Term : t \in Nat
  <2>1. \A t \in Term : leaderLog[t] \in LogType
    BY DEF TypeOK
  <2>2. \A t \in Term : t \in Nat
    BY DEF Term
  <2>3. QED
    BY <2>1, <2>2
<1>6. \A i, j \in Server : log[i] \in LogType /\ nextIndex[i][j] \in 0 .. MaxLogLen
  BY DEF TypeOK
<1>7. QED
  BY <1>1, <1>2, <1>3, <1>4, <1>5, <1>6

(* The same of the next state. *)
LEMMA TypeFactsNext ==
    ASSUME TypeOK'
    PROVE  /\ \A i \in Server : log'[i] \in LogType
           /\ \A i \in Server : currentTerm'[i] \in Term /\ currentTerm'[i] \in Nat
           /\ \A t \in Term : leaderLog'[t] \in LogType /\ t \in Nat
           /\ \A i, j \in Server : matchIndex'[i][j] \in Index /\ matchIndex'[i][j] + 1 \in Nat
           /\ \A i, j \in Server : nextIndex'[i][j] \in 0 .. MaxLogLen
           /\ \A m \in AppendRequests' : m \in append_entries_req_t /\ m \in BagToSet(net')
           /\ \A m \in Acks' : m \in append_entries_res_t /\ m \in BagToSet(net')
<1>1. \A m \in AppendRequests' : m \in append_entries_req_t /\ m \in BagToSet(net')
  BY PacketKind DEF TypeOK, AppendRequests
<1>2. \A m \in Acks' : m \in append_entries_res_t /\ m \in BagToSet(net')
  BY PacketKind DEF TypeOK, Acks
<1>3. \A i, j \in Server : matchIndex'[i][j] \in Index /\ matchIndex'[i][j] + 1 \in Nat
  BY DEF TypeOK, Index
<1>4. \A i \in Server : currentTerm'[i] \in Term /\ currentTerm'[i] \in Nat
  BY DEF TypeOK, Term
<1>5. (\A t \in Term : leaderLog'[t] \in LogType) /\ \A t \in Term : t \in Nat
  <2>1. \A t \in Term : leaderLog'[t] \in LogType
    BY DEF TypeOK
  <2>2. \A t \in Term : t \in Nat
    BY DEF Term
  <2>3. QED
    BY <2>1, <2>2
<1>6. \A i, j \in Server : log'[i] \in LogType /\ nextIndex'[i][j] \in 0 .. MaxLogLen
  BY DEF TypeOK
<1>7. QED
  BY <1>1, <1>2, <1>3, <1>4, <1>5, <1>6

(* Packets in flight after a step were there or have just been sent. *)
LEMMA ConsumeNet ==
    ASSUME TypeOK, NEW m \in BagToSet(net), NEW out, Consume(m, out)
    PROVE  BagToSet(net') \subseteq BagToSet(net) \cup out
<1> DEFINE rest == net (-) SetToBag({m})
<1>1. IsABag(rest) /\ BagToSet(rest) \subseteq BagToSet(net)
  BY RemoveOne DEF TypeOK
<1>2. Deliver(rest, out)
  BY DEF Consume
<1> HIDE DEF rest
<1>3. QED
  BY <1>1, <1>2, DeliverBag

LEMMA SendNet ==
    ASSUME TypeOK, NEW out, Send(out)
    PROVE  BagToSet(net') \subseteq BagToSet(net) \cup out
BY DeliverBag DEF Send, TypeOK

LEMMA KeptStep ==
    ASSUME TypeOK, TypeOK', Growth, NEW j \in Server, LogStep(j), NEW t \in Term,
           NEW n \in Nat, Kept(j, t, n)
    PROVE  Kept(j, t, n)'
<1>1. /\ Len(leaderLog[t]) \in Nat /\ Len(leaderLog'[t]) \in Nat
      /\ currentTerm[j] \in Nat /\ currentTerm'[j] \in Nat /\ t \in Nat
  BY TypeFacts, TypeFactsNext, LogFacts
<1>2. Agree(leaderLog[t], leaderLog'[t], Len(leaderLog[t])) /\ currentTerm[j] <= currentTerm'[j]
  BY DEF Growth
<1>3. n <= Len(leaderLog'[t])
  BY <1>1, <1>2 DEF Kept, Agree
<1>4. ASSUME n > 0, t = currentTerm'[j]
      PROVE  Agree(log'[j], leaderLog'[t], n)
  <2>1. Agree(log[j], leaderLog[t], n)
    BY <1>1, <1>2, <1>4 DEF Kept
  <2>2. CASE log'[j] = log[j]
    <3>1. Agree(leaderLog[t], leaderLog'[t], n)
      BY <1>1, <1>2, <2>1, AgreeShorter DEF Agree
    <3>2. QED
      BY <2>1, <2>2, <3>1, AgreeTrans
  <2>3. CASE log'[j] # log[j]
    BY <1>4, <2>1, <2>3 DEF LogStep
  <2>4. QED
    BY <2>2, <2>3
<1>5. QED
  BY <1>1, <1>2, <1>3, <1>4 DEF Kept

LEMMA SliceStep ==
    ASSUME NEW l \in LogType, NEW f \in LogType, Agree(l, f, Len(l)),
           NEW m \in append_entries_req_t, SliceOf(m, l)
    PROVE  SliceOf(m, f)
<1> DEFINE n == I32(m.prev_log_idx) + 1
<1>1. n \in Nat /\ Len(m.entries) \in Nat /\ DOMAIN m.entries = 1 .. Len(m.entries)
  BY IndexOfWire DEF append_entries_req_t, Index
<1>2. Len(l) \in Nat /\ Len(f) \in Nat
  BY LogFacts
<1>3. n + Len(m.entries) <= Len(l) /\ m.prev_log_term = raft_get_log_term(l, n - 1)
      /\ \A k \in DOMAIN m.entries : m.entries[k] = l[n + k]
  BY DEF SliceOf
<1>4. Len(l) <= Len(f) /\ \A k \in 1 .. Len(l) : l[k] = f[k]
  BY DEF Agree
<1> HIDE DEF n
<1>5. raft_get_log_term(l, n - 1) = raft_get_log_term(f, n - 1)
  BY <1>1, <1>2, <1>3, <1>4 DEF raft_get_log_term
<1>6. \A k \in DOMAIN m.entries : n + k \in 1 .. Len(l)
  BY <1>1, <1>2, <1>3
<1>7. /\ n + Len(m.entries) <= Len(f)
      /\ \A k \in DOMAIN m.entries : m.entries[k] = f[n + k]
  BY <1>1, <1>2, <1>3, <1>4, <1>6
<1>8. QED
  BY <1>3, <1>5, <1>7 DEF SliceOf, n

(* The network stays legal. *)
LEMMA NetStep ==
    ASSUME TypeOK, TypeOK', LogInv, Growth, \A j \in Server : LogStep(j), LegalNet
    PROVE  RequestsAreSlices' /\ AcksTruthful'
<1>1. ASSUME NEW m \in AppendRequests' PROVE AppendRequestOK(m)'
  <2>1. CASE m \in AppendRequests
    <3>1. m \in append_entries_req_t /\ m.term \in Term
      BY <2>1, TypeFacts DEF append_entries_req_t
    <3>2. m.src # m.dst /\ LeaderOf(m.term, m.src) /\ SliceOf(m, leaderLog[m.term])
      BY <2>1 DEF LogInv, RequestsAreSlices
    <3>3. SliceOf(m, leaderLog'[m.term])
      BY <3>1, <3>2, SliceStep, TypeFacts, TypeFactsNext DEF Growth
    <3>4. LeaderOf(m.term, m.src)'
      BY <3>2 DEF LeaderOf, Growth
    <3>5. QED
      BY <3>2, <3>3, <3>4 DEF AppendRequestOK
  <2>2. QED
    BY <1>1, <2>1 DEF LegalNet
<1>2. ASSUME NEW m \in Acks' PROVE AckOK(m)'
  <2>1. CASE m \in Acks
    <3>1. m \in append_entries_res_t /\ m.term \in Term /\ m.src \in Server /\ m.dst \in Server
      BY <2>1, TypeFacts DEF append_entries_res_t
    <3>2. I32(m.new_match_index) + 1 \in Nat
      BY <3>1, IndexOfWire DEF append_entries_res_t, Index
    <3>3. AckOK(m)
      BY <2>1 DEF LogInv, AcksTruthful, AckOK
    <3>4. CASE m.term < currentTerm[m.dst]
      <4>1. m.term < currentTerm'[m.dst]
        BY <3>1, <3>4, TypeFacts, TypeFactsNext DEF Growth
      <4>2. QED
        BY <4>1 DEF AckOK
    <3>5. CASE ~ (m.term < currentTerm[m.dst])
      <4>1. m.src # m.dst /\ LeaderOf(m.term, m.dst)
            /\ Kept(m.src, m.term, I32(m.new_match_index) + 1)
        BY <3>3, <3>5 DEF AckOK
      <4>2. Kept(m.src, m.term, I32(m.new_match_index) + 1)'
        BY <3>1, <3>2, <4>1, KeptStep
      <4>3. LeaderOf(m.term, m.dst)'
        BY <4>1 DEF LeaderOf, Growth
      <4>4. QED
        BY <4>1, <4>2, <4>3 DEF AckOK
    <3>6. QED
      BY <3>4, <3>5
  <2>2. QED
    BY <1>2, <2>1 DEF LegalNet
<1>3. QED
  BY <1>1, <1>2 DEF RequestsAreSlices, AcksTruthful, AppendRequestOK, AckOK

LEMMA RoleFacts ==
    ASSUME TypeOK, NEW j \in Server, RoleStep(j)
    PROVE  /\ currentTerm[j] <= currentTerm'[j]
           /\ role'[j] = "LEADER" => role[j] = "LEADER" /\ currentTerm'[j] = currentTerm[j]
           /\ role'[j] # "FOLLOWER" =>
                 \/ role[j] # "FOLLOWER" /\ currentTerm'[j] = currentTerm[j]
                 \/ currentTerm'[j] > 0
BY TypeFacts DEF RoleStep

LEMMA TameGrowth ==
    ASSUME TypeOK, Tame
    PROVE  Growth
<1>1. \A t \in Term : Agree(leaderLog[t], leaderLog[t], Len(leaderLog[t]))
  BY TypeFacts, LogFacts DEF Agree
<1>2. \A j \in Server : currentTerm[j] <= currentTerm'[j]
  BY RoleFacts DEF Tame
<1>3. QED
  BY <1>1, <1>2 DEF Tame, Growth

LEMMA TameStep ==
    ASSUME TypeOK, TypeOK', LogInv, Tame
    PROVE  LogInv'
<1>1. Growth
  BY TameGrowth
<1>2. /\ UNCHANGED <<leaderLog, elected>> /\ \A j \in Server : RoleStep(j) /\ LogStep(j)
      /\ LegalNet /\ LegalIndexes
  BY DEF Tame
<1>3. RequestsAreSlices' /\ AcksTruthful'
  BY <1>1, <1>2, NetStep
<1>4. TermsPositive'
  BY <1>2, RoleFacts DEF LogInv, TermsPositive
<1>5. LeadersOwnLog'
  <2> SUFFICES ASSUME NEW i \in Server, role'[i] = "LEADER"
               PROVE  /\ LeaderOf(currentTerm[i], i)'
                      /\ log'[i] = leaderLog'[currentTerm'[i]]
                      /\ \A j \in Server : nextIndex'[i][j] <= Len(log'[i])
    BY DEF LeadersOwnLog, LeaderOf
  <2>1. role[i] = "LEADER" /\ currentTerm'[i] = currentTerm[i]
    BY <1>2, RoleFacts
  <2>2. LeaderOf(currentTerm[i], i) /\ log[i] = leaderLog[currentTerm[i]]
    BY <2>1 DEF LogInv, LeadersOwnLog
  <2>3. log'[i] = log[i] /\ \A j \in Server : nextIndex'[i][j] <= Len(log[i])
    BY <1>2 DEF LegalIndexes
  <2>4. QED
    BY <1>2, <2>1, <2>2, <2>3 DEF LeaderOf
<1>6. OnlyLeadersWrite'
  BY <1>2 DEF LogInv, OnlyLeadersWrite, Won
<1>7. LogsGrounded'
  <2>1. ASSUME NEW i \in Server PROVE Grounded(log'[i])
    <3>1. CASE log'[i] = log[i]
      BY <3>1 DEF LogInv, LogsGrounded
    <3>2. CASE log'[i] # log[i]
      <4>1. Agree(log'[i], leaderLog[currentTerm'[i]], Len(log'[i]))
        BY <1>2, <3>2 DEF LogStep
      <4>2. /\ log'[i] \in LogType /\ leaderLog[currentTerm'[i]] \in LogType
            /\ Grounded(leaderLog[currentTerm'[i]])
        BY TypeFacts, TypeFactsNext DEF LogInv, LogsGrounded
      <4>3. QED
        BY <4>1, <4>2, GroundedPrefix
    <3>3. QED
      BY <3>1, <3>2
  <2>2. QED
    BY <1>2, <2>1 DEF LogInv, LogsGrounded, Grounded
<1>8. TermsOrdered'
  <2>1. ASSUME NEW i \in Server, NEW p \in DOMAIN log'[i]
        PROVE  log'[i][p].term <= currentTerm'[i]
    <3>1. CASE log'[i] = log[i]
      <4>1. log[i][p].term <= currentTerm[i]
        BY <2>1, <3>1 DEF LogInv, TermsOrdered
      <4>2. log[i][p].term \in Nat /\ currentTerm[i] \in Nat /\ currentTerm'[i] \in Nat
        BY <2>1, <3>1, TypeFacts, TypeFactsNext, LogFacts
      <4>3. QED
        BY <1>2, <3>1, <4>1, <4>2, RoleFacts
    <3>2. CASE log'[i] # log[i]
      <4>1. Agree(log'[i], leaderLog[currentTerm'[i]], Len(log'[i]))
        BY <1>2, <3>2 DEF LogStep
      <4>2. /\ currentTerm'[i] \in Term
            /\ log'[i] \in LogType /\ leaderLog[currentTerm'[i]] \in LogType
        BY TypeFacts, TypeFactsNext
      <4>3. p \in 1 .. Len(log'[i]) /\ p \in DOMAIN leaderLog[currentTerm'[i]]
        BY <2>1, <4>1, <4>2, LogFacts DEF Agree
      <4>4. log'[i][p] = leaderLog[currentTerm'[i]][p]
        BY <4>1, <4>3 DEF Agree
      <4>5. QED
        BY <4>2, <4>3, <4>4 DEF LogInv, TermsOrdered
    <3>3. QED
      BY <3>1, <3>2
  <2>2. QED
    BY <1>2, <2>1 DEF LogInv, TermsOrdered
<1>9. MatchesTruthful'
  <2> SUFFICES ASSUME NEW i \in Server, NEW j \in Server, role'[i] = "LEADER", j # i
               PROVE  Kept(j, currentTerm[i], matchIndex[i][j] + 1)'
    BY DEF MatchesTruthful, Kept
  <2>1. role[i] = "LEADER" /\ currentTerm'[i] = currentTerm[i]
    BY <1>2, RoleFacts
  <2>2. Kept(j, currentTerm[i], matchIndex[i][j] + 1)
    BY <2>1 DEF LogInv, MatchesTruthful
  <2>3. Kept(j, currentTerm[i], matchIndex'[i][j] + 1)
    BY <1>2, <2>2 DEF LegalIndexes
  <2>4. matchIndex'[i][j] + 1 \in Nat /\ currentTerm[i] \in Term
    BY TypeFacts, TypeFactsNext
  <2>5. \A t \in Term, n \in Nat : Kept(j, t, n) => Kept(j, t, n)'
    BY <1>1, <1>2, KeptStep
  <2>6. QED
    BY <2>1, <2>3, <2>4, <2>5 DEF Kept
<1>10. QED
  BY <1>3, <1>4, <1>5, <1>6, <1>7, <1>8, <1>9 DEF LogInv

-----------------------------------------------------------------------------
(* Steps that extend leaderLog *)

LEMMA GroundedGrows ==
    ASSUME TypeOK, TypeOK', Growth, NEW l \in LogType, Grounded(l)
    PROVE  \A p \in DOMAIN l : Agree(l, leaderLog'[l[p].term], p)
<1> SUFFICES ASSUME NEW p \in DOMAIN l PROVE Agree(l, leaderLog'[l[p].term], p)
  OBVIOUS
<1> DEFINE u == l[p].term
<1>1. p \in Nat /\ u \in Term
  BY LogFacts
<1>2. Agree(l, leaderLog[u], p)
  BY DEF Grounded
<1>3. Agree(leaderLog[u], leaderLog'[u], Len(leaderLog[u]))
  BY <1>1 DEF Growth
<1> HIDE DEF u
<1>4. Len(leaderLog[u]) \in Nat /\ Len(leaderLog'[u]) \in Nat
  BY <1>1, TypeFacts, TypeFactsNext, LogFacts
<1>5. p <= Len(leaderLog[u])
  BY <1>2 DEF Agree
<1>6. Agree(leaderLog[u], leaderLog'[u], p)
  BY <1>1, <1>3, <1>4, <1>5, AgreeShorter
<1>7. QED
  BY <1>1, <1>2, <1>6, AgreeTrans DEF u

(* The packets a leader sends are slices of its log. *)
LEMMA SentSlice ==
    ASSUME NEW i, NEW j \in Server, NEW l \in LogType,
           NEW next \in [Server -> 0 .. MaxLogLen], next[j] <= Len(l),
           NEW es, es = <<>> \/ es = EntriesFrom(l, next[j])
    PROVE  SliceOf(AppendEntriesTo(i, j, l, next, es), l)
<1> DEFINE m == AppendEntriesTo(i, j, l, next, es)
           n == next[j]
<1>1. n \in Nat /\ n <= Len(l) /\ n <= MaxLogLen /\ Len(l) \in Nat /\ l \in Seq(Entry)
  BY LogFacts DEF LogType
<1>2. /\ m.prev_log_idx = U32(n - 1) /\ m.entries = es
      /\ m.prev_log_term = raft_get_log_term(l, I32(n) - 1)
  BY DEF AppendEntriesTo
<1>3. I32(m.prev_log_idx) = n - 1 /\ I32(n) = n
  <2>1. n - 1 \in Index
    BY <1>1, WordAssumption DEF Index
  <2>2. I32(n) = n
    BY <1>1, WordAssumption DEF I32
  <2>3. QED
    BY <1>2, <2>1, <2>2, WireOfIndex
<1>4. Len(es) \in Nat /\ n + Len(es) <= Len(l)
      /\ \A k \in DOMAIN es : es[k] = l[n + k]
  <2>1. CASE es = <<>>
    BY <1>1, <2>1
  <2>2. CASE es = EntriesFrom(l, n)
    <3> DEFINE b == IF Len(l) - n > MAX_APPEND_ENTRIES_N
                    THEN n + MAX_APPEND_ENTRIES_N ELSE Len(l)
    <3>1. b \in Int /\ b <= Len(l) /\ b >= n /\ n + 1 \in Int /\ n + 1 >= 1
      BY <1>1, CapacityAssumption
    <3>2. es = SubSeq(l, n + 1, b)
      BY <2>2 DEF EntriesFrom
    <3> HIDE DEF b, n
    <3>3. /\ Len(es) = IF n + 1 <= b THEN b - (n + 1) + 1 ELSE 0
          /\ es \in Seq(Entry)
          /\ \A k \in 1 .. b - (n + 1) + 1 : es[k] = l[n + 1 + k - 1]
      BY <1>1, <3>1, <3>2, SubSeqType
    <3>4. Len(es) = b - n /\ DOMAIN es = 1 .. b - n
      BY <1>1, <3>1, <3>3
    <3>5. QED
      BY <1>1, <3>1, <3>3, <3>4
  <2>3. QED
    BY <2>1, <2>2
<1> HIDE DEF m, n
<1>5. I32(m.prev_log_idx) + 1 = n /\ n - 1 = I32(n) - 1
  BY <1>1, <1>3
<1>6. QED
  BY <1>1, <1>2, <1>4, <1>5 DEF SliceOf, m

(* Terms grow along every log. *)
LEMMA GroundedOrdered ==
    ASSUME TypeOK, LogInv, NEW l \in LogType, Grounded(l), NEW p \in DOMAIN l,
           NEW q \in 1 .. p
    PROVE  l[q].term <= l[p].term
<1> DEFINE u == l[p].term
<1>1. p \in 1 .. Len(l) /\ Len(l) \in Nat /\ u \in Term
  BY LogFacts
<1>2. Agree(l, leaderLog[u], p)
  BY DEF Grounded
<1> HIDE DEF u
<1>3. p \in DOMAIN leaderLog[u] /\ l[p] = leaderLog[u][p] /\ l[q] = leaderLog[u][q]
  BY <1>1, <1>2, TypeFacts, LogFacts DEF Agree
<1>4. leaderLog[u][q].term <= leaderLog[u][p].term
  BY <1>1, <1>3 DEF LogInv, TermsOrdered
<1>5. QED
  BY <1>3, <1>4

LEMMA ElectionSafeNext ==
    ASSUME ElectionInv'
    PROVE  ElectionSafety'
<1>1. (ElectionInv => ElectionSafety)'
  BY ElectionInvSafe, PTL
<1>2. QED
  BY <1>1

(* The term a candidate wins had no leader. *)
LEMMA FirstWin ==
    ASSUME ElectionInv, ElectionInv', NEW i \in Server, role[i] = "CANDIDATE",
           elected \subseteq elected',
           \E f \in elected' : f.term = currentTerm[i] /\ f.leader = i
    PROVE  ~ Won(currentTerm[i])
<1> SUFFICES ASSUME NEW e \in elected, e.term = currentTerm[i] PROVE FALSE
  BY DEF Won
<1>1. e.leader = i
  BY ElectionSafeNext DEF ElectionSafety
<1>2. e.term < currentTerm[i] /\ currentTerm[i] \in Nat
  BY <1>1, TypeFacts DEF ElectionInv, OwnVote
<1>3. QED
  BY <1>2

LEMMA WinStep ==
    ASSUME ElectionInv, ElectionInv', LogInv, NEW i \in Server, NEW m \in BagToSet(net),
           role[i] = "CANDIDATE", become_leader(i, m), UNCHANGED durable
    PROVE  LogInv' /\ Growth /\ (\A j \in Server : log'[j] = log[j])
<1> DEFINE t == currentTerm[i]
           next == [j \in Server |-> U32(Len(log[i]))]
<1>1. TypeOK /\ TypeOK'
  BY DEF ElectionInv
<1>2. /\ role' = [role EXCEPT ![i] = "LEADER"]
      /\ nextIndex' = [nextIndex EXCEPT ![i] = next]
      /\ matchIndex' = [matchIndex EXCEPT ![i] = [j \in Server |-> -1]]
      /\ leaderLog' = [leaderLog EXCEPT ![t] = log[i]]
      /\ Consume(m, send_heartbeats(i, next))
      /\ elected \subseteq elected'
      /\ \E f \in elected' : f.term = t /\ f.leader = i
      /\ \A f \in elected' : f \in elected \/ f.term = t
      /\ UNCHANGED <<currentTerm, log>>
  <2> DEFINE win == [term |-> t, leader |-> i, quorum |-> voters[i] \cup {m.src}]
  <2>1. elected' = elected \cup {win} /\ win.term = t /\ win.leader = i
    BY DEF become_leader
  <2> HIDE DEF win
  <2>2. /\ elected \subseteq elected'
        /\ \E f \in elected' : f.term = t /\ f.leader = i
        /\ \A f \in elected' : f \in elected \/ f.term = t
    BY <2>1
  <2>3. QED
    BY <2>2 DEF become_leader, durable
<1>3. t \in Term /\ log[i] \in LogType /\ Len(log[i]) \in Nat /\ t \in Nat /\ t > 0
  BY <1>1, TypeFacts, LogFacts DEF LogInv, TermsPositive
<1>4. ~ Won(t)
  BY <1>2, FirstWin
<1>5. leaderLog[t] = <<>>
  BY <1>3, <1>4 DEF LogInv, OnlyLeadersWrite
<1>6. leaderLog'[t] = log[i] /\ \A u \in Term : u # t => leaderLog'[u] = leaderLog[u]
  BY <1>1, <1>2, <1>3 DEF TypeOK
<1>7. \A j \in Server : j # i => /\ role'[j] = role[j]
                                 /\ nextIndex'[j] = nextIndex[j] /\ matchIndex'[j] = matchIndex[j]
  BY <1>1, <1>2 DEF TypeOK
<1>8. role'[i] = "LEADER" /\ nextIndex'[i] = next /\ matchIndex'[i] = [j \in Server |-> -1]
  BY <1>1, <1>2 DEF TypeOK
<1>9. next \in [Server -> 0 .. MaxLogLen] /\ \A j \in Server : next[j] = Len(log[i])
  <2>1. U32(Len(log[i])) = Len(log[i])
    BY <1>3, LogFacts, WordAssumption DEF U32
  <2>2. QED
    BY <1>1, <2>1, LogLenType
<1> HIDE DEF next, t
<1>10. Growth
  <2>1. ASSUME NEW u \in Term PROVE Agree(leaderLog[u], leaderLog'[u], Len(leaderLog[u]))
    <3>1. CASE u = t
      <4>1. Len(leaderLog[u]) = 0
        BY <1>5, <3>1
      <4>2. QED
        BY <1>3, <1>6, <3>1, <4>1 DEF Agree
    <3>2. CASE u # t
      BY <1>1, <1>6, <3>2, TypeFacts, LogFacts DEF Agree
    <3>3. QED
      BY <3>1, <3>2
  <2>2. \A j \in Server : currentTerm[j] <= currentTerm'[j]
    BY <1>1, <1>2, TypeFacts
  <2>3. QED
    BY <1>2, <2>1, <2>2 DEF Growth
<1>11. \A j \in Server : log'[j] = log[j] /\ LogStep(j)
  BY <1>2 DEF LogStep
<1>12. LegalNet
  <2>1. BagToSet(net') \subseteq BagToSet(net) \cup send_heartbeats(i, next)
    BY <1>1, <1>2, ConsumeNet
  <2>2. ASSUME NEW x \in send_heartbeats(i, next)
        PROVE  x.code = "RPC_CALL_APPEND_ENT" /\ AppendRequestOK(x)'
    <3>1. PICK j \in Server \ {i} : x = AppendEntriesTo(i, j, log[i], next, <<>>)
      BY <2>2 DEF send_heartbeats
    <3>2. x.src = i /\ x.dst = j /\ x.term = t /\ x.code = "RPC_CALL_APPEND_ENT"
      BY <3>1 DEF AppendEntriesTo, t
    <3>3. SliceOf(x, log[i])
      BY <1>3, <1>9, <3>1, SentSlice
    <3>4. LeaderOf(x.term, x.src)'
      BY <1>2, <3>2 DEF LeaderOf
    <3>5. SliceOf(x, leaderLog'[x.term])
      BY <1>6, <3>2, <3>3
    <3>6. QED
      BY <3>2, <3>4, <3>5 DEF AppendRequestOK
  <2>3. QED
    BY <2>1, <2>2 DEF LegalNet, AppendRequests, Acks
<1>13. RequestsAreSlices' /\ AcksTruthful'
  BY <1>1, <1>10, <1>11, <1>12, NetStep
<1>14. TermsPositive'
  BY <1>2, <1>3, <1>7 DEF LogInv, TermsPositive, t
<1>15. LeadersOwnLog'
  <2> SUFFICES ASSUME NEW k \in Server, role'[k] = "LEADER"
               PROVE  /\ LeaderOf(currentTerm[k], k)'
                      /\ log'[k] = leaderLog'[currentTerm'[k]]
                      /\ \A j \in Server : nextIndex'[k][j] <= Len(log'[k])
    BY DEF LeadersOwnLog
  <2>1. CASE k = i
    BY <1>2, <1>3, <1>6, <1>8, <1>9, <2>1 DEF LeaderOf, t
  <2>2. CASE k # i
    <3>1. /\ LeaderOf(currentTerm[k], k) /\ log[k] = leaderLog[currentTerm[k]]
          /\ \A j \in Server : nextIndex[k][j] <= Len(log[k])
      BY <1>7, <2>2 DEF LogInv, LeadersOwnLog
    <3>2. currentTerm[k] # t /\ currentTerm[k] \in Term
      BY <1>1, <1>4, <3>1, TypeFacts DEF LeaderOf, Won
    <3>3. QED
      BY <1>2, <1>6, <1>7, <2>2, <3>1, <3>2 DEF LeaderOf
  <2>3. QED
    BY <2>1, <2>2
<1>16. OnlyLeadersWrite'
  <2> SUFFICES ASSUME NEW u \in Term, leaderLog'[u] # <<>> PROVE \E f \in elected' : f.term = u
    BY DEF OnlyLeadersWrite, Won
  <2>1. CASE u = t
    BY <1>2, <2>1
  <2>2. CASE u # t
    BY <1>2, <1>6, <2>2 DEF LogInv, OnlyLeadersWrite, Won
  <2>3. QED
    BY <2>1, <2>2
<1>17. LogsGrounded'
  <2>1. ASSUME NEW l \in LogType, Grounded(l)
        PROVE  \A p \in DOMAIN l : Agree(l, leaderLog'[l[p].term], p)
    BY <1>1, <1>10, <2>1, GroundedGrows
  <2>2. \A u \in Term : leaderLog'[u] \in LogType /\ Grounded(leaderLog'[u])
    BY <1>1, <1>3, <1>6, TypeFacts DEF LogInv, LogsGrounded
  <2>3. \A j \in Server : log'[j] \in LogType /\ Grounded(log'[j])
    BY <1>1, <1>2, TypeFacts DEF LogInv, LogsGrounded
  <2>4. QED
    BY <2>1, <2>2, <2>3 DEF LogsGrounded, Grounded
<1>18. TermsOrdered'
  <2>1. ASSUME NEW p \in DOMAIN log[i]
        PROVE  log[i][p].term <= t /\ \A q \in 1 .. p : log[i][q].term <= log[i][p].term
    BY <1>1, <1>3, <2>1, GroundedOrdered DEF LogInv, TermsOrdered, LogsGrounded, t
  <2>2. QED
    BY <1>2, <1>6, <2>1 DEF LogInv, TermsOrdered
<1>19. MatchesTruthful'
  <2> SUFFICES ASSUME NEW k \in Server, NEW j \in Server, role'[k] = "LEADER", j # k
               PROVE  Kept(j, currentTerm[k], matchIndex[k][j] + 1)'
    BY DEF MatchesTruthful
  <2>1. CASE k = i
    <3>1. matchIndex'[k][j] + 1 = 0 /\ currentTerm'[k] = t
      BY <1>2, <1>8, <2>1 DEF t
    <3>2. QED
      BY <1>3, <1>6, <3>1 DEF Kept
  <2>2. CASE k # i
    <3>1. Kept(j, currentTerm[k], matchIndex[k][j] + 1)
      BY <1>7, <2>2 DEF LogInv, MatchesTruthful
    <3>2. matchIndex[k][j] + 1 \in Nat /\ currentTerm[k] \in Term
      BY <1>1, TypeFacts
    <3>3. \A u \in Term, n \in Nat : Kept(j, u, n) => Kept(j, u, n)'
      BY <1>1, <1>10, <1>11, KeptStep
    <3>4. QED
      BY <1>2, <1>7, <2>2, <3>1, <3>2, <3>3 DEF Kept
  <2>3. QED
    BY <2>1, <2>2
<1>20. QED
  BY <1>10, <1>11, <1>13, <1>14, <1>15, <1>16, <1>17, <1>18, <1>19 DEF LogInv

(* A leader appends a request to its log. *)
LEMMA ProcRequestStep ==
    ASSUME ElectionInv, ElectionInv', LogInv, NEW i \in Server, NEW r \in Request,
           handle_proc_request(i, r)
    PROVE  LogInv' /\ Growth /\ (\A j \in Server : LogStep(j))
<1> DEFINE t == currentTerm[i]
           e == [term |-> t, req |-> r]
           l == Append(log[i], e)
           n == Len(log[i])
<1>1. TypeOK /\ TypeOK'
  BY DEF ElectionInv
<1>2. /\ role[i] = "LEADER"
      /\ log' = [log EXCEPT ![i] = l]
      /\ leaderLog' = [leaderLog EXCEPT ![t] = l]
      /\ Send(broadcast_append_entries(i, l))
      /\ UNCHANGED <<currentTerm, role, nextIndex, matchIndex, elected>>
  BY DEF handle_proc_request, electionVars, leaderVars
<1>3. t \in Term /\ t \in Nat /\ log[i] \in LogType /\ n \in Nat /\ DOMAIN log[i] = 1 .. n
  BY <1>1, TypeFacts, LogFacts
<1>4. e.term = t
  OBVIOUS
<1> HIDE DEF e
<1>5. Len(l) = n + 1 /\ l[n + 1] = e /\ \A k \in 1 .. n : l[k] = log[i][k]
  <2>1. log[i] \in Seq(Entry)
    BY <1>3 DEF LogType
  <2>2. QED
    BY <2>1
<1>6. log'[i] = l /\ leaderLog'[t] = l
      /\ (\A j \in Server : j # i => log'[j] = log[j])
      /\ \A u \in Term : u # t => leaderLog'[u] = leaderLog[u]
  BY <1>1, <1>2, <1>3 DEF TypeOK
<1>7. l \in LogType /\ DOMAIN l = 1 .. n + 1
  BY <1>1, <1>5, <1>6, TypeFactsNext, LogFacts
<1>8. log[i] = leaderLog[t] /\ LeaderOf(t, i) /\ Won(t)
      /\ \A j \in Server : nextIndex[i][j] <= n
  BY <1>2 DEF LogInv, LeadersOwnLog, LeaderOf, Won
<1> HIDE DEF l, t, n
<1>9. Agree(log[i], l, n)
  BY <1>3, <1>5 DEF Agree, n
<1>10. Growth
  <2>1. ASSUME NEW u \in Term PROVE Agree(leaderLog[u], leaderLog'[u], Len(leaderLog[u]))
    <3>1. CASE u = t
      BY <1>6, <1>8, <1>9, <3>1 DEF n
    <3>2. CASE u # t
      BY <1>1, <1>6, <3>2, TypeFacts, LogFacts DEF Agree
    <3>3. QED
      BY <3>1, <3>2
  <2>2. \A j \in Server : currentTerm[j] <= currentTerm'[j]
    BY <1>1, <1>2, TypeFacts
  <2>3. QED
    BY <1>2, <2>1, <2>2 DEF Growth
<1>11. \A j \in Server : LogStep(j)
  <2>1. LogStep(i)
    <3>1. currentTerm'[i] = t /\ role'[i] # "CANDIDATE"
      BY <1>2 DEF t
    <3>2. Agree(log'[i], leaderLog'[t], Len(log'[i]))
      BY <1>3, <1>5, <1>6 DEF Agree
    <3>3. ASSUME NEW k \in Nat, Agree(log[i], leaderLog[t], k)
          PROVE  Agree(log'[i], leaderLog'[t], k)
      BY <1>3, <1>5, <1>6, <3>3 DEF Agree, n
    <3>4. QED
      BY <1>8, <3>1, <3>2, <3>3 DEF LogStep
  <2>2. QED
    BY <1>6, <2>1 DEF LogStep
<1>12. LegalNet
  <2>1. BagToSet(net') \subseteq BagToSet(net) \cup broadcast_append_entries(i, l)
    BY <1>1, <1>2, SendNet
  <2>2. ASSUME NEW x \in broadcast_append_entries(i, l)
        PROVE  x.code = "RPC_CALL_APPEND_ENT" /\ AppendRequestOK(x)'
    <3>1. PICK j \in Server \ {i} :
            x = AppendEntriesTo(i, j, l, nextIndex[i], EntriesFrom(l, I32(nextIndex[i][j])))
      BY <2>2 DEF broadcast_append_entries
    <3>2. x.src = i /\ x.dst = j /\ x.term = t /\ x.code = "RPC_CALL_APPEND_ENT"
      BY <3>1 DEF AppendEntriesTo, t
    <3>3. nextIndex[i] \in [Server -> 0 .. MaxLogLen] /\ nextIndex[i][j] <= Len(l)
      <4>1. nextIndex[i] \in [Server -> 0 .. MaxLogLen]
        BY <1>1 DEF TypeOK
      <4>2. nextIndex[i][j] \in Int /\ nextIndex[i][j] <= n
        BY <1>8, <4>1
      <4>3. QED
        BY <1>3, <1>5, <4>1, <4>2
    <3>4. I32(nextIndex[i][j]) = nextIndex[i][j]
      BY <3>3, WordAssumption DEF I32
    <3>5. SliceOf(x, l)
      BY <1>7, <3>1, <3>3, <3>4, SentSlice
    <3>6. LeaderOf(x.term, x.src)'
      BY <1>2, <1>8, <3>2 DEF LeaderOf
    <3>7. QED
      BY <1>6, <3>2, <3>5, <3>6 DEF AppendRequestOK
  <2>3. QED
    BY <2>1, <2>2 DEF LegalNet, AppendRequests, Acks
<1>13. RequestsAreSlices' /\ AcksTruthful'
  BY <1>1, <1>10, <1>11, <1>12, NetStep
<1>14. TermsPositive'
  BY <1>2 DEF LogInv, TermsPositive
<1>15. LeadersOwnLog'
  <2> SUFFICES ASSUME NEW k \in Server, role'[k] = "LEADER"
               PROVE  /\ LeaderOf(currentTerm[k], k)'
                      /\ log'[k] = leaderLog'[currentTerm'[k]]
                      /\ \A j \in Server : nextIndex'[k][j] <= Len(log'[k])
    BY DEF LeadersOwnLog
  <2>1. /\ LeaderOf(currentTerm[k], k) /\ log[k] = leaderLog[currentTerm[k]]
        /\ \A j \in Server : nextIndex[k][j] <= Len(log[k])
    BY <1>2 DEF LogInv, LeadersOwnLog
  <2>2. CASE k = i
    <3>1. \A j \in Server : nextIndex[i][j] <= n + 1
      BY <1>1, <1>3, <1>8, TypeFacts
    <3>2. QED
      BY <1>2, <1>5, <1>6, <2>1, <2>2, <3>1 DEF LeaderOf, t
  <2>3. CASE k # i
    <3>1. currentTerm[k] # t
      BY <1>8, <2>1, <2>3, ElectionInvSafe DEF LeaderOf, ElectionSafety
    <3>2. currentTerm[k] \in Term
      BY <1>1, TypeFacts
    <3>3. QED
      BY <1>2, <1>6, <2>1, <2>3, <3>1, <3>2 DEF LeaderOf
  <2>4. QED
    BY <2>2, <2>3
<1>16. OnlyLeadersWrite'
  BY <1>2, <1>6, <1>8 DEF LogInv, OnlyLeadersWrite, Won
<1>17. LogsGrounded'
  <2>1. ASSUME NEW f \in LogType, Grounded(f)
        PROVE  \A p \in DOMAIN f : Agree(f, leaderLog'[f[p].term], p)
    BY <1>1, <1>10, <2>1, GroundedGrows
  <2>2. ASSUME NEW p \in DOMAIN l PROVE Agree(l, leaderLog'[l[p].term], p)
    <3>1. CASE p = n + 1
      <4>1. leaderLog'[l[p].term] = l
        BY <1>4, <1>5, <1>6, <3>1
      <4>2. p <= Len(l) /\ p \in Nat
        BY <1>3, <1>5, <3>1
      <4>3. Agree(l, l, p)
        BY <4>2 DEF Agree
      <4>4. QED
        BY <4>1, <4>3
    <3>2. CASE p \in 1 .. n
      <4>1. Agree(log[i], leaderLog'[log[i][p].term], p)
        BY <1>3, <2>1, <3>2 DEF LogInv, LogsGrounded
      <4>2. l[p] = log[i][p]
        BY <1>5, <3>2
      <4>3. Agree(l, log[i], p)
        <5>1. p <= Len(l) /\ p <= Len(log[i])
          BY <1>3, <1>5, <3>2
        <5>2. ASSUME NEW k \in 1 .. p PROVE l[k] = log[i][k]
          <6>1. k \in 1 .. n
            BY <1>3, <3>2
          <6>2. QED
            BY <1>5, <6>1, Zenon
        <5>3. QED
          BY <5>1, <5>2 DEF Agree
      <4>4. p \in Int
        BY <3>2
      <4>5. QED
        BY <4>1, <4>2, <4>3, <4>4, AgreeTrans
    <3>3. QED
      BY <1>3, <1>7, <3>1, <3>2
  <2>3. ASSUME NEW j \in Server PROVE \A p \in DOMAIN log'[j] : Agree(log'[j], leaderLog'[log'[j][p].term], p)
    <3>1. CASE j = i
      BY <1>6, <2>2, <3>1
    <3>2. CASE j # i
      BY <1>1, <1>6, <2>1, <3>2, TypeFacts DEF LogInv, LogsGrounded
    <3>3. QED
      BY <3>1, <3>2
  <2>4. ASSUME NEW u \in Term PROVE \A p \in DOMAIN leaderLog'[u] : Agree(leaderLog'[u], leaderLog'[leaderLog'[u][p].term], p)
    <3>1. CASE u = t
      BY <1>6, <2>2, <3>1
    <3>2. CASE u # t
      BY <1>1, <1>6, <2>1, <3>2, TypeFacts DEF LogInv, LogsGrounded
    <3>3. QED
      BY <3>1, <3>2
  <2>5. QED
    BY <2>3, <2>4 DEF LogsGrounded, Grounded
<1>18. TermsOrdered'
  <2>1. \A p \in 1 .. n : log[i][p].term \in Nat /\ log[i][p].term <= t
    BY <1>1, <1>3, <1>8, LogFacts DEF LogInv, TermsOrdered, n, t, Term
  <2>2. ASSUME NEW p \in DOMAIN l
        PROVE  l[p].term <= t /\ \A q \in 1 .. p : l[q].term <= l[p].term
    <3>1. CASE p = n + 1
      BY <1>3, <1>4, <1>5, <2>1, <3>1
    <3>2. CASE p \in 1 .. n
      <4>1. \A q \in 1 .. p : log[i][q].term <= log[i][p].term
        BY <1>3, <1>8, <3>2 DEF LogInv, TermsOrdered
      <4>2. \A q \in 1 .. p : l[q] = log[i][q]
        BY <1>3, <1>5, <3>2
      <4>3. p \in 1 .. p
        BY <3>2
      <4>4. QED
        BY <2>1, <3>2, <4>1, <4>2, <4>3
    <3>3. QED
      BY <1>3, <1>7, <3>1, <3>2
  <2>3. QED
    BY <1>2, <1>6, <2>2 DEF LogInv, TermsOrdered, t
<1>19. MatchesTruthful'
  <2> SUFFICES ASSUME NEW k \in Server, NEW j \in Server, role'[k] = "LEADER", j # k
               PROVE  Kept(j, currentTerm[k], matchIndex[k][j] + 1)'
    BY DEF MatchesTruthful
  <2>1. Kept(j, currentTerm[k], matchIndex[k][j] + 1)
    BY <1>2 DEF LogInv, MatchesTruthful
  <2>2. matchIndex[k][j] + 1 \in Nat /\ currentTerm[k] \in Term
    BY <1>1, TypeFacts
  <2>3. \A u \in Term, q \in Nat : Kept(j, u, q) => Kept(j, u, q)'
    BY <1>1, <1>10, <1>11, KeptStep
  <2>4. QED
    BY <1>2, <2>1, <2>2, <2>3 DEF Kept
<1>20. QED
  BY <1>10, <1>11, <1>13, <1>14, <1>15, <1>16, <1>17, <1>18, <1>19 DEF LogInv

-----------------------------------------------------------------------------
(* The handlers *)

(* Packets that are neither appends nor positive acknowledgements. *)
Plain(x) == x.code # "RPC_CALL_APPEND_ENT" /\ (x.code = "RPC_RESP_APPEND_ENT" => ~ x.success)

LEMMA PlainPackets ==
    ASSUME NEW i, NEW j, NEW t, NEW w, NEW b
    PROVE  /\ Plain(send_append_entries_response(i, j, t, w, FALSE))
           /\ Plain(send_request_vote_response(i, j, t, b))
           /\ \A x \in broadcast_request_vote(i, t) : Plain(x)
BY DEF Plain, send_append_entries_response, send_request_vote_response,
    broadcast_request_vote

LEMMA PlainLegal ==
    ASSUME NEW out, BagToSet(net') \subseteq BagToSet(net) \cup out, \A x \in out : Plain(x)
    PROVE  LegalNet
BY DEF LegalNet, AppendRequests, Acks, Plain

LEMMA ShrinkLegal ==
    ASSUME BagToSet(net') \subseteq BagToSet(net)
    PROVE  LegalNet
BY DEF LegalNet, AppendRequests, Acks

LEMMA ConsumePlain ==
    ASSUME TypeOK, NEW m \in BagToSet(net), NEW out, Consume(m, out), \A x \in out : Plain(x)
    PROVE  LegalNet
<1>1. BagToSet(net') \subseteq BagToSet(net) \cup out
  BY ConsumeNet
<1>2. QED
  BY <1>1, PlainLegal

LEMMA SameIndexes ==
    ASSUME TypeOK, LogInv, \A j \in Server : RoleStep(j),
           UNCHANGED <<nextIndex, matchIndex>>,
           \A j \in Server : role'[j] = "LEADER" => log'[j] = log[j]
    PROVE  LegalIndexes
<1> SUFFICES ASSUME NEW i \in Server, role'[i] = "LEADER"
             PROVE  log'[i] = log[i] /\ \A j \in Server : nextIndex[i][j] <= Len(log[i])
  BY DEF LegalIndexes
<1>1. role[i] = "LEADER"
  BY RoleFacts
<1>2. QED
  BY <1>1 DEF LogInv, LeadersOwnLog

(* Steps that write no log and send no append. *)
LEMMA PlainTame ==
    ASSUME TypeOK, LogInv, \A j \in Server : RoleStep(j),
           UNCHANGED <<log, nextIndex, matchIndex, leaderLog, elected>>, LegalNet
    PROVE  Tame
<1>1. \A j \in Server : LogStep(j)
  BY DEF LogStep
<1>2. LegalIndexes
  BY SameIndexes
<1>3. QED
  BY <1>1, <1>2 DEF Tame

LEMMA FollowerRole ==
    ASSUME TypeOK, NEW i \in Server, NEW t \in Term, currentTerm[i] <= t,
           currentTerm' = [currentTerm EXCEPT ![i] = t],
           role' = [role EXCEPT ![i] = "FOLLOWER"]
    PROVE  \A j \in Server : RoleStep(j)
BY DEF TypeOK, RoleStep

LEMMA RecogniseRole ==
    ASSUME TypeOK, NEW i \in Server, NEW m \in Packet, RecogniseLeader(i, m)
    PROVE  /\ \A j \in Server : RoleStep(j)
           /\ \A j \in Server : j # i => currentTerm'[j] = currentTerm[j] /\ role'[j] = role[j]
           /\ currentTerm'[i] = m.term /\ currentTerm[i] <= m.term
           /\ role'[i] # "CANDIDATE"
           /\ role'[i] = "LEADER" => role[i] = "LEADER" /\ m.term = currentTerm[i]
<1>1. m.term \in Term /\ m.term \in Nat /\ currentTerm[i] \in Nat
  BY PacketKind, TypeFacts
<1>2. m.term >= currentTerm[i]
  BY DEF RecogniseLeader
<1>3. CASE m.term > currentTerm[i] \/ role[i] = "CANDIDATE"
  <2>1. /\ currentTerm' = [currentTerm EXCEPT ![i] = m.term]
        /\ role' = [role EXCEPT ![i] = "FOLLOWER"]
    BY <1>3 DEF RecogniseLeader, become_follower, StepDown
  <2>2. currentTerm'[i] = m.term /\ role'[i] = "FOLLOWER"
        /\ \A j \in Server : j # i => currentTerm'[j] = currentTerm[j] /\ role'[j] = role[j]
    BY <2>1 DEF TypeOK
  <2>3. QED
    BY <1>1, <1>2, <2>2 DEF RoleStep
<1>4. CASE ~ (m.term > currentTerm[i] \/ role[i] = "CANDIDATE")
  <2>1. UNCHANGED <<currentTerm, role>> /\ m.term = currentTerm[i] /\ role[i] # "CANDIDATE"
    BY <1>1, <1>2, <1>4 DEF RecogniseLeader
  <2>2. QED
    BY <1>1, <2>1 DEF RoleStep
<1>5. QED
  BY <1>3, <1>4

(* A leader is never sent an append of its own term. *)
LEMMA NotToLeader ==
    ASSUME ElectionInv, LogInv, NEW m \in AppendRequests, role[m.dst] = "LEADER"
    PROVE  m.term # currentTerm[m.dst]
<1>1. m.dst \in Server
  BY TypeFacts DEF ElectionInv, append_entries_req_t
<1>2. LeaderOf(currentTerm[m.dst], m.dst)
  BY <1>1 DEF LogInv, LeadersOwnLog
<1>3. m.src # m.dst /\ LeaderOf(m.term, m.src)
  BY DEF LogInv, RequestsAreSlices
<1>4. QED
  BY <1>2, <1>3, ElectionInvSafe DEF LeaderOf, ElectionSafety

(* What the merge loop, finished or not, leaves on disk. *)
LEMMA MergeLogStep ==
    ASSUME TypeOK, LogInv, NEW i \in Server, NEW m \in AppendRequests,
           PrevMatches(log[i], m), NEW x,
           LET n == I32(m.prev_log_idx) + 1
           IN  x = Merge(log[i], n, m.entries) \/ x \in PartialMerges(log[i], n, m.entries),
           log' = [log EXCEPT ![i] = x], leaderLog' = leaderLog,
           currentTerm'[i] = m.term, role'[i] # "CANDIDATE"
    PROVE  \A j \in Server : LogStep(j)
<1> DEFINE n == I32(m.prev_log_idx) + 1
           f == leaderLog[m.term]
<1>1. m \in append_entries_req_t /\ m.term \in Term
  BY TypeFacts DEF append_entries_req_t
<1>2. f \in LogType /\ log[i] \in LogType /\ Grounded(f) /\ Grounded(log[i])
  BY <1>1, TypeFacts DEF LogInv, LogsGrounded
<1>3. SliceOf(m, f) /\ Won(m.term)
  BY DEF LogInv, RequestsAreSlices, LeaderOf, Won
<1>4. x = log[i] \/ (Agree(x, f, Len(x)) /\ \A q \in Nat : Agree(log[i], f, q) => Agree(x, f, q))
  <2> HIDE DEF f
  <2>1. QED
    BY <1>1, <1>2, <1>3, MergeOutcome
<1>5. log'[i] = x /\ \A j \in Server : j # i => log'[j] = log[j]
  BY DEF TypeOK
<1>6. LogStep(i)
  BY <1>3, <1>4, <1>5 DEF LogStep
<1>7. QED
  BY <1>5, <1>6 DEF LogStep

LEMMA AppendNewTame ==
    ASSUME ElectionInv, TypeOK', LogInv, NEW i \in Server, NEW m \in AppendRequests,
           m.dst = i, AppendNew(i, m)
    PROVE  Tame
<1> DEFINE n == I32(m.prev_log_idx) + 1
           f == leaderLog[m.term]
<1> SUFFICES ASSUME NEW x, x = send_append_entries_response(i, m.src, currentTerm[i],
                                   LastNew(m), TRUE)
             PROVE  Tame
  OBVIOUS
<1>1. TypeOK
  BY DEF ElectionInv
<1>2. /\ PrevMatches(log[i], m)
      /\ RecogniseLeader(i, m)
      /\ log' = [log EXCEPT ![i] = Merge(log[i], n, m.entries)]
      /\ Consume(m, {x})
      /\ UNCHANGED <<nextIndex, matchIndex, leaderLog, elected>>
  BY DEF AppendNew, leaderVars, history
<1>3. /\ m \in append_entries_req_t /\ m \in BagToSet(net) /\ m \in Packet
      /\ m.term \in Term /\ m.term \in Nat /\ m.src \in Server
      /\ currentTerm[i] \in Nat
  BY <1>1, TypeFacts, PacketKind DEF TypeOK
<1>4. /\ \A j \in Server : RoleStep(j)
      /\ \A j \in Server : j # i => currentTerm'[j] = currentTerm[j] /\ role'[j] = role[j]
      /\ currentTerm'[i] = m.term /\ currentTerm[i] <= m.term
      /\ role'[i] # "CANDIDATE"
      /\ role'[i] = "LEADER" => role[i] = "LEADER" /\ m.term = currentTerm[i]
  BY <1>1, <1>2, <1>3, RecogniseRole
<1>5. role'[i] # "LEADER"
  BY <1>4, NotToLeader
<1>6. m.src # i /\ LeaderOf(m.term, m.src) /\ SliceOf(m, f)
  BY DEF LogInv, RequestsAreSlices
<1>7. \A j \in Server : LogStep(j)
  BY <1>1, <1>2, <1>4, MergeLogStep
<1>8. LegalIndexes
  <2>1. \A j \in Server : role'[j] = "LEADER" => log'[j] = log[j]
    BY <1>1, <1>2, <1>5 DEF TypeOK
  <2>2. QED
    BY <1>1, <1>2, <1>4, <2>1, SameIndexes
<1>9. x.code = "RPC_RESP_APPEND_ENT" /\ x.src = i /\ x.dst = m.src
      /\ x.term = currentTerm[i] /\ x.new_match_index = LastNew(m)
  BY DEF send_append_entries_response
<1>10. AckOK(x)'
  <2>1. CASE currentTerm[i] < m.term
    <3>1. m.term <= currentTerm[m.src]
      BY <1>6 DEF LeaderOf, ElectionInv, ElectedByMajority
    <3>2. currentTerm'[m.src] = currentTerm[m.src] /\ currentTerm[m.src] \in Nat
      BY <1>1, <1>3, <1>4, <1>6, TypeFacts
    <3>3. x.term < currentTerm'[x.dst]
      <4>1. currentTerm[i] < currentTerm'[m.src]
        BY <1>3, <2>1, <3>1, <3>2
      <4>2. QED
        BY <1>9, <4>1
    <3>4. QED
      BY <3>3 DEF AckOK
  <2>2. CASE currentTerm[i] = m.term
    <3>1. I32(x.new_match_index) + 1 = n + Len(m.entries) /\ n \in Nat /\ Len(m.entries) \in Nat
      <4>1. I32(LastNew(m)) = I32(m.prev_log_idx) + Len(m.entries)
        BY <1>3, LastNewType
      <4>2. I32(m.prev_log_idx) \in Index /\ Len(m.entries) \in Nat
        BY <1>3, IndexOfWire DEF append_entries_req_t
      <4>3. I32(m.prev_log_idx) \in Int /\ I32(m.prev_log_idx) + 1 \in Nat
        BY <4>2, WordAssumption DEF Index
      <4>4. I32(x.new_match_index) = I32(m.prev_log_idx) + Len(m.entries)
        BY <1>9, <4>1
      <4>5. n = I32(m.prev_log_idx) + 1
        OBVIOUS
      <4> HIDE DEF n
      <4>6. I32(x.new_match_index) + 1 = n + Len(m.entries)
        <5>1. \A a, b \in Int : (a + b) + 1 = (a + 1) + b
          OBVIOUS
        <5>2. (I32(m.prev_log_idx) + Len(m.entries)) + 1
                = (I32(m.prev_log_idx) + 1) + Len(m.entries)
          BY <4>2, <4>3, <5>1
        <5>3. QED
          BY <4>4, <4>5, <5>2
      <4>7. QED
        BY <4>2, <4>3, <4>5, <4>6
    <3>2. log[i] \in LogType /\ f \in LogType /\ Grounded(log[i]) /\ Grounded(f)
      BY <1>1, <1>3, TypeFacts DEF LogInv, LogsGrounded
    <3>3. Agree(Merge(log[i], n, m.entries), f, n + Len(m.entries))
      <4> HIDE DEF f
      <4>1. QED
        BY <1>1, <1>2, <1>3, <1>6, <3>2, MergeOutcome
    <3>4. Agree(log'[i], leaderLog'[m.term], n + Len(m.entries))
      BY <1>1, <1>2, <3>3 DEF TypeOK
    <3>5. Kept(x.src, x.term, I32(x.new_match_index) + 1)'
      <4>1. n + Len(m.entries) <= Len(leaderLog'[m.term])
        BY <3>4 DEF Agree
      <4>2. x.src = i /\ x.term = m.term /\ currentTerm'[i] = m.term /\ m.term <= m.term
        BY <1>3, <1>4, <1>9, <2>2
      <4> HIDE DEF n, f
      <4>3. QED
        BY <3>1, <3>4, <4>1, <4>2 DEF Kept
    <3>6. LeaderOf(x.term, x.dst)'
      BY <1>2, <1>6, <1>9, <2>2 DEF LeaderOf
    <3>7. QED
      BY <1>6, <1>9, <3>5, <3>6 DEF AckOK
  <2>3. currentTerm[i] <= m.term
    BY <1>4
  <2>4. currentTerm[i] < m.term \/ currentTerm[i] = m.term
    BY <1>3, <2>3
  <2>5. QED
    BY <2>1, <2>2, <2>4
<1>11. LegalNet
  <2>1. BagToSet(net') \subseteq BagToSet(net) \cup {x}
    BY <1>1, <1>2, <1>3, ConsumeNet
  <2>2. QED
    BY <1>9, <1>10, <2>1 DEF LegalNet, AppendRequests, Acks
<1>12. QED
  BY <1>2, <1>4, <1>7, <1>8, <1>11 DEF Tame

LEMMA AppendRequestTame ==
    ASSUME ElectionInv, TypeOK', LogInv, NEW i \in Server, NEW m \in BagToSet(net),
           m.dst = i, handle_append_entries_request(i, m)
    PROVE  Tame
<1>1. TypeOK /\ m \in Packet /\ m \in AppendRequests
  BY DEF ElectionInv, TypeOK, handle_append_entries_request, AppendRequests
<1>2. CASE RejectStaleAppend(i, m)
  <2>1. /\ Consume(m, {send_append_entries_response(i, m.src, currentTerm[i], 0, FALSE)})
        /\ UNCHANGED <<log, nextIndex, matchIndex, leaderLog, elected, role, currentTerm>>
    BY <1>2 DEF RejectStaleAppend, durable, electionVars, leaderVars, history
  <2>2. LegalNet
    <3>1. Plain(send_append_entries_response(i, m.src, currentTerm[i], 0, FALSE))
      BY PlainPackets
    <3>2. QED
      BY <1>1, <2>1, <3>1, ConsumePlain
  <2>3. \A j \in Server : RoleStep(j)
    BY <2>1 DEF RoleStep
  <2>4. QED
    BY <1>1, <2>1, <2>2, <2>3, PlainTame
<1>3. CASE RejectMismatch(i, m)
  <2>1. /\ Consume(m, {send_append_entries_response(i, m.src, currentTerm[i], 0, FALSE)})
        /\ RecogniseLeader(i, m)
        /\ UNCHANGED <<log, nextIndex, matchIndex, leaderLog, elected>>
    BY <1>3 DEF RejectMismatch, leaderVars, history
  <2>2. LegalNet
    <3>1. Plain(send_append_entries_response(i, m.src, currentTerm[i], 0, FALSE))
      BY PlainPackets
    <3>2. QED
      BY <1>1, <2>1, <3>1, ConsumePlain
  <2>3. \A j \in Server : RoleStep(j)
    BY <1>1, <2>1, RecogniseRole
  <2>4. QED
    BY <1>1, <2>1, <2>2, <2>3, PlainTame
<1>4. CASE AppendNew(i, m)
  BY <1>1, <1>4, AppendNewTame
<1>5. QED
  BY <1>2, <1>3, <1>4 DEF handle_append_entries_request

(* Packets that are dropped, and newer terms met in a response. *)
LEMMA DropTame ==
    ASSUME TypeOK, LogInv, NEW m \in BagToSet(net), DropPacket(m)
    PROVE  Tame
<1>1. /\ Consume(m, {})
      /\ UNCHANGED <<log, nextIndex, matchIndex, leaderLog, elected, role, currentTerm>>
  BY DEF DropPacket, durable, electionVars, leaderVars, history
<1>2. LegalNet
  BY <1>1, ConsumePlain
<1>3. \A j \in Server : RoleStep(j)
  BY <1>1 DEF RoleStep
<1>4. QED
  BY <1>1, <1>2, <1>3, PlainTame

LEMMA StepDownTame ==
    ASSUME TypeOK, LogInv, NEW i \in Server, NEW m \in BagToSet(net),
           StepDownOnResponse(i, m)
    PROVE  Tame
<1>1. /\ Consume(m, {}) /\ m.term > currentTerm[i]
      /\ currentTerm' = [currentTerm EXCEPT ![i] = m.term]
      /\ role' = [role EXCEPT ![i] = "FOLLOWER"]
      /\ UNCHANGED <<log, nextIndex, matchIndex, leaderLog, elected>>
  BY DEF StepDownOnResponse, become_follower, StepDown, leaderVars, history
<1>2. m.term \in Term /\ m.term \in Nat /\ currentTerm[i] \in Nat
  BY PacketKind, TypeFacts DEF TypeOK
<1>3. LegalNet
  BY <1>1, ConsumePlain
<1>4. \A j \in Server : RoleStep(j)
  <2>1. currentTerm[i] <= m.term
    BY <1>1, <1>2
  <2>2. QED
    BY <1>1, <1>2, <2>1, FollowerRole
<1>5. QED
  BY <1>1, <1>3, <1>4, PlainTame

LEMMA AppendSucceededTame ==
    ASSUME TypeOK, LogInv, NEW i \in Server, NEW m \in Acks, m.dst = i,
           role[i] = "LEADER", m.term = currentTerm[i], AppendSucceeded(i, m)
    PROVE  Tame
<1>1. m \in append_entries_res_t /\ m \in BagToSet(net)
  BY TypeFacts
<1>2. /\ matchIndex' = [matchIndex EXCEPT ![i] =
                           [matchIndex[i] EXCEPT ![m.src] = I32(m.new_match_index)]]
      /\ nextIndex' = [nextIndex EXCEPT ![i][m.src] = U32(Len(log[i]))]
      /\ Consume(m, {})
      /\ UNCHANGED <<log, leaderLog, elected, role, currentTerm>>
  BY DEF AppendSucceeded, durable, electionVars
<1>3. LegalNet
  BY <1>1, <1>2, ConsumePlain
<1>4. \A j \in Server : RoleStep(j) /\ LogStep(j)
  BY <1>2 DEF RoleStep, LogStep
<1>5. Kept(m.src, currentTerm[i], I32(m.new_match_index) + 1)
  BY TypeFacts DEF LogInv, AcksTruthful
<1>6. U32(Len(log[i])) = Len(log[i])
  BY TypeFacts, LogFacts, WordAssumption DEF U32
<1>7. /\ \A k, j \in Server : ~ (k = i /\ j = m.src) =>
            matchIndex'[k][j] = matchIndex[k][j] /\ nextIndex'[k][j] = nextIndex[k][j]
      /\ matchIndex'[i][m.src] = I32(m.new_match_index)
      /\ nextIndex'[i][m.src] = Len(log[i])
  BY <1>1, <1>2, <1>6 DEF TypeOK, append_entries_res_t
<1>8. LegalIndexes
  <2> SUFFICES ASSUME NEW k \in Server, role'[k] = "LEADER", NEW j \in Server
               PROVE  /\ nextIndex'[k][j] <= Len(log[k])
                      /\ j # k => \/ matchIndex'[k][j] = matchIndex[k][j]
                                  \/ Kept(j, currentTerm[k], matchIndex'[k][j] + 1)
    BY <1>2 DEF LegalIndexes
  <2>1. CASE k = i /\ j = m.src
    <3>1. Len(log[i]) \in Nat
      BY TypeFacts, LogFacts
    <3>2. QED
      BY <1>5, <1>7, <2>1, <3>1
  <2>2. CASE ~ (k = i /\ j = m.src)
    BY <1>2, <1>7, <2>2 DEF LogInv, LeadersOwnLog
  <2>3. QED
    BY <2>1, <2>2
<1>9. QED
  BY <1>2, <1>3, <1>4, <1>8 DEF Tame

LEMMA AppendFailedTame ==
    ASSUME TypeOK, LogInv, NEW i \in Server, NEW m \in BagToSet(net), AppendFailed(i, m)
    PROVE  Tame
<1>1. m \in Packet /\ m.src \in Server
  BY PacketKind DEF TypeOK
<1>2. /\ nextIndex' = [nextIndex EXCEPT ![i][m.src] = IF @ > 0 THEN @ - 1 ELSE @]
      /\ Consume(m, {})
      /\ UNCHANGED <<log, leaderLog, elected, role, currentTerm, matchIndex>>
  BY DEF AppendFailed, durable, electionVars, history
<1>3. LegalNet
  BY <1>2, ConsumePlain
<1>4. \A j \in Server : RoleStep(j) /\ LogStep(j)
  BY <1>2 DEF RoleStep, LogStep
<1>5. \A k, j \in Server : nextIndex'[k][j] <= nextIndex[k][j]
                           /\ nextIndex'[k][j] \in Int /\ nextIndex[k][j] \in Int
  <2>1. \A k, j \in Server : nextIndex[k][j] \in Nat
    BY TypeFacts
  <2>2. \A k, j \in Server : ~ (k = i /\ j = m.src) => nextIndex'[k][j] = nextIndex[k][j]
    BY <1>1, <1>2 DEF TypeOK
  <2>3. nextIndex'[i][m.src] = IF nextIndex[i][m.src] > 0 THEN nextIndex[i][m.src] - 1
                               ELSE nextIndex[i][m.src]
    BY <1>1, <1>2 DEF TypeOK
  <2>4. nextIndex'[i][m.src] \in Int /\ nextIndex'[i][m.src] <= nextIndex[i][m.src]
    BY <1>1, <2>1, <2>3
  <2>5. QED
    BY <2>1, <2>2, <2>4
<1>6. LegalIndexes
  <2> SUFFICES ASSUME NEW k \in Server, role'[k] = "LEADER", NEW j \in Server
               PROVE  nextIndex'[k][j] <= Len(log[k])
    BY <1>2 DEF LegalIndexes
  <2>1. nextIndex[k][j] <= Len(log[k]) /\ Len(log[k]) \in Nat
    BY <1>2, TypeFacts, LogFacts DEF LogInv, LeadersOwnLog
  <2>2. QED
    BY <1>5, <2>1
<1>7. QED
  BY <1>2, <1>3, <1>4, <1>6 DEF Tame

LEMMA AppendResponseTame ==
    ASSUME TypeOK, LogInv, NEW i \in Server, NEW m \in BagToSet(net),
           m.dst = i, handle_append_entries_response(i, m)
    PROVE  Tame
<1>1. m.code = "RPC_RESP_APPEND_ENT"
  BY DEF handle_append_entries_response
<1>2. CASE StepDownOnResponse(i, m)
  BY <1>2, StepDownTame
<1>3. CASE DropPacket(m)
  BY <1>3, DropTame
<1>4. CASE m.term = currentTerm[i] /\ role[i] = "LEADER" /\ AppendSucceeded(i, m)
  <2>1. m \in Acks
    BY <1>1, <1>4 DEF AppendSucceeded, Acks
  <2>2. QED
    BY <1>4, <2>1, AppendSucceededTame
<1>5. CASE AppendFailed(i, m)
  BY <1>5, AppendFailedTame
<1>6. QED
  BY <1>2, <1>3, <1>4, <1>5 DEF handle_append_entries_response

LEMMA BallotTame ==
    ASSUME TypeOK, LogInv, NEW i \in Server, NEW m \in BagToSet(net),
           handle_request_vote_request(i, m)
    PROVE  Tame
<1>1. m.term \in Term /\ m.term \in Nat /\ currentTerm[i] \in Nat
  BY PacketKind, TypeFacts DEF TypeOK
<1>2. CASE RejectStaleBallot(i, m)
  <2> DEFINE x == send_request_vote_response(i, m.src, currentTerm[i], FALSE)
  <2>1. /\ Consume(m, {x})
        /\ UNCHANGED <<log, nextIndex, matchIndex, leaderLog, elected, role, currentTerm>>
    BY <1>2 DEF RejectStaleBallot, durable, electionVars, leaderVars, history
  <2>2. Plain(x)
    BY PlainPackets
  <2> HIDE DEF x
  <2>3. LegalNet
    BY <2>1, <2>2, ConsumePlain
  <2>4. \A j \in Server : RoleStep(j)
    BY <2>1 DEF RoleStep
  <2>5. QED
    BY <2>1, <2>3, <2>4, PlainTame
<1>3. CASE AnswerBallot(i, m)
  <2> DEFINE newer == m.term > currentTerm[i]
             vote == IF newer THEN Nil ELSE votedFor[i]
             granted == /\ vote \in {Nil, m.src}
                        /\ log_is_up_to_date(log[i], m.last_log_idx, m.last_log_term)
             x == send_request_vote_response(i, m.src, m.term, granted)
  <2>1. /\ Consume(m, {x}) /\ m.term >= currentTerm[i]
        /\ IF newer THEN StepDown(i, m.term, m.src) ELSE UNCHANGED <<currentTerm, electionVars>>
        /\ UNCHANGED <<log, nextIndex, matchIndex, leaderLog, elected>>
    BY <1>3 DEF AnswerBallot, leaderVars, history
  <2>2. Plain(x)
    BY PlainPackets
  <2> HIDE DEF x, granted, vote
  <2>3. LegalNet
    BY <2>1, <2>2, ConsumePlain
  <2>4. \A j \in Server : RoleStep(j)
    <3>1. CASE newer
      <4>1. /\ currentTerm' = [currentTerm EXCEPT ![i] = m.term]
            /\ role' = [role EXCEPT ![i] = "FOLLOWER"]
        BY <2>1, <3>1 DEF StepDown
      <4>2. currentTerm[i] <= m.term
        BY <1>1, <3>1
      <4>3. QED
        BY <1>1, <4>1, <4>2, FollowerRole
    <3>2. CASE ~ newer
      BY <2>1, <3>2 DEF RoleStep, electionVars
    <3>3. QED
      BY <3>1, <3>2
  <2>5. QED
    BY <2>1, <2>3, <2>4, PlainTame
<1>4. QED
  BY <1>2, <1>3 DEF handle_request_vote_request

(* A response to a ballot is Tame unless it wins the election. *)
LEMMA VoteTame ==
    ASSUME TypeOK, LogInv, NEW i \in Server, NEW m \in BagToSet(net),
           handle_request_vote_response(i, m)
    PROVE  \/ Tame
           \/ role[i] = "CANDIDATE" /\ CountVote(i, m) /\ Majority(votesReceived[i] + 1)
<1>1. CASE StepDownOnResponse(i, m)
  BY <1>1, StepDownTame
<1>2. CASE DropPacket(m)
  BY <1>2, DropTame
<1>3. CASE CountVote(i, m) /\ ~ Majority(votesReceived[i] + 1)
  <2>1. /\ Consume(m, {})
        /\ UNCHANGED <<log, nextIndex, matchIndex, leaderLog, elected, role, currentTerm>>
    BY <1>3 DEF CountVote, durable, leaderVars
  <2>2. LegalNet
    BY <2>1, ConsumePlain
  <2>3. \A j \in Server : RoleStep(j)
    BY <2>1 DEF RoleStep
  <2>4. QED
    BY <2>1, <2>2, <2>3, PlainTame
<1>4. QED
  BY <1>1, <1>2, <1>3 DEF handle_request_vote_response

LEMMA ElectionTame ==
    ASSUME TypeOK, LogInv, NEW i \in Server, become_candidate(i) \/ RetryElection(i)
    PROVE  Tame
<1>1. /\ currentTerm' = [currentTerm EXCEPT ![i] = currentTerm[i] + 1]
      /\ Send(broadcast_request_vote(i, currentTerm[i] + 1))
      /\ UNCHANGED <<log, nextIndex, matchIndex, leaderLog, elected>>
  BY DEF become_candidate, RetryElection, start_election, leaderVars, history
<1>2. role'[i] = "CANDIDATE" /\ \A j \in Server : j # i => role'[j] = role[j]
  BY DEF become_candidate, RetryElection, TypeOK
<1>3. currentTerm'[i] = currentTerm[i] + 1
      /\ \A j \in Server : j # i => currentTerm'[j] = currentTerm[j]
  BY <1>1 DEF TypeOK
<1>4. \A j \in Server : RoleStep(j)
  BY <1>2, <1>3 DEF RoleStep
<1>5. LegalNet
  <2>1. \A x \in broadcast_request_vote(i, currentTerm[i] + 1) : Plain(x)
    BY PlainPackets
  <2>2. BagToSet(net') \subseteq BagToSet(net) \cup broadcast_request_vote(i, currentTerm[i] + 1)
    BY <1>1, SendNet
  <2>3. QED
    BY <2>1, <2>2, PlainLegal
<1>6. QED
  BY <1>1, <1>4, <1>5, PlainTame

LEMMA HeartbeatTame ==
    ASSUME TypeOK, LogInv, NEW i \in Server, HeartbeatTimeout(i)
    PROVE  Tame
<1> DEFINE out == send_heartbeats(i, nextIndex[i])
<1>1. /\ Send(out) /\ role[i] = "LEADER"
      /\ UNCHANGED <<log, nextIndex, matchIndex, leaderLog, elected, role, currentTerm>>
  BY DEF HeartbeatTimeout, durable, electionVars, leaderVars, history
<1>2. \A j \in Server : RoleStep(j)
  BY <1>1 DEF RoleStep
<1>3. LeaderOf(currentTerm[i], i) /\ log[i] = leaderLog[currentTerm[i]]
      /\ \A j \in Server : nextIndex[i][j] <= Len(log[i])
  BY <1>1 DEF LogInv, LeadersOwnLog
<1>4. ASSUME NEW x \in out
      PROVE  x.code = "RPC_CALL_APPEND_ENT" /\ AppendRequestOK(x)'
  <2>1. PICK j \in Server \ {i} : x = AppendEntriesTo(i, j, log[i], nextIndex[i], <<>>)
    BY <1>4 DEF send_heartbeats
  <2>2. x.src = i /\ x.dst = j /\ x.term = currentTerm[i] /\ x.code = "RPC_CALL_APPEND_ENT"
    BY <2>1 DEF AppendEntriesTo
  <2>3. nextIndex[i] \in [Server -> 0 .. MaxLogLen] /\ log[i] \in LogType
    BY DEF TypeOK
  <2>4. SliceOf(x, log[i])
    BY <1>3, <2>1, <2>3, SentSlice
  <2>5. LeaderOf(x.term, x.src)' /\ SliceOf(x, leaderLog'[x.term])
    BY <1>1, <1>3, <2>2, <2>4 DEF LeaderOf
  <2>6. QED
    BY <2>2, <2>5 DEF AppendRequestOK
<1>5. LegalNet
  <2>1. BagToSet(net') \subseteq BagToSet(net) \cup out
    BY <1>1, SendNet
  <2> HIDE DEF out
  <2>2. QED
    BY <1>4, <2>1 DEF LegalNet, AppendRequests, Acks
<1>6. QED
  BY <1>1, <1>2, <1>5, PlainTame

-----------------------------------------------------------------------------
(* Crashes *)

LEMMA CreateFacts ==
    ASSUME TypeOK, NEW i \in Server, raft_create(i)
    PROVE  /\ LegalNet
           /\ role' = [role EXCEPT ![i] = "FOLLOWER"]
           /\ UNCHANGED <<nextIndex, matchIndex, leaderLog, elected>>
<1>1. BagToSet(net') \subseteq BagToSet(net)
  BY DEF raft_create, BagToSet
<1>2. LegalNet
  BY <1>1, ShrinkLegal
<1>3. QED
  BY <1>2 DEF raft_create, leaderVars, history

LEMMA CrashTame ==
    ASSUME TypeOK, TypeOK', LogInv, NEW i \in Server, Crash(i)
    PROVE  Tame
<1>0. currentTerm[i] \in Term /\ currentTerm[i] \in Nat /\ currentTerm \in [Server -> Term]
  BY TypeFacts DEF TypeOK
<1>1. CASE Restart(i)
  <2>1. raft_create(i) /\ UNCHANGED <<currentTerm, log>>
    BY <1>1 DEF Restart, durable
  <2>2. currentTerm' = [currentTerm EXCEPT ![i] = currentTerm[i]] /\ currentTerm[i] <= currentTerm[i]
    BY <1>0, <2>1
  <2>3. \A j \in Server : RoleStep(j)
    BY <1>0, <2>1, <2>2, CreateFacts, FollowerRole
  <2>4. QED
    BY <2>1, <2>3, CreateFacts, PlainTame
<1>2. CASE TornElection(i)
  <2>1. /\ raft_create(i) /\ UNCHANGED log /\ currentTerm[i] < MaxTerm
        /\ currentTerm' = [currentTerm EXCEPT ![i] = currentTerm[i] + 1]
    BY <1>2 DEF TornElection
  <2>2. currentTerm[i] + 1 \in Term /\ currentTerm[i] <= currentTerm[i] + 1
    BY <1>0, <2>1, BoundAssumption DEF Term
  <2>3. \A j \in Server : RoleStep(j)
    BY <2>1, <2>2, CreateFacts, FollowerRole
  <2>4. QED
    BY <2>1, <2>3, CreateFacts, PlainTame
<1>3. ASSUME NEW m \in BagToSet(net), TornStepDown(i, m) PROVE Tame
  <2>1. /\ raft_create(i) /\ UNCHANGED log /\ m.term > currentTerm[i]
        /\ currentTerm' = [currentTerm EXCEPT ![i] = m.term]
    BY <1>3 DEF TornStepDown
  <2>2. m.term \in Term /\ m.term \in Nat
    BY PacketKind, TypeFacts DEF TypeOK
  <2>3. currentTerm[i] <= m.term
    BY <1>0, <2>1, <2>2
  <2>4. \A j \in Server : RoleStep(j)
    BY <2>1, <2>2, <2>3, CreateFacts, FollowerRole
  <2>5. QED
    BY <2>1, <2>4, CreateFacts, PlainTame
<1>4. ASSUME NEW m \in BagToSet(net), TornAppend(i, m) PROVE Tame
  <2>1. PICK l \in PartialMerges(log[i], I32(m.prev_log_idx) + 1, m.entries) :
          log' = [log EXCEPT ![i] = l]
    BY <1>4 DEF TornAppend
  <2>2. /\ raft_create(i) /\ m.code = "RPC_CALL_APPEND_ENT" /\ m.term >= currentTerm[i]
        /\ PrevMatches(log[i], m)
        /\ currentTerm' = [currentTerm EXCEPT ![i] = m.term]
    BY <1>4 DEF TornAppend
  <2>3. m.term \in Term /\ m.term \in Nat /\ m \in AppendRequests
    BY <2>2, PacketKind, TypeFacts DEF TypeOK, AppendRequests
  <2>4. currentTerm[i] <= m.term
    BY <1>0, <2>2, <2>3
  <2>5. /\ \A j \in Server : RoleStep(j)
        /\ currentTerm'[i] = m.term /\ role'[i] = "FOLLOWER"
    <3>1. role' = [role EXCEPT ![i] = "FOLLOWER"]
      BY <2>2, CreateFacts
    <3>2. \A j \in Server : RoleStep(j)
      BY <2>2, <2>3, <2>4, <3>1, FollowerRole
    <3>3. QED
      BY <2>2, <3>1, <3>2 DEF TypeOK
  <2>6. LegalNet /\ UNCHANGED <<nextIndex, matchIndex, leaderLog, elected>>
    BY <2>2, CreateFacts
  <2>7. \A j \in Server : LogStep(j)
    BY <2>1, <2>2, <2>3, <2>5, <2>6, MergeLogStep
  <2>8. \A j \in Server : role'[j] = "LEADER" => log'[j] = log[j]
    BY <2>1, <2>5 DEF TypeOK
  <2>9. LegalIndexes
    BY <2>5, <2>6, <2>8, SameIndexes
  <2>10. QED
    BY <2>5, <2>6, <2>7, <2>9 DEF Tame
<1>5. QED
  BY <1>1, <1>2, <1>3, <1>4 DEF Crash

-----------------------------------------------------------------------------
(* The invariant *)

LEMMA InitLog == Init => LogInv
<1> SUFFICES ASSUME Init PROVE LogInv
  OBVIOUS
<1>1. BagToSet(net) = {}
  BY DEF Init, EmptyBag, SetToBag, BagToSet
<1>2. AppendRequests = {} /\ Acks = {}
  BY <1>1 DEF AppendRequests, Acks
<1>3. /\ \A i \in Server : role[i] = "FOLLOWER" /\ log[i] = <<>>
      /\ \A t \in Term : leaderLog[t] = <<>>
      /\ elected = {}
  BY DEF Init
<1>4. DOMAIN <<>> = {}
  OBVIOUS
<1>5. \A i \in Server : Grounded(log[i])
  BY <1>3, <1>4 DEF Grounded
<1>6. \A t \in Term : Grounded(leaderLog[t])
  BY <1>3, <1>4 DEF Grounded
<1>7. TermsOrdered
  BY <1>3, <1>4 DEF TermsOrdered
<1>8. TermsPositive /\ LeadersOwnLog /\ OnlyLeadersWrite /\ MatchesTruthful
  BY <1>3 DEF TermsPositive, LeadersOwnLog, OnlyLeadersWrite, MatchesTruthful
<1>9. RequestsAreSlices /\ AcksTruthful
  BY <1>2 DEF RequestsAreSlices, AcksTruthful
<1>10. QED
  BY <1>5, <1>6, <1>7, <1>8, <1>9 DEF LogInv, LogsGrounded

(* Every step is Tame, wins an election or appends a request. *)
LEMMA StepKinds ==
    ASSUME ElectionInv, ElectionInv', LogInv, [Next]_vars
    PROVE  \/ Tame
           \/ \E i \in Server, m \in BagToSet(net) :
                /\ m.dst = i /\ m.code = "RPC_RESP_REQ_VOTE" /\ role[i] = "CANDIDATE"
                /\ CountVote(i, m) /\ become_leader(i, m) /\ UNCHANGED durable
           \/ \E i \in Server, r \in Request : handle_proc_request(i, r)
<1>1. TypeOK /\ TypeOK'
  BY DEF ElectionInv
<1>2. CASE UNCHANGED vars
  <2>1. UNCHANGED <<currentTerm, role, log, nextIndex, matchIndex, net, leaderLog, elected>>
    BY <1>2 DEF vars, durable, electionVars, leaderVars, history
  <2>2. BagToSet(net') \subseteq BagToSet(net)
    BY <2>1
  <2>3. LegalNet
    BY <2>2, ShrinkLegal
  <2>4. \A j \in Server : RoleStep(j)
    BY <2>1 DEF RoleStep
  <2>5. QED
    BY <1>1, <2>1, <2>3, <2>4, PlainTame
<1>3. ASSUME NEW i \in Server, NEW m \in BagToSet(net), m.dst = i, raft_handle_rpc(i, m)
      PROVE  \/ Tame
             \/ /\ m.code = "RPC_RESP_REQ_VOTE" /\ role[i] = "CANDIDATE"
                /\ CountVote(i, m) /\ become_leader(i, m) /\ UNCHANGED durable
  <2>1. CASE handle_append_entries_request(i, m)
    BY <1>1, <1>3, <2>1, AppendRequestTame
  <2>2. CASE handle_append_entries_response(i, m)
    BY <1>1, <1>3, <2>2, AppendResponseTame
  <2>3. CASE handle_request_vote_request(i, m)
    BY <1>1, <2>3, BallotTame
  <2>4. CASE handle_request_vote_response(i, m)
    BY <1>1, <2>4, VoteTame DEF CountVote, handle_request_vote_response
  <2>5. QED
    BY <1>3, <2>1, <2>2, <2>3, <2>4 DEF raft_handle_rpc
<1>4. ASSUME NEW i \in Server, raft_handle_timeout(i) PROVE Tame
  BY <1>1, <1>4, ElectionTame, HeartbeatTame DEF raft_handle_timeout
<1>5. ASSUME NEW i \in Server, Crash(i) PROVE Tame
  BY <1>1, <1>5, CrashTame
<1>6. QED
  BY <1>2, <1>3, <1>4, <1>5 DEF Next, raft_run

LEMMA NextLog ==
    ASSUME ElectionInv, LogInv, [Next]_vars
    PROVE  LogInv'
<1>1. ElectionInv' /\ TypeOK /\ TypeOK'
  BY NextElection DEF ElectionInv
<1>2. QED
  BY <1>1, StepKinds, TameStep, WinStep, ProcRequestStep

(* LogInv holds in every reachable state: what the test of prev_log_idx     *)
(* lets into a log, and what acknowledgements claim however late they are,  *)
(* is what the leader of the term has in its log.                           *)
THEOREM LogInvariant == Spec => []LogInv
BY InitElection, InitLog, NextElection, NextLog, PTL DEF Spec

-----------------------------------------------------------------------------
(* What it means for the logs *)

LEMMA AgreeSubSeq ==
    ASSUME NEW l \in LogType, NEW f \in LogType, NEW n \in Nat, Agree(l, f, n)
    PROVE  SubSeq(l, 1, n) = SubSeq(f, 1, n)
<1>1. l \in Seq(Entry) /\ f \in Seq(Entry) /\ n <= Len(l) /\ n <= Len(f)
  BY DEF LogType, Agree
<1>2. /\ SubSeq(l, 1, n) \in Seq(Entry) /\ Len(SubSeq(l, 1, n)) = n
      /\ \A k \in 1 .. n : SubSeq(l, 1, n)[k] = l[k]
  BY <1>1, SubSeqType
<1>3. /\ SubSeq(f, 1, n) \in Seq(Entry) /\ Len(SubSeq(f, 1, n)) = n
      /\ \A k \in 1 .. n : SubSeq(f, 1, n)[k] = f[k]
  BY <1>1, SubSeqType
<1>4. \A k \in 1 .. n : l[k] = f[k]
  BY DEF Agree
<1>5. QED
  BY <1>2, <1>3, <1>4

LEMMA LogInvMatching == TypeOK /\ LogInv => LogMatching
<1> SUFFICES ASSUME TypeOK, LogInv, NEW i \in Server, NEW j \in Server,
                    NEW k \in DOMAIN log[i] \cap DOMAIN log[j],
                    log[i][k].term = log[j][k].term
             PROVE  SubSeq(log[i], 1, k) = SubSeq(log[j], 1, k)
  BY DEF LogMatching
<1>1. log[i] \in LogType /\ log[j] \in LogType /\ Grounded(log[i]) /\ Grounded(log[j])
  BY TypeFacts DEF LogInv, LogsGrounded
<1>2. k \in Nat
  BY <1>1, LogFacts
<1>3. Agree(log[i], log[j], k)
  BY <1>1, GroundedMatch
<1>4. QED
  BY <1>1, <1>2, <1>3, AgreeSubSeq

LEMMA LogInvMatchIndex == TypeOK /\ LogInv => MatchIndexTruthful
<1> SUFFICES ASSUME TypeOK, LogInv, NEW i \in Server, NEW j \in Server,
                    role[i] = "LEADER", j # i, currentTerm[j] = currentTerm[i]
             PROVE  LET n == matchIndex[i][j] + 1
                    IN  n <= Len(log[j]) /\ SubSeq(log[j], 1, n) = SubSeq(log[i], 1, n)
  BY DEF MatchIndexTruthful
<1> DEFINE n == matchIndex[i][j] + 1
<1>1. log[i] \in LogType /\ log[j] \in LogType /\ n \in Nat
  BY TypeFacts
<1>2. log[i] = leaderLog[currentTerm[i]]
  BY DEF LogInv, LeadersOwnLog
<1>3. Kept(j, currentTerm[i], n)
  BY DEF LogInv, MatchesTruthful
<1> HIDE DEF n
<1>4. Agree(log[j], log[i], n)
  <2>1. CASE n > 0
    BY <1>2, <1>3, <2>1 DEF Kept
  <2>2. CASE n = 0
    BY <1>1, <2>2, LogFacts DEF Agree
  <2>3. QED
    BY <1>1, <2>1, <2>2
<1>5. n <= Len(log[j])
  BY <1>4 DEF Agree
<1>6. QED
  BY <1>1, <1>4, <1>5, AgreeSubSeq DEF n

(* Two logs that hold entries of one term at one index agree up to there,  *)
(* for every cluster size, whatever the merge loop of                      *)
(* handle_append_entries_request cut off, rewrote or left half written.    *)
THEOREM LogsMatch == Spec => []LogMatching
BY TypeCorrect, LogInvariant, LogInvMatching, PTL

(* While a peer is in the leader's term, match_index is an index up to     *)
(* which it has the leader's log: what handle_append_entries_response      *)
(* counts is true however late the acknowledgement arrives.                *)
THEOREM MatchIndexTrue == Spec => []MatchIndexTruthful
BY TypeCorrect, LogInvariant, LogInvMatchIndex, PTL

LEMMA AgreePrefix ==
    ASSUME NEW l \in LogType, NEW f \in LogType, Agree(l, f, Len(l))
    PROVE  SubSeq(f, 1, Len(l)) = l
<1>1. Len(l) \in Nat /\ Len(l) <= Len(f) /\ f \in Seq(Entry) /\ l \in Seq(Entry)
  BY LogFacts DEF LogType, Agree
<1>2. /\ SubSeq(f, 1, Len(l)) \in Seq(Entry) /\ Len(SubSeq(f, 1, Len(l))) = Len(l)
      /\ \A k \in 1 .. Len(l) : SubSeq(f, 1, Len(l))[k] = f[k]
  BY <1>1, SubSeqType
<1>3. \A k \in 1 .. Len(l) : l[k] = f[k]
  BY DEF Agree
<1>4. QED
  BY <1>1, <1>2, <1>3

LEMMA LeaderKeeps ==
    ASSUME ElectionInv, LogInv, [Next]_vars,
           NEW i \in Server, role[i] = "LEADER", role'[i] = "LEADER"
    PROVE  SubSeq(log'[i], 1, Len(log[i])) = log[i]
<1>1. ElectionInv' /\ TypeOK /\ TypeOK'
  BY NextElection DEF ElectionInv
<1>2. log[i] \in LogType /\ log'[i] \in LogType
  BY <1>1, TypeFacts, TypeFactsNext
<1>3. Agree(log[i], log[i], Len(log[i]))
  BY <1>2, LogFacts DEF Agree
<1>4. CASE log'[i] = log[i]
  BY <1>2, <1>3, <1>4, AgreePrefix
<1>5. CASE Tame
  BY <1>4, <1>5 DEF Tame, LegalIndexes
<1>6. ASSUME NEW k \in Server, NEW m \in BagToSet(net),
             role[k] = "CANDIDATE", become_leader(k, m), UNCHANGED durable
      PROVE  log'[i] = log[i]
  BY <1>6 DEF durable
<1>7. ASSUME NEW k \in Server, NEW r \in Request, handle_proc_request(k, r)
      PROVE  log'[i] = log[i] \/ Agree(log[i], log'[i], Len(log[i]))
  <2> DEFINE l == Append(log[k], [term |-> currentTerm[k], req |-> r])
  <2>1. log' = [log EXCEPT ![k] = l]
    BY <1>7 DEF handle_proc_request
  <2>2. CASE i = k
    <3>1. log'[i] = l /\ log[i] \in Seq(Entry)
      BY <1>1, <1>2, <2>1, <2>2 DEF TypeOK, LogType
    <3>2. Len(l) = Len(log[i]) + 1 /\ \A q \in 1 .. Len(log[i]) : l[q] = log[i][q]
      BY <2>2, <3>1
    <3>3. Len(log[i]) \in Nat
      BY <3>1
    <3> HIDE DEF l
    <3>4. QED
      BY <3>1, <3>2, <3>3 DEF Agree
  <2>3. CASE i # k
    BY <1>1, <2>1, <2>3 DEF TypeOK
  <2>4. QED
    BY <2>2, <2>3
<1>8. log'[i] = log[i] \/ Agree(log[i], log'[i], Len(log[i]))
  BY <1>1, <1>5, <1>6, <1>7, StepKinds DEF Tame, LegalIndexes
<1>9. QED
  BY <1>2, <1>4, <1>8, AgreePrefix

(* A leader never removes or rewrites an entry of its own log: no append   *)
(* of its own term ever reaches it.                                        *)
THEOREM LeadersOnlyAppend == Spec => LeaderAppendOnly
<1>1. ElectionInv /\ LogInv /\ [Next]_vars =>
        [\A i \in Server : role[i] = "LEADER" /\ role'[i] = "LEADER" =>
            SubSeq(log'[i], 1, Len(log[i])) = log[i]]_vars
  BY LeaderKeeps
<1>2. QED
  BY <1>1, ElectionInvariant, LogInvariant, PTL DEF Spec, LeaderAppendOnly
=============================================================================
