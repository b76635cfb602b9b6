----------------------- MODULE PersistentFieldsProofs -----------------------
(***************************************************************************)
(* For any number of peers and terms, with failing calls, kills and power  *)
(* failures between any two system calls: term and vote reach the disk in  *)
(* the order in which the handlers set them, and a promise is kept.        *)
(***************************************************************************)
EXTENDS PersistentFields, SequenceTheorems, NaturalsInduction, WellFoundedInduction, TLAPS

-----------------------------------------------------------------------------
(* Fields *)

LEMMA NotFields == Short \notin Fields /\ None \notin Fields
<1>1. Fields \subseteq [term : Nat, vote : Peer \cup {Self, NoVote}]
  BY DEF Fields, Term, Vote
<1>2. QED
  BY <1>1, ValueAssumption

LEMMA FieldsEqual ==
    ASSUME NEW f \in Fields
    PROVE  f = [term |-> f.term, vote |-> f.vote] /\ f.term \in Term /\ f.vote \in Vote
BY DEF Fields

LEMMA FoundFields ==
    ASSUME NEW img \in Fields \cup {Short}
    PROVE  /\ Found(img) \in Fields
           /\ img # Short => Found(img) = img
           /\ img = Short => Found(img).term = 0 /\ Found(img).vote = NoVote
BY BoundAssumption DEF Found, Fresh, Fields, Term, Vote

LEMMA WrittenFields ==
    ASSUME NEW f \in Fields, NEW w \in Set
    PROVE  /\ Written(f, w) \in Fields
           /\ Written(f, w).term = IF w[1] = "term" THEN w[2] ELSE f.term
           /\ Written(f, w).vote = IF w[1] = "vote" THEN w[2] ELSE f.vote
BY DEF Written, Set, Fields

LEMMA WrittenVote ==
    ASSUME NEW f \in Fields, NEW w \in Set, w[1] = "vote"
    PROVE  Written(f, w).term = f.term /\ Written(f, w).vote = w[2]
<1>1. w[1] # "term"
  OBVIOUS
<1>2. QED
  BY <1>1, WrittenFields

LEMMA WrittenTerm ==
    ASSUME NEW f \in Fields, NEW w \in Set, w[1] = "term"
    PROVE  Written(f, w).term = w[2] /\ Written(f, w).vote = f.vote
<1>1. w[1] # "vote"
  OBVIOUS
<1>2. QED
  BY <1>1, WrittenFields

LEMMA Sets ==
    /\ \A t \in Term : SetTerm(t) \in Set /\ SetTerm(t)[1] = "term" /\ SetTerm(t)[2] = t
    /\ \A v \in Vote : SetVote(v) \in Set /\ SetVote(v)[1] = "vote" /\ SetVote(v)[2] = v
BY DEF Set, SetTerm, SetVote

LEMMA SetCases ==
    ASSUME NEW w \in Set
    PROVE  \/ w[1] = "term" /\ w[2] \in Term
           \/ w[1] = "vote" /\ w[2] \in Vote
BY DEF Set

-----------------------------------------------------------------------------
(* Lists of sets *)

LEMMA LargestExists ==
    ASSUME NEW n \in Nat, NEW T \in SUBSET (1 .. n), T # {}
    PROVE  Max(T) \in T /\ \A y \in T : y <= Max(T)
<1> DEFINE R == {n - x : x \in T}
<1>1. IsWellFoundedOn(OpToRel(<, Nat), Nat)
  BY NatLessThanWellFounded
<1>2. R \in SUBSET Nat /\ R # {}
  <2>1. \A x \in T : n - x \in Nat
    OBVIOUS
  <2>2. QED
    BY <2>1
<1>3. PICK d \in R : \A e \in R : ~ (<<e, d>> \in OpToRel(<, Nat))
  <2> HIDE DEF R
  <2> QED BY <1>1, <1>2, WFMin
<1>4. \A a, b \in Nat : a < b => <<a, b>> \in OpToRel(<, Nat)
  BY Zenon DEF OpToRel
<1>5. \A e \in R : ~ (e < d)
  <2> HIDE DEF R
  <2> QED BY <1>2, <1>3, <1>4, Zenon
<1>6. PICK x \in T : d = n - x
  OBVIOUS
<1>7. \A y \in T : x >= y
  <2> TAKE y \in T
  <2>1. ~ (n - y < d)
    BY <1>5
  <2>2. x \in Int /\ y \in Int /\ n \in Int
    OBVIOUS
  <2> HIDE DEF R
  <2>3. QED
    BY <1>6, <2>1, <2>2
<1>8. /\ (CHOOSE m \in T : \A y \in T : m >= y) \in T
      /\ \A y \in T : (CHOOSE m \in T : \A z \in T : m >= z) >= y
  BY <1>7
<1>9. QED
  BY <1>8 DEF Max

LEMMA LatestType ==
    ASSUME NEW f \in Fields, NEW s \in Seq(Set)
    PROVE  Latest(f, s, "term") \in Term /\ Latest(f, s, "vote") \in Vote
<1>1. ASSUME NEW w \in {"term", "vote"}
      PROVE  Latest(f, s, w) \in {f[w]} \cup {v[2] : v \in {u \in Set : u[1] = w}}
  <2> DEFINE at == {k \in DOMAIN s : s[k][1] = w}
  <2>1. CASE at = {}
    BY <2>1 DEF Latest
  <2>2. CASE at # {}
    <3>1. at \in SUBSET (1 .. Len(s)) /\ Len(s) \in Nat
      OBVIOUS
    <3>2. Max(at) \in at
      BY <2>2, <3>1, LargestExists
    <3>3. s[Max(at)] \in Set /\ s[Max(at)][1] = w
      BY <3>2
    <3>4. Latest(f, s, w) = s[Max(at)][2]
      BY <2>2 DEF Latest
    <3>5. QED
      BY <3>3, <3>4
  <2>3. QED
    BY <2>1, <2>2
<1>2. f["term"] \in Term /\ f["vote"] \in Vote
  BY DEF Fields
<1>3. \A u \in Set : (u[1] = "term" => u[2] \in Term) /\ (u[1] = "vote" => u[2] \in Vote)
  BY SetCases
<1>4. QED
  BY <1>1, <1>2, <1>3

LEMMA LatestAppend ==
    ASSUME NEW f \in Fields, NEW s \in Seq(Set), NEW v \in Set, NEW w \in {"term", "vote"}
    PROVE  Latest(f, Append(s, v), w) = IF v[1] = w THEN v[2] ELSE Latest(f, s, w)
<1> DEFINE n == Len(s)
           l == Append(s, v)
           old == {k \in DOMAIN s : s[k][1] = w}
           at == {k \in DOMAIN l : l[k][1] = w}
<1>1. /\ n \in Nat /\ DOMAIN s = 1 .. n /\ DOMAIN l = 1 .. n + 1
      /\ l[n + 1] = v /\ \A k \in 1 .. n : l[k] = s[k]
  OBVIOUS
<1>2. CASE v[1] = w
  <2>1. n + 1 \in at /\ at \in SUBSET (1 .. n + 1)
    BY <1>1, <1>2
  <2>2. Max(at) \in at /\ \A y \in at : y <= Max(at)
    <3>1. n + 1 \in Nat /\ at # {}
      BY <1>1, <2>1
    <3> HIDE DEF at, n
    <3>2. QED
      BY <2>1, <3>1, LargestExists
  <2>3. Max(at) = n + 1
    <3>1. Max(at) \in 1 .. n + 1 /\ n + 1 <= Max(at)
      BY <2>1, <2>2
    <3> HIDE DEF at
    <3>2. QED
      BY <1>1, <3>1
  <2>4. QED
    BY <1>1, <1>2, <2>1, <2>3 DEF Latest
<1>3. CASE v[1] # w
  <2>1. at = old
    BY <1>1, <1>3
  <2>2. CASE old = {}
    BY <1>3, <2>1, <2>2 DEF Latest
  <2>3. CASE old # {}
    <3>1. Max(old) \in old
      BY <1>1, <2>3, LargestExists
    <3>2. l[Max(old)] = s[Max(old)]
      BY <1>1, <3>1
    <3>3. QED
      BY <1>3, <2>1, <2>3, <3>2 DEF Latest
  <2>4. QED
    BY <2>2, <2>3
<1>4. QED
  BY <1>2, <1>3

LEMMA AfterType ==
    ASSUME NEW f \in Fields, NEW s \in Seq(Set)
    PROVE  After(f, s) \in Fields
BY LatestType DEF After, Fields

LEMMA AfterNone ==
    ASSUME NEW f \in Fields
    PROVE  After(f, <<>>) = f
<1>1. Latest(f, <<>>, "term") = f.term /\ Latest(f, <<>>, "vote") = f.vote
  BY DEF Latest, Fields
<1>2. QED
  BY <1>1, FieldsEqual DEF After

(* One more set is one more pf_set. *)
LEMMA AfterAppend ==
    ASSUME NEW f \in Fields, NEW s \in Seq(Set), NEW v \in Set
    PROVE  After(f, Append(s, v)) = Written(After(f, s), v)
<1>1. Append(s, v) \in Seq(Set)
  OBVIOUS
<1>2. After(f, s) \in Fields /\ After(f, Append(s, v)) \in Fields
  BY <1>1, AfterType
<1>3. After(f, Append(s, v)).term = Written(After(f, s), v).term
  BY <1>2, LatestAppend, WrittenFields DEF After
<1>4. After(f, Append(s, v)).vote = Written(After(f, s), v).vote
  BY <1>2, LatestAppend, WrittenFields DEF After
<1>5. QED
  BY <1>2, <1>3, <1>4, WrittenFields, FieldsEqual


LEMMA AfterNext ==
    ASSUME NEW f \in Fields, NEW s \in Seq(Set), NEW d \in 0 .. Len(s)
    PROVE  /\ After(f, SubSeq(s, 1, d)) \in Fields
           /\ d = 0 => After(f, SubSeq(s, 1, d)) = f
           /\ d < Len(s) =>
                 /\ s[d + 1] \in Set
                 /\ After(f, SubSeq(s, 1, d + 1)) = Written(After(f, SubSeq(s, 1, d)), s[d + 1])
<1>1. SubSeq(s, 1, d) \in Seq(Set)
  OBVIOUS
<1>2. After(f, SubSeq(s, 1, d)) \in Fields
  BY <1>1, AfterType
<1>3. ASSUME d = 0 PROVE After(f, SubSeq(s, 1, d)) = f
  <2>1. SubSeq(s, 1, d) = <<>>
    BY <1>1, <1>3
  <2>2. QED
    BY <2>1, AfterNone
<1>4. ASSUME d < Len(s)
      PROVE  /\ s[d + 1] \in Set
             /\ SubSeq(s, 1, d + 1) = Append(SubSeq(s, 1, d), s[d + 1])
  <2> DEFINE a == SubSeq(s, 1, d + 1)
             b == Append(SubSeq(s, 1, d), s[d + 1])
  <2>1. s[d + 1] \in Set /\ d \in Nat
    BY <1>4
  <2>2. a \in Seq(Set) /\ Len(a) = d + 1 /\ \A k \in 1 .. d + 1 : a[k] = s[k]
    BY <1>4
  <2>3. /\ SubSeq(s, 1, d) \in Seq(Set) /\ Len(SubSeq(s, 1, d)) = d
        /\ \A k \in 1 .. d : SubSeq(s, 1, d)[k] = s[k]
    BY <1>4
  <2>4. b \in Seq(Set) /\ Len(b) = d + 1 /\ \A k \in 1 .. d + 1 : b[k] = s[k]
    BY <2>1, <2>3
  <2> HIDE DEF a, b
  <2>5. a = b
    BY <2>2, <2>4
  <2>6. QED
    BY <2>1, <2>5 DEF a, b
<1>5. ASSUME d < Len(s)
      PROVE  After(f, SubSeq(s, 1, d + 1)) = Written(After(f, SubSeq(s, 1, d)), s[d + 1])
  <2>1. After(f, Append(SubSeq(s, 1, d), s[d + 1])) = Written(After(f, SubSeq(s, 1, d)), s[d + 1])
    BY <1>1, <1>4, <1>5, AfterAppend, Zenon
  <2>2. QED
    BY <1>4, <1>5, <2>1, Zenon
<1>6. QED
  BY <1>2, <1>3, <1>4, <1>5, Zenon

(* What a handler has done after d of its sets, and what it does next. *)
Stage(f, t, v, s, d) ==
    LET g == After(f, SubSeq(s, 1, d))
    IN  /\ g \in Fields
        /\ d = 0 => g = f
        /\ d = Len(s) => g.term = t /\ (v # NoVote => d > 0 /\ g = [term |-> t, vote |-> v])
        /\ 0 < d /\ d < Len(s) =>
              /\ g.term = t /\ s[d + 1][1] = "vote"
              /\ t > f.term \/ s = become_follower(f.term)
        /\ d = 0 /\ d < Len(s) =>
              \/ s[1] = SetVote(v) /\ v # NoVote /\ f.vote \in {NoVote, v} /\ Len(s) = 1
              \/ s[1] = SetTerm(t) /\ (t > f.term \/ (t = f.term /\ s = become_follower(f.term)))

LEMMA Stages ==
    ASSUME NEW f \in Fields, NEW t \in Term, NEW v \in Vote, NEW s, Known(f, t, v, s),
           NEW d \in 0 .. Len(s)
    PROVE  Stage(f, t, v, s, d)
<1> DEFINE T == SetTerm(t)
           N == SetVote(NoVote)
           V == SetVote(v)
           g(k) == After(f, SubSeq(s, 1, k))
<1>1. /\ T \in Set /\ N \in Set /\ V \in Set
      /\ T[1] = "term" /\ T[2] = t /\ N[1] = "vote" /\ N[2] = NoVote /\ V[1] = "vote" /\ V[2] = v
  BY Sets DEF Vote
<1>2. f.term \in Int /\ t \in Int /\ f.term \in Term
  BY DEF Fields, Term
<1>3. become_follower(t) = <<T, N>>
  BY DEF become_follower
<1> HIDE DEF T, N, V
<1>4. \/ s = <<>> /\ v = NoVote /\ t = f.term
      \/ s = <<V>> /\ v # NoVote /\ t = f.term /\ f.vote \in {NoVote, v}
      \/ s = <<T, N>> /\ v = NoVote /\ t >= f.term
      \/ s = <<T, N>> \o <<V>> /\ v # NoVote /\ t > f.term
      \/ s = <<T, V>> /\ v # NoVote /\ t > f.term
  BY <1>3 DEF Known, T, V
<1>5. s \in Seq(Set)
  <2>1. <<>> \in Seq(Set) /\ <<V>> \in Seq(Set) /\ <<T, N>> \in Seq(Set) /\ <<T, V>> \in Seq(Set)
    BY <1>1
  <2>2. <<T, N>> \o <<V>> \in Seq(Set)
    BY <2>1, ConcatProperties
  <2>3. QED
    BY <1>4, <2>1, <2>2
<1>6. /\ \A k \in 0 .. Len(s) : g(k) \in Fields
      /\ g(0) = f
      /\ \A k \in 0 .. Len(s) : k < Len(s) => g(k + 1) = Written(g(k), s[k + 1])
  BY <1>5, AfterNext
<1> HIDE DEF g
<1>7. SUFFICES /\ g(d) \in Fields
               /\ d = 0 => g(d) = f
               /\ d = Len(s) => g(d).term = t /\ (v # NoVote => d > 0 /\ g(d) = [term |-> t, vote |-> v])
               /\ 0 < d /\ d < Len(s) =>
                     /\ g(d).term = t /\ s[d + 1][1] = "vote"
                     /\ t > f.term \/ s = become_follower(f.term)
               /\ d = 0 /\ d < Len(s) =>
                     \/ s[1] = V /\ v # NoVote /\ f.vote \in {NoVote, v} /\ Len(s) = 1
                     \/ s[1] = T /\ (t > f.term \/ (t = f.term /\ s = become_follower(f.term)))
  BY DEF Stage, g, T, V
<1>8. CASE s = <<>> /\ v = NoVote /\ t = f.term
  BY <1>6, <1>8
<1>9. CASE s = <<V>> /\ v # NoVote /\ t = f.term /\ f.vote \in {NoVote, v}
  <2>1. Len(s) = 1 /\ s[1] = V
    BY <1>9
  <2>2. g(1) = Written(f, V)
    BY <1>6, <2>1
  <2>3. g(1) \in Fields /\ g(1).term = t /\ g(1).vote = v
    <3>1. g(1) \in Fields
      BY <1>6, <2>1
    <3>2. Written(f, V).term = f.term /\ Written(f, V).vote = v
      BY <1>1, WrittenVote
    <3>3. QED
      BY <1>9, <2>2, <3>1, <3>2
  <2>4. g(1) = [term |-> t, vote |-> v]
    BY <2>3, FieldsEqual
  <2>5. QED
    BY <1>6, <1>9, <2>1, <2>3, <2>4
<1>10. CASE s = <<T, N>> /\ v = NoVote /\ t >= f.term
  <2>1. Len(s) = 2 /\ s[1] = T /\ s[2] = N
    BY <1>10
  <2>2. g(1) = Written(f, T) /\ g(1) \in Fields
    BY <1>6, <2>1
  <2>3. g(1).term = t
    BY <1>1, <2>2, WrittenTerm
  <2>4. g(2) = Written(g(1), N) /\ g(2) \in Fields
    BY <1>6, <2>1
  <2>5. g(2).term = t
    BY <1>1, <2>2, <2>3, <2>4, WrittenVote
  <2>6. t > f.term \/ (t = f.term /\ s = become_follower(f.term))
    BY <1>2, <1>3, <1>10
  <2>7. QED
    BY <1>1, <1>6, <1>10, <2>1, <2>3, <2>5, <2>6
<1>11. CASE s = <<T, N>> \o <<V>> /\ v # NoVote /\ t > f.term
  <2>1. Len(s) = 3 /\ s[1] = T /\ s[2] = N /\ s[3] = V
    BY <1>11
  <2>2. g(1) = Written(f, T) /\ g(1) \in Fields
    BY <1>6, <2>1
  <2>3. g(1).term = t
    BY <1>1, <2>2, WrittenTerm
  <2>4. g(2) = Written(g(1), N) /\ g(2) \in Fields
    BY <1>6, <2>1
  <2>5. g(2).term = t
    BY <1>1, <2>2, <2>3, <2>4, WrittenVote
  <2>6. g(3) = Written(g(2), V) /\ g(3) \in Fields
    BY <1>6, <2>1
  <2>7. g(3).term = t /\ g(3).vote = v
    BY <1>1, <2>4, <2>5, <2>6, WrittenVote
  <2>8. g(3) = [term |-> t, vote |-> v]
    BY <2>6, <2>7, FieldsEqual
  <2>9. QED
    BY <1>1, <1>6, <1>11, <2>1, <2>3, <2>5, <2>7, <2>8
<1>12. CASE s = <<T, V>> /\ v # NoVote /\ t > f.term
  <2>1. Len(s) = 2 /\ s[1] = T /\ s[2] = V
    BY <1>12
  <2>2. g(1) = Written(f, T) /\ g(1) \in Fields
    BY <1>6, <2>1
  <2>3. g(1).term = t
    BY <1>1, <2>2, WrittenTerm
  <2>4. g(2) = Written(g(1), V) /\ g(2) \in Fields
    BY <1>6, <2>1
  <2>5. g(2).term = t /\ g(2).vote = v
    BY <1>1, <2>2, <2>3, <2>4, WrittenVote
  <2>6. g(2) = [term |-> t, vote |-> v]
    BY <2>4, <2>5, FieldsEqual
  <2>7. QED
    BY <1>1, <1>6, <1>12, <2>1, <2>3, <2>5, <2>6
<1>13. QED
  BY <1>4, <1>8, <1>9, <1>10, <1>11, <1>12


LEMMA KnownType ==
    ASSUME NEW f \in Fields, NEW t \in Term, NEW v \in Vote, NEW s, Known(f, t, v, s)
    PROVE  s \in Seq(Set)
<1>1. SetTerm(t) \in Set /\ SetVote(v) \in Set /\ SetVote(NoVote) \in Set
  BY Sets DEF Vote
<1>2. /\ <<>> \in Seq(Set) /\ <<SetVote(v)>> \in Seq(Set)
      /\ <<SetTerm(t), SetVote(NoVote)>> \in Seq(Set) /\ <<SetTerm(t), SetVote(v)>> \in Seq(Set)
  BY <1>1
<1>3. <<SetTerm(t), SetVote(NoVote)>> \o <<SetVote(v)>> \in Seq(Set)
  BY <1>2, ConcatProperties
<1>4. QED
  BY <1>2, <1>3 DEF Known, become_follower

-----------------------------------------------------------------------------
(* Initial states *)

LEMMA InitInv == Init => FieldsInv
<1> SUFFICES ASSUME Init PROVE FieldsInv
  OBVIOUS
<1>1. TypeOK
  <2>1. candidate \in BOOLEAN /\ killed \in BOOLEAN
    BY DEF Init
  <2>2. 0 \in Term /\ 0 \in 0 .. MaxErrors
    BY BoundAssumption DEF Term
  <2>3. QED
    BY <2>1, <2>2 DEF Init, TypeOK
<1>2. HandlerInv
  BY DEF Init, HandlerInv, Done
<1>3. HandlerKnown /\ DiskInv /\ VoteKept /\ VoteSeen
  BY DEF Init, HandlerKnown, DiskInv, VoteKept, VoteSeen
<1>4. TermKept
  BY DEF Init, TermKept, Found, Fresh
<1>5. QED
  BY <1>1, <1>2, <1>3, <1>4 DEF FieldsInv

-----------------------------------------------------------------------------
(* persistent_fields_init *)

(* A promise is never forgotten for a file that is too short. *)
LEMMA PromiseNeedsFile ==
    ASSUME FieldsInv, errors = 0, promise # None
    PROVE  Short \notin images
<1>1. promise.term \in Nat /\ promise.vote # NoVote
  BY PeerAssumption DEF FieldsInv, TypeOK, Term
<1>2. Found(Short).term = 0 /\ Found(Short).vote = NoVote
  BY FoundFields
<1>3. QED
  BY <1>1, <1>2 DEF FieldsInv, VoteKept

LEMMA OpenInv == ASSUME FieldsInv, Open PROVE FieldsInv'
<1>1. answer = None /\ base = None /\ steps = <<>> /\ todo = <<>> /\ Done = 0
  <2>1. answer = None /\ base = None /\ steps = <<>>
    BY DEF FieldsInv, HandlerInv, Open
  <2>2. todo = <<>>
    BY <2>1 DEF FieldsInv, HandlerInv, Done
  <2>3. QED
    BY <2>1, <2>2 DEF Done
<1>2. answer' = None /\ base' = None /\ steps' = <<>> /\ todo' = <<>> /\ Done' = 0
  BY <1>1 DEF Open, handler, Done
<1>3. pc' # "write" /\ (pc' = "fsync" => file' # Short)
  BY NotFields, BoundAssumption DEF Open, Fresh, Fields, Term, Vote
<1>4. TypeOK'
  <2>1. Fresh \in Fields
    BY BoundAssumption DEF Fresh, Fields, Term, Vote
  <2>2. candidate' \in BOOLEAN /\ killed' \in BOOLEAN
    BY Zenon DEF FieldsInv, TypeOK, Open, Fail, faults
  <2>3. errors' \in 0 .. MaxErrors
    BY BoundAssumption DEF FieldsInv, TypeOK, Open, Fail, faults
  <2>4. images' \subseteq Fields \cup {Short} /\ file' \in images' /\ pc' \in {"open", "idle", "fsync"}
        /\ (pc' = "idle" => file' \in Fields)
    BY <2>1 DEF FieldsInv, TypeOK, Open, disk
  <2>5. promise' = promise /\ told' = told
    BY DEF Open, outside
  <2>6. QED
    BY <1>2, <2>2, <2>3, <2>4, <2>5 DEF FieldsInv, TypeOK
<1>5. HandlerInv'
  BY <1>2, <1>3 DEF HandlerInv
<1>6. HandlerKnown'
  BY <1>2 DEF HandlerKnown
<1>7. CASE errors' # 0
  BY <1>4, <1>5, <1>6, <1>7 DEF FieldsInv, DiskInv, VoteKept, VoteSeen, TermKept
<1>8. CASE file # Short /\ pc' = "idle" /\ UNCHANGED <<disk, faults>>
  BY <1>2, <1>4, <1>5, <1>6, <1>8
     DEF FieldsInv, DiskInv, VoteKept, VoteSeen, TermKept, Open, disk, faults, outside
<1>9. CASE /\ errors' = 0 /\ file = Short /\ file' = Fresh /\ images' = images \cup {Fresh}
           /\ pc' = "fsync" /\ UNCHANGED faults
  <2>1. promise = None
    BY <1>9, PromiseNeedsFile DEF FieldsInv, TypeOK, faults
  <2>2. promise' = None
    BY <2>1 DEF Open, outside
  <2>3. DiskInv'
    BY <1>2, <1>9 DEF DiskInv
  <2>4. VoteKept' /\ VoteSeen'
    BY <2>2 DEF VoteKept, VoteSeen
  <2>5. Found(Fresh).term = Found(Short).term
    BY DEF Found, Fresh
  <2>6. TermKept'
    BY <1>9, <2>5 DEF FieldsInv, TypeOK, TermKept, Open, faults, outside
  <2>7. QED
    BY <1>4, <1>5, <1>6, <2>3, <2>4, <2>6 DEF FieldsInv
<1>10. QED
  <2>1. ASSUME Fail PROVE errors' # 0
    BY <2>1 DEF Fail, FieldsInv, TypeOK
  <2>2. QED
    BY <1>7, <1>8, <1>9, <2>1 DEF Open

-----------------------------------------------------------------------------
(* Handlers *)

LEMMA HandleInv ==
    ASSUME FieldsInv, pc = "idle", NEW sets, NEW out \in Fields, Handle(sets, out),
           Known(file, out.term, out.vote, sets),
           promise' \in {promise, None}, promise' # None => sets # become_follower(file.term),
           candidate' \in BOOLEAN
    PROVE  FieldsInv'
<1>1. file \in Fields /\ out.term \in Term /\ out.vote \in Vote
  BY DEF FieldsInv, TypeOK, Fields
<1>2. sets \in Seq(Set)
  BY <1>1, KnownType
<1>3. /\ todo' = sets /\ steps' = sets /\ base' = file /\ answer' = out /\ pc' = "write"
      /\ file' = file /\ images' = images /\ told' = told /\ errors' = errors /\ killed' = killed
  BY DEF Handle, disk, faults
<1>4. answer' # None /\ file # Short
  BY <1>1, <1>3, NotFields
<1>5. Done' = 0
  BY <1>2, <1>3 DEF Done
<1>6. TypeOK'
  BY <1>1, <1>3, <1>4 DEF FieldsInv, TypeOK
<1>7. HandlerInv'
  <2>1. sets = SubSeq(sets, 1, Len(sets))
    BY <1>2
  <2>2. QED
    BY <1>1, <1>2, <1>3, <1>4, <1>5, <2>1, NotFields DEF HandlerInv
<1>8. HandlerKnown'
  <2>1. ASSUME errors = 0, promise' # None PROVE promise'.term <= file.term
    <3>1. promise' = promise
      BY <2>1
    <3>2. Found(file) = file /\ file \in images
      BY <1>4 DEF Found, FieldsInv, TypeOK
    <3>3. file.term > promise.term \/ file = promise
      BY <2>1, <3>1, <3>2 DEF FieldsInv, VoteKept
    <3>4. file.term \in Int /\ promise.term \in Int
      BY <1>1, <2>1, <3>1 DEF FieldsInv, TypeOK, Fields, Term
    <3>5. QED
      BY <3>1, <3>3, <3>4
  <2>2. QED
    BY <1>3, <2>1 DEF HandlerKnown
<1>9. DiskInv'
  <2>1. After(file, SubSeq(sets, 1, 0)) = file
    BY <1>1, <1>2, AfterNext
  <2>2. SetsDone' = file
    BY <1>3, <1>5, <2>1 DEF SetsDone
  <2>3. QED
    BY <1>3, <1>5, <2>2 DEF FieldsInv, DiskInv
<1>10. VoteKept' /\ VoteSeen' /\ TermKept'
  BY <1>3 DEF FieldsInv, VoteKept, VoteSeen, TermKept
<1>11. QED
  BY <1>6, <1>7, <1>8, <1>9, <1>10 DEF FieldsInv

LEMMA NotAgain ==
    ASSUME NEW t \in Term, NEW u \in Term, t # u, NEW v \in Vote
    PROVE  /\ become_follower(t) # become_follower(u)
           /\ become_follower(t) \o <<SetVote(v)>> # become_follower(u)
           /\ <<SetTerm(t), SetVote(v)>> # become_follower(u)
           /\ <<SetVote(v)>> # become_follower(u)
           /\ <<>> # become_follower(u)
<1>1. /\ become_follower(u)[1] = <<"term", u>> /\ Len(become_follower(u)) = 2
      /\ become_follower(t)[1] = <<"term", t>> /\ Len(become_follower(t)) = 2
  BY DEF become_follower, SetTerm
<1>2. /\ Len(become_follower(t) \o <<SetVote(v)>>) = 3 /\ Len(<<SetVote(v)>>) = 1 /\ Len(<<>>) = 0
      /\ <<SetTerm(t), SetVote(v)>>[1] = <<"term", t>>
  BY DEF become_follower, SetTerm
<1>3. <<"term", t>> # <<"term", u>>
  OBVIOUS
<1>4. QED
  BY <1>1, <1>2, <1>3

LEMMA HandlersInv ==
    ASSUME FieldsInv,
           \/ \E t \in Term : NewerTerm(t)
           \/ \E c \in Peer : GrantVote(c)
           \/ Elect \/ YieldToLeader \/ Acknowledge
    PROVE  FieldsInv'
<1>1. pc = "idle" => file \in Fields /\ file.term \in Term /\ file.vote \in Vote
  BY DEF FieldsInv, TypeOK, Fields
<1>2. candidate \in BOOLEAN /\ NoVote \in Vote /\ Self \in Vote /\ Peer \subseteq Vote
      /\ NoVote \notin Peer /\ NoVote # Self
  BY PeerAssumption DEF FieldsInv, TypeOK, Vote
<1>4. ASSUME NEW t \in Term, NewerTerm(t) PROVE FieldsInv'
  <2>1. pc = "idle" /\ t > file.term /\ candidate' = FALSE /\ promise' = promise
    BY <1>4 DEF NewerTerm
  <2> t >= file.term /\ t # file.term /\ file.term \in Term
    BY <1>1, <2>1 DEF Term
  <2>2. CASE Handle(become_follower(t), [term |-> t, vote |-> NoVote])
    <3>1. [term |-> t, vote |-> NoVote] \in Fields
      BY <1>2 DEF Fields
    <3>2. Known(file, t, NoVote, become_follower(t))
      BY DEF Known
    <3>3. become_follower(t) # become_follower(file.term)
      BY <1>2, NotAgain
    <3>4. QED
      BY <2>1, <2>2, <3>1, <3>2, <3>3, HandleInv
  <2>3. ASSUME NEW c \in Peer,
               Handle(become_follower(t) \o <<SetVote(c)>>, [term |-> t, vote |-> c])
        PROVE  FieldsInv'
    <3>1. [term |-> t, vote |-> c] \in Fields
      BY <1>2 DEF Fields
    <3>2. Known(file, t, c, become_follower(t) \o <<SetVote(c)>>)
      <4>1. c # NoVote
        BY <1>2
      <4>2. QED
        BY <2>1, <4>1 DEF Known
    <3>3. become_follower(t) \o <<SetVote(c)>> # become_follower(file.term)
      BY <1>2, NotAgain
    <3>4. QED
      BY <2>1, <2>3, <3>1, <3>2, <3>3, HandleInv
  <2>4. QED
    BY <1>4, <2>2, <2>3 DEF NewerTerm
<1>5. ASSUME NEW c \in Peer, GrantVote(c) PROVE FieldsInv'
  <2>1. /\ pc = "idle" /\ file.vote \in {NoVote, c}
        /\ Handle(<<SetVote(c)>>, [term |-> file.term, vote |-> c])
        /\ candidate' = candidate /\ promise' = promise
    BY <1>5 DEF GrantVote
  <2>2. [term |-> file.term, vote |-> c] \in Fields
    BY <1>1, <1>2, <2>1 DEF Fields
  <2>3. Known(file, file.term, c, <<SetVote(c)>>)
    BY <1>2, <2>1 DEF Known
  <2>4. <<SetVote(c)>> # become_follower(file.term)
    BY DEF become_follower
  <2>5. QED
    BY <1>2, <2>1, <2>2, <2>3, <2>4, HandleInv
<1>6. ASSUME Elect PROVE FieldsInv'
  <2>1. /\ pc = "idle" /\ file.term < MaxTerm
        /\ Handle(<<SetTerm(file.term + 1), SetVote(Self)>>, [term |-> file.term + 1, vote |-> Self])
        /\ candidate' = TRUE /\ promise' = promise
    BY <1>6 DEF Elect, start_election
  <2>2. file.term + 1 \in Term /\ file.term + 1 > file.term
    BY <1>1, <2>1, BoundAssumption DEF Term
  <2>3. [term |-> file.term + 1, vote |-> Self] \in Fields
    BY <1>2, <2>2 DEF Fields
  <2>4. Known(file, file.term + 1, Self, <<SetTerm(file.term + 1), SetVote(Self)>>)
    BY <1>2, <2>2 DEF Known
  <2>5. <<SetTerm(file.term + 1), SetVote(Self)>> # become_follower(file.term)
    <3>1. file.term \in Term /\ file.term + 1 # file.term
      BY <1>1, <2>1 DEF Term
    <3>2. QED
      BY <1>2, <2>2, <3>1, NotAgain
  <2>6. QED
    BY <2>1, <2>3, <2>4, <2>5, HandleInv
<1>7. ASSUME YieldToLeader PROVE FieldsInv'
  <2>1. /\ pc = "idle" /\ candidate' = FALSE /\ promise' = None
        /\ Handle(become_follower(file.term), [term |-> file.term, vote |-> NoVote])
    BY <1>7 DEF YieldToLeader
  <2>2. [term |-> file.term, vote |-> NoVote] \in Fields
    BY <1>1, <1>2, <2>1 DEF Fields
  <2>3. Known(file, file.term, NoVote, become_follower(file.term))
    <3>1. file.term >= file.term
      BY <1>1, <2>1 DEF Term
    <3>2. QED
      BY <3>1 DEF Known
  <2>4. QED
    BY <2>1, <2>2, <2>3, HandleInv
<1>8. ASSUME Acknowledge PROVE FieldsInv'
  <2>1. /\ pc = "idle" /\ candidate' = candidate /\ promise' = promise
        /\ Handle(<<>>, [term |-> file.term, vote |-> NoVote])
    BY <1>8 DEF Acknowledge
  <2>2. [term |-> file.term, vote |-> NoVote] \in Fields
    BY <1>1, <1>2, <2>1 DEF Fields
  <2>3. Known(file, file.term, NoVote, <<>>)
    BY DEF Known
  <2>4. <<>> # become_follower(file.term)
    BY DEF become_follower
  <2>5. QED
    BY <1>2, <2>1, <2>2, <2>3, <2>4, HandleInv
<1>9. QED
  BY <1>4, <1>5, <1>6, <1>7, <1>8


-----------------------------------------------------------------------------
(* pf_set *)

(* The state within a handler. *)
LEMMA Within ==
    ASSUME FieldsInv, answer # None
    PROVE  /\ base \in Fields /\ file \in Fields /\ steps \in Seq(Set)
           /\ answer \in Fields /\ answer.term \in Term /\ answer.vote \in Vote
           /\ Done \in 0 .. Len(steps)
           /\ Stage(base, answer.term, answer.vote, steps, Done)
<1>1. base \in Fields /\ answer \in Fields
  BY DEF FieldsInv, TypeOK, HandlerInv
<1>2. file \in Fields
  BY DEF FieldsInv, TypeOK, HandlerInv
<1>3. answer.term \in Term /\ answer.vote \in Vote
  BY <1>1, FieldsEqual
<1>4. steps \in Seq(Set) /\ Done \in 0 .. Len(steps)
  BY DEF FieldsInv, HandlerInv
<1>5. Known(base, answer.term, answer.vote, steps)
  BY DEF FieldsInv, HandlerKnown
<1>6. QED
  BY <1>1, <1>2, <1>3, <1>4, <1>5, Stages

LEMMA Suffix ==
    ASSUME NEW S, NEW l \in Seq(S), NEW d \in Nat, d < Len(l)
    PROVE  LET r == SubSeq(l, d + 1, Len(l))
           IN  /\ Head(r) = l[d + 1] /\ l[d + 1] \in S
               /\ Tail(r) \in Seq(S) /\ Len(Tail(r)) = Len(l) - (d + 1)
               /\ Tail(r) = SubSeq(l, d + 2, Len(l))
<1>1. d + 1 \in 1 .. Len(l) /\ Len(l) \in d + 1 .. Len(l) /\ (d + 1) + 1 = d + 2
  OBVIOUS
<1>2. /\ Head(SubSeq(l, d + 1, Len(l))) = l[d + 1]
      /\ Tail(SubSeq(l, d + 1, Len(l))) = SubSeq(l, (d + 1) + 1, Len(l))
  BY <1>1, HeadTailOfSubSeq
<1>3. SubSeq(l, d + 2, Len(l)) \in Seq(S) /\ Len(SubSeq(l, d + 2, Len(l))) = Len(l) - (d + 1)
  OBVIOUS
<1>4. l[d + 1] \in S
  BY <1>1
<1>5. Tail(SubSeq(l, d + 1, Len(l))) = SubSeq(l, d + 2, Len(l))
  BY <1>1, <1>2, Zenon
<1>6. QED
  BY <1>2, <1>3, <1>4, <1>5, Zenon

(* The next set of a handler is the list's next. *)
LEMMA NextSet ==
    ASSUME FieldsInv, answer # None, todo # <<>>
    PROVE  /\ Done < Len(steps) /\ Head(todo) = steps[Done + 1] /\ Head(todo) \in Set
           /\ Tail(todo) \in Seq(Set)
           /\ Tail(todo) = SubSeq(steps, Done + 2, Len(steps))
           /\ Len(steps) - Len(Tail(todo)) = Done + 1
<1>1. todo \in Seq(Set) /\ steps \in Seq(Set) /\ Len(todo) \in Nat /\ Len(steps) \in Nat
  BY DEF FieldsInv, HandlerInv
<1>2. Done \in 0 .. Len(steps) /\ todo = SubSeq(steps, Done + 1, Len(steps))
      /\ Done = Len(steps) - Len(todo)
  BY DEF FieldsInv, HandlerInv, Done
<1>3. Len(todo) > 0
  BY <1>1
<1>4. Done < Len(steps) /\ Done \in Nat
  BY <1>1, <1>2, <1>3
<1>5. /\ Head(todo) = steps[Done + 1] /\ steps[Done + 1] \in Set
      /\ Tail(todo) \in Seq(Set) /\ Len(Tail(todo)) = Len(steps) - (Done + 1)
      /\ Tail(todo) = SubSeq(steps, Done + 2, Len(steps))
  BY <1>1, <1>2, <1>4, Suffix
<1>6. QED
  BY <1>1, <1>4, <1>5

(* What a handler may be about to write. *)
LEMMA WriteCases ==
    ASSUME FieldsInv, errors = 0, pc = "write", todo # <<>>
    PROVE  \/ \E v \in Vote : Head(todo) = SetVote(v) /\ file.vote \in {NoVote, v}
           \/ \E t \in Term : /\ Head(todo) = SetTerm(t) /\ t >= file.term
                              /\ promise # None => t > promise.term
           \/ /\ Head(todo)[1] = "vote" /\ images = {file}
              /\ promise # None => file.term > promise.term
<1> DEFINE t == answer.term
           v == answer.vote
<1>1. answer # None
  BY DEF FieldsInv, TypeOK
<1>2. /\ base \in Fields /\ file \in Fields /\ t \in Term /\ v \in Vote
      /\ Done \in 0 .. Len(steps) /\ steps \in Seq(Set)
      /\ Stage(base, t, v, steps, Done)
  BY <1>1, Within
<1>3. Done < Len(steps) /\ Head(todo) = steps[Done + 1]
  BY <1>1, NextSet
<1>4. file = After(base, SubSeq(steps, 1, Done))
  BY <1>1 DEF FieldsInv, DiskInv, SetsDone
<1>5. promise # None => /\ promise.term <= base.term /\ steps # become_follower(base.term)
                        /\ promise.term \in Int
  BY <1>1 DEF FieldsInv, HandlerKnown, TypeOK, Term
<1>6. base.term \in Int /\ t \in Int /\ file.term \in Int
  BY <1>2 DEF Fields, Term
<1> HIDE DEF t, v
<1>7. CASE Done = 0
  <2>1. file = base
    BY <1>2, <1>4, <1>7 DEF Stage
  <2>2. \/ steps[1] = SetVote(v) /\ base.vote \in {NoVote, v}
        \/ steps[1] = SetTerm(t) /\ (t > base.term \/ (t = base.term /\ steps = become_follower(base.term)))
    BY <1>2, <1>3, <1>7 DEF Stage
  <2>3. steps[1] = Head(todo)
    BY <1>3, <1>7
  <2>4. CASE steps[1] = SetVote(v) /\ base.vote \in {NoVote, v}
    BY <1>2, <2>1, <2>3, <2>4
  <2>5. CASE steps[1] = SetTerm(t) /\ (t > base.term \/ (t = base.term /\ steps = become_follower(base.term)))
    <3>1. t >= file.term /\ (promise # None => t > promise.term)
      BY <1>5, <1>6, <2>1, <2>5
    <3>2. QED
      BY <1>2, <2>3, <2>5, <3>1
  <2>6. QED
    BY <2>2, <2>4, <2>5
<1>8. CASE Done # 0
  <2>1. 0 < Done
    BY <1>2, <1>8
  <2>2. file.term = t /\ steps[Done + 1][1] = "vote" /\ (t > base.term \/ steps = become_follower(base.term))
    BY <1>2, <1>3, <1>4, <2>1 DEF Stage
  <2>3. images = {file}
    BY <2>1 DEF FieldsInv, DiskInv
  <2>4. promise # None => file.term > promise.term
    BY <1>5, <1>6, <2>2
  <2>5. QED
    BY <1>3, <2>2, <2>3, <2>4
<1>9. QED
  BY <1>7, <1>8


LEMMA WriteInv == ASSUME FieldsInv, Write PROVE FieldsInv'
<1> DEFINE w == Head(todo)
<1>1. pc = "write" /\ todo # <<>> /\ answer # None
  BY DEF FieldsInv, TypeOK, Write
<1>2. /\ answer' = answer /\ base' = base /\ steps' = steps /\ candidate' = candidate
      /\ promise' = promise /\ told' = told /\ todo' = Tail(todo)
  BY DEF Write, outside
<1>3. /\ base \in Fields /\ file \in Fields /\ steps \in Seq(Set)
      /\ Done \in 0 .. Len(steps)
  BY <1>1, Within
<1>4. /\ Done < Len(steps) /\ w = steps[Done + 1] /\ w \in Set
      /\ Tail(todo) \in Seq(Set)
      /\ Tail(todo) = SubSeq(steps, Done + 2, Len(steps))
      /\ Len(steps) - Len(Tail(todo)) = Done + 1
  BY <1>1, NextSet
<1>5. Done' = Done + 1 /\ Done' \in 0 .. Len(steps) /\ todo' = SubSeq(steps, Done' + 1, Len(steps))
  <2>1. Done' = Done + 1
    BY <1>2, <1>4 DEF Done
  <2>2. Done + 1 \in 0 .. Len(steps) /\ (Done + 1) + 1 = Done + 2
    BY <1>3, <1>4
  <2>3. QED
    BY <1>2, <1>4, <2>1, <2>2
<1> HIDE DEF w
<1>6. HandlerKnown'
  <2>1. errors' = 0 => errors = 0
    BY DEF Write, Fail, faults, FieldsInv, TypeOK
  <2>2. QED
    BY <1>2, <2>1 DEF FieldsInv, HandlerKnown
<1>7. base # None /\ file # Short /\ candidate \in BOOLEAN /\ killed \in BOOLEAN
  BY <1>1 DEF FieldsInv, HandlerInv, TypeOK
<1>8. CASE Fail /\ UNCHANGED <<disk, pc>>
  <2>1. /\ errors' \in 0 .. MaxErrors /\ errors' # 0 /\ killed' = killed
        /\ file' = file /\ images' = images /\ pc' = pc
    BY <1>8, BoundAssumption DEF Fail, disk, FieldsInv, TypeOK
  <2>2. TypeOK'
    BY <1>2, <2>1 DEF FieldsInv, TypeOK
  <2>3. HandlerInv'
    BY <1>1, <1>2, <1>3, <1>4, <1>5, <1>7, <2>1 DEF HandlerInv
  <2>4. DiskInv' /\ VoteKept' /\ VoteSeen' /\ TermKept'
    BY <2>1 DEF DiskInv, VoteKept, VoteSeen, TermKept
  <2>5. QED
    BY <1>6, <2>2, <2>3, <2>4 DEF FieldsInv
<1>9. CASE /\ file' = Written(file, w)
           /\ images' = images \cup {Written(Found(img), w) : img \in images}
           /\ pc' = "fsync" /\ UNCHANGED faults
  <2>1. \A img \in images : Found(img) \in Fields /\ (img # Short => Found(img) = img)
    BY FoundFields DEF FieldsInv, TypeOK
  <2>2. \A img \in images : Written(Found(img), w) \in Fields
    BY <1>4, <2>1, WrittenFields
  <2>3. file' \in Fields /\ Found(file) = file /\ file \in images
    BY <1>3, <1>4, <1>7, <1>9, WrittenFields DEF Found, FieldsInv, TypeOK
  <2>4. errors' = errors /\ killed' = killed
    BY <1>9 DEF faults
  <2>5. TypeOK'
    <3>1. images' \subseteq Fields \cup {Short}
      BY <1>9, <2>2 DEF FieldsInv, TypeOK
    <3>2. file' \in images'
      BY <1>9, <2>3
    <3>3. QED
      BY <1>2, <1>7, <1>9, <2>3, <2>4, <3>1, <3>2 DEF FieldsInv, TypeOK
  <2>6. HandlerInv'
    <3>1. file' # Short
      BY <2>3, NotFields
    <3>2. Done' > 0
      BY <1>3, <1>5
    <3>3. QED
      BY <1>1, <1>2, <1>3, <1>4, <1>5, <1>7, <1>9, <3>1, <3>2 DEF HandlerInv
  <2>7. CASE errors # 0
    BY <1>6, <2>4, <2>5, <2>6, <2>7 DEF FieldsInv, DiskInv, VoteKept, VoteSeen, TermKept
  <2>8. CASE errors = 0
    <3>1. DiskInv'
      <4>1. file = After(base, SubSeq(steps, 1, Done))
        BY <1>1, <2>8 DEF FieldsInv, DiskInv, SetsDone
      <4>2. After(base, SubSeq(steps, 1, Done + 1)) = Written(file, w)
        BY <1>3, <1>4, <4>1, AfterNext
      <4>3. file' = SetsDone'
        BY <1>2, <1>5, <1>9, <4>2 DEF SetsDone
      <4>4. ASSUME ~ killed PROVE images' \subseteq {file, file'}
        <5>1. images = {file}
          BY <1>1, <2>8, <4>4 DEF FieldsInv, DiskInv
        <5>2. QED
          BY <1>9, <2>3, <5>1
      <4>5. After(base', SubSeq(steps', 1, Done' - 1)) = file
        <5>1. Done' - 1 = Done
          BY <1>3, <1>5
        <5>2. QED
          BY <1>2, <4>1, <5>1
      <4>6. QED
        BY <1>9, <2>4, <4>3, <4>4, <4>5 DEF DiskInv
    <3>2. ASSUME promise # None
          PROVE  /\ promise.term \in Int /\ promise.vote # NoVote /\ promise \in Fields
                 /\ Short \notin images
                 /\ \A img \in images : img \in Fields /\ img.term \in Int
                                        /\ (img.term > promise.term \/ img = promise)
                 /\ promise \in images => file.vote = promise.vote
      <4>1. promise.term \in Int /\ promise.vote # NoVote /\ promise \in Fields
        BY <3>2, PeerAssumption DEF FieldsInv, TypeOK, Term, Fields, Vote
      <4>2. Short \notin images
        BY <2>8, <3>2, PromiseNeedsFile
      <4>3. \A img \in images : img \in Fields /\ Found(img) = img
        BY <2>1, <4>2
      <4>4. \A img \in images : img.term \in Int
        BY <4>3 DEF Fields, Term
      <4>5. QED
        BY <2>8, <3>2, <4>1, <4>2, <4>3, <4>4 DEF FieldsInv, VoteKept, VoteSeen
    <3>3. ASSUME promise # None
          PROVE  /\ \A img \in images' : img.term > promise.term \/ img = promise
                 /\ promise \in images' => file'.vote = promise.vote
      <4>1. \A img \in images : Found(img) = img
        BY <2>1, <3>2, <3>3
      <4>2. images' = images \cup {Written(img, w) : img \in images}
        BY <1>9, <4>1
      <4>3. CASE \E v \in Vote : w = SetVote(v) /\ file.vote \in {NoVote, v}
        <5>1. PICK v \in Vote : w = SetVote(v) /\ file.vote \in {NoVote, v}
          BY <4>3
        <5>2. w[1] = "vote" /\ w[2] = v
          BY <5>1, Sets
        <5>3. promise \in images => v = promise.vote
          BY <3>2, <3>3, <5>1
        <5>4. \A img \in images : /\ Written(img, w) \in Fields /\ Written(img, w).term = img.term
                                  /\ Written(img, w).vote = v
          BY <1>4, <3>2, <3>3, <5>2, WrittenVote, WrittenFields
        <5>5. promise \in images => Written(promise, w) = promise
          BY <3>2, <3>3, <5>3, <5>4, FieldsEqual
        <5>6. \A img \in images' : img.term > promise.term \/ img = promise
          BY <3>2, <3>3, <4>2, <5>4, <5>5
        <5>7. promise \in images' => promise \in images
          <6>1. ASSUME NEW img \in images, promise = Written(img, w) PROVE promise \in images
            <7>1. promise.term = img.term
              BY <5>4, <6>1
            <7>2. QED
              BY <3>2, <3>3, <7>1
          <6>2. QED
            BY <4>2, <6>1
        <5>8. file'.vote = v
          BY <1>9, <2>3, <5>4
        <5>9. QED
          BY <5>3, <5>6, <5>7, <5>8
      <4>4. CASE \E t \in Term : w = SetTerm(t) /\ t >= file.term /\ (promise # None => t > promise.term)
        <5>1. PICK t \in Term : w = SetTerm(t) /\ t > promise.term
          BY <3>3, <4>4
        <5>2. w[1] = "term" /\ w[2] = t /\ w[1] # "vote"
          BY <5>1, Sets
        <5>3. \A img \in images : Written(img, w).term = t /\ Written(img, w).vote = img.vote
          BY <1>4, <3>2, <3>3, <5>2, WrittenFields
        <5>4. t \in Int
          BY DEF Term
        <5>5. \A img \in images' : img.term > promise.term \/ img = promise
          BY <3>2, <3>3, <4>2, <5>1, <5>3
        <5>6. promise \in images' => promise \in images
          BY <3>2, <3>3, <4>2, <5>1, <5>3, <5>4
        <5>7. file'.vote = file.vote
          BY <1>9, <2>3, <5>3
        <5>8. QED
          BY <3>2, <3>3, <5>5, <5>6, <5>7
      <4>5. CASE w[1] = "vote" /\ images = {file} /\ (promise # None => file.term > promise.term)
        <5>1. images' = {file, Written(file, w)}
          BY <4>2, <4>5
        <5>2. Written(file, w).term = file.term
          BY <1>3, <1>4, <4>5, WrittenVote
        <5>3. file.term > promise.term /\ file.term \in Int
          BY <2>3, <3>2, <3>3, <4>5
        <5>4. \A img \in images' : img.term > promise.term
          BY <5>1, <5>2, <5>3
        <5>5. promise \notin images'
          BY <3>2, <3>3, <5>4
        <5>6. QED
          BY <5>4, <5>5
      <4>6. QED
        BY <1>1, <2>8, <4>3, <4>4, <4>5, WriteCases DEF w
    <3>4. VoteKept'
      <4>1. \A img \in images' : promise # None => img # Short
        BY <1>9, <2>2, <3>2, NotFields
      <4>2. \A img \in images' : promise # None => Found(img) = img
        BY <4>1 DEF Found
      <4>3. QED
        BY <1>2, <3>3, <4>2 DEF VoteKept
    <3>5. VoteSeen'
      BY <1>2, <3>3 DEF VoteSeen
    <3>6. TermKept'
      <4>1. SUFFICES ASSUME ~ killed PROVE \A img \in images' : Found(img).term >= told
        BY <1>2, <2>4 DEF TermKept
      <4>2. images = {file} /\ images' = {file, file'}
        <5>1. images = {file}
          BY <1>1, <2>8, <4>1 DEF FieldsInv, DiskInv
        <5>2. QED
          BY <1>9, <2>3, <5>1
      <4>3. file.term >= told /\ told \in Int /\ file.term \in Int
        BY <1>3, <2>3, <2>8, <4>1 DEF FieldsInv, TermKept, TypeOK, Fields, Term
      <4>4. Found(file') = file'
        BY <2>3, NotFields DEF Found
      <4>5. file'.term \in Int /\ file'.term >= file.term
        <5>1. CASE w[1] = "vote"
          BY <1>3, <1>4, <1>9, <4>3, <5>1, WrittenVote
        <5>2. CASE \E t \in Term : w = SetTerm(t) /\ t >= file.term
          <6>1. PICK t \in Term : w = SetTerm(t) /\ t >= file.term
            BY <5>2
          <6>2. w[1] = "term" /\ w[2] = t /\ t \in Int
            BY <6>1, Sets DEF Term
          <6>3. QED
            BY <1>3, <1>4, <1>9, <6>1, <6>2, WrittenFields
        <5>3. QED
          BY <1>1, <2>8, <5>1, <5>2, WriteCases, Sets DEF w
      <4>6. QED
        BY <2>3, <4>2, <4>3, <4>4, <4>5
    <3>7. QED
      BY <1>6, <2>5, <2>6, <3>1, <3>4, <3>5, <3>6 DEF FieldsInv
  <2>9. QED
    BY <2>7, <2>8
<1>10. QED
  BY <1>8, <1>9 DEF Write, w


LEMMA FsyncInv == ASSUME FieldsInv, Fsync PROVE FieldsInv'
<1>1. /\ pc = "fsync" /\ file' = file /\ todo' = todo /\ answer' = answer /\ base' = base
      /\ steps' = steps /\ candidate' = candidate /\ promise' = promise /\ told' = told
      /\ pc' = IF answer = None THEN "idle" ELSE "write"
  BY DEF Fsync, handler, outside
<1>2. file \in images /\ file # Short /\ file \in Fields
  BY <1>1 DEF FieldsInv, TypeOK, HandlerInv
<1>3. /\ Done' = Done /\ (answer # None => SetsDone' = SetsDone)
  BY <1>1 DEF Done, SetsDone
<1>4. HandlerInv'
  BY <1>1, <1>2, <1>3 DEF FieldsInv, HandlerInv
<1>5. CASE Fail /\ UNCHANGED images
  <2>1. errors' \in 0 .. MaxErrors /\ errors' # 0 /\ killed' = killed /\ images' = images
    BY <1>5, BoundAssumption DEF Fail, FieldsInv, TypeOK
  <2>2. TypeOK'
    BY <1>1, <1>2, <2>1 DEF FieldsInv, TypeOK
  <2>3. HandlerKnown' /\ DiskInv' /\ VoteKept' /\ VoteSeen' /\ TermKept'
    BY <1>1, <2>1 DEF FieldsInv, HandlerKnown, DiskInv, VoteKept, VoteSeen, TermKept
  <2>4. QED
    BY <1>4, <2>2, <2>3 DEF FieldsInv
<1>6. CASE images' = {file} /\ UNCHANGED faults
  <2>1. errors' = errors /\ killed' = killed
    BY <1>6 DEF faults
  <2>2. TypeOK'
    BY <1>1, <1>2, <1>6, <2>1 DEF FieldsInv, TypeOK
  <2>3. HandlerKnown'
    BY <1>1, <2>1 DEF FieldsInv, HandlerKnown
  <2>4. DiskInv'
    BY <1>1, <1>3, <1>6, <2>1 DEF FieldsInv, DiskInv
  <2>5. VoteKept' /\ VoteSeen' /\ TermKept'
    BY <1>1, <1>2, <1>6, <2>1 DEF FieldsInv, VoteKept, VoteSeen, TermKept
  <2>6. QED
    BY <1>4, <2>2, <2>3, <2>4, <2>5 DEF FieldsInv
<1>7. QED
  BY <1>5, <1>6 DEF Fsync

-----------------------------------------------------------------------------
(* The answer *)

LEMMA IdleInv ==
    ASSUME FieldsInv, Idle
    PROVE  /\ answer' = None /\ base' = None /\ steps' = <<>> /\ todo' = <<>> /\ Done' = 0
           /\ (pc' # "fsync" => HandlerInv')
           /\ HandlerKnown'
<1>1. answer' = None /\ base' = None /\ steps' = <<>> /\ todo' = <<>> /\ Done' = 0
  BY DEF Idle, Done
<1>2. QED
  BY <1>1 DEF HandlerInv, HandlerKnown

LEMMA SendInv == ASSUME FieldsInv, Send PROVE FieldsInv'
<1>1. /\ pc = "write" /\ todo = <<>> /\ pc' = "idle" /\ answer # None
      /\ file' = file /\ images' = images /\ candidate' = candidate
      /\ errors' = errors /\ killed' = killed /\ Idle
  BY DEF FieldsInv, TypeOK, Send, disk, faults
<1>2. /\ answer' = None /\ base' = None /\ HandlerInv' /\ HandlerKnown'
  BY <1>1, IdleInv
<1>3. Done = Len(steps)
  BY <1>1 DEF FieldsInv, HandlerInv, Done
<1>4. /\ file \in Fields /\ answer \in Fields /\ answer.term \in Term /\ answer.vote \in Vote
      /\ Stage(base, answer.term, answer.vote, steps, Done)
  BY <1>1, Within
<1>5. errors = 0 => /\ file.term = answer.term
                    /\ answer.vote # NoVote => file = answer /\ images = {file}
  <2>1. SUFFICES ASSUME errors = 0 
                 PROVE  /\ file.term = answer.term
                        /\ answer.vote # NoVote => file = answer /\ images = {file}
    OBVIOUS
  <2>2. file = After(base, SubSeq(steps, 1, Done))
    BY <1>1, <2>1 DEF FieldsInv, DiskInv, SetsDone
  <2>3. file.term = answer.term
    BY <1>3, <1>4, <2>2 DEF Stage
  <2>4. ASSUME answer.vote # NoVote PROVE Done > 0 /\ file = answer
    BY <1>3, <1>4, <2>2, <2>4, FieldsEqual DEF Stage
  <2>5. QED
    BY <1>1, <2>1, <2>3, <2>4 DEF FieldsInv, DiskInv
<1>6. promise' \in {promise, answer} /\ (promise' # promise => answer.vote # NoVote /\ promise' = answer)
  BY DEF Send
<1>7. told' \in Term /\ (told' = told \/ told' = answer.term)
  BY <1>4 DEF Send, FieldsInv, TypeOK
<1>8. TypeOK'
  <2>1. answer.vote # NoVote => answer \in [term : Term, vote : Peer \cup {Self}]
    BY <1>4 DEF Fields, Vote
  <2>2. QED
    BY <1>1, <1>2, <1>4, <1>6, <1>7, <2>1 DEF FieldsInv, TypeOK
<1>9. DiskInv'
  BY <1>1, <1>2 DEF FieldsInv, DiskInv
<1>10. VoteKept' /\ VoteSeen'
  <2>1. CASE promise' = promise
    BY <1>1, <2>1 DEF FieldsInv, VoteKept, VoteSeen
  <2>2. CASE answer.vote # NoVote /\ promise' = answer
    <3>1. errors = 0 => images' = {promise'} /\ file' = promise'
      BY <1>1, <1>5, <2>2
    <3>2. Found(answer) = answer
      BY <1>4, NotFields DEF Found
    <3>3. QED
      BY <1>1, <2>2, <3>1, <3>2 DEF VoteKept, VoteSeen
  <2>3. QED
    BY <1>6, <2>1, <2>2
<1>11. TermKept'
  <2>1. SUFFICES ASSUME errors = 0, ~ killed PROVE \A img \in images : Found(img).term >= told'
    BY <1>1 DEF TermKept
  <2>2. images = {file}
    BY <1>1, <2>1 DEF FieldsInv, DiskInv
  <2>3. Found(file) = file
    BY <1>4, NotFields DEF Found
  <2>4. file.term >= told /\ file.term = answer.term /\ file.term \in Int
    BY <1>4, <1>5, <2>1, <2>2, <2>3 DEF FieldsInv, TermKept, Term
  <2>5. QED
    BY <1>7, <2>2, <2>3, <2>4
<1>12. QED
  BY <1>2, <1>8, <1>9, <1>10, <1>11 DEF FieldsInv

-----------------------------------------------------------------------------
(* Restarts *)

LEMMA KilledInv == ASSUME FieldsInv, Killed PROVE FieldsInv'
<1>1. /\ Idle /\ pc' = "open" /\ candidate' = FALSE /\ promise' = promise /\ told' = told
      /\ errors' = errors /\ killed' = (killed \/ pc # "idle") /\ file' = file /\ images' = images
  BY DEF Killed, Restart, outside, disk
<1>2. /\ answer' = None /\ base' = None /\ HandlerInv' /\ HandlerKnown'
  BY <1>1, IdleInv
<1>3. killed' \in BOOLEAN /\ candidate' \in BOOLEAN /\ (~ killed' => ~ killed /\ pc = "idle")
  BY <1>1, Zenon
<1>4. TypeOK'
  BY <1>1, <1>2, <1>3 DEF FieldsInv, TypeOK
<1>5. DiskInv' /\ VoteKept' /\ VoteSeen' /\ TermKept'
  BY <1>1, <1>2, <1>3 DEF FieldsInv, DiskInv, VoteKept, VoteSeen, TermKept
<1>6. QED
  BY <1>2, <1>4, <1>5 DEF FieldsInv

LEMMA PowerFailureInv == ASSUME FieldsInv, PowerFailure PROVE FieldsInv'
<1>1. PICK img \in images : file' = img /\ images' = {img}
  BY DEF PowerFailure
<1>2. /\ Idle /\ pc' = "open" /\ candidate' = FALSE /\ promise' = promise /\ told' = told
      /\ errors' = errors /\ killed' = killed
  BY DEF PowerFailure, Restart, outside
<1>3. /\ answer' = None /\ base' = None /\ HandlerInv' /\ HandlerKnown'
  BY <1>2, IdleInv
<1>4. TypeOK'
  <2>1. candidate' \in BOOLEAN
    BY <1>2
  <2>2. QED
    BY <1>1, <1>2, <1>3, <2>1 DEF FieldsInv, TypeOK
<1>5. DiskInv' /\ TermKept'
  BY <1>1, <1>2, <1>3 DEF FieldsInv, DiskInv, TermKept
<1>6. VoteKept' /\ VoteSeen'
  BY <1>1, <1>2 DEF FieldsInv, VoteKept, VoteSeen
<1>7. QED
  BY <1>3, <1>4, <1>5, <1>6 DEF FieldsInv

-----------------------------------------------------------------------------
(* The results *)

LEMMA StutterInv == ASSUME FieldsInv, UNCHANGED vars PROVE FieldsInv'
<1>1. /\ file' = file /\ images' = images /\ pc' = pc /\ todo' = todo /\ answer' = answer
      /\ candidate' = candidate /\ base' = base /\ steps' = steps /\ promise' = promise
      /\ told' = told /\ errors' = errors /\ killed' = killed
  BY DEF vars, disk, handler, outside, faults
<1>2. Done' = Done /\ SetsDone' = SetsDone
  BY <1>1 DEF Done, SetsDone
<1>3. TypeOK' /\ HandlerInv' /\ HandlerKnown'
  BY <1>1, <1>2 DEF FieldsInv, TypeOK, HandlerInv, HandlerKnown
<1>4. DiskInv' /\ VoteKept' /\ VoteSeen' /\ TermKept'
  BY <1>1, <1>2 DEF FieldsInv, DiskInv, VoteKept, VoteSeen, TermKept
<1>5. QED
  BY <1>3, <1>4 DEF FieldsInv

(* Every system call, handler, kill and power failure keeps the relation   *)
(* between the handler's sets, the file and what is durable.               *)
THEOREM FieldsInvariant == Spec => []FieldsInv
<1>1. FieldsInv /\ [Next]_vars => FieldsInv'
  BY OpenInv, WriteInv, FsyncInv, SendInv, HandlersInv, KilledInv, PowerFailureInv, StutterInv
     DEF Next
<1>2. QED
  BY InitInv, <1>1, PTL DEF Spec

(* Every variable of persistent-fields.c keeps its type, and the process    *)
(* reads one of the contents that may be found.                            *)
THEOREM FieldsTyped == Spec => []TypeOK
<1>1. FieldsInv => TypeOK
  BY DEF FieldsInv
<1>2. QED
  BY FieldsInvariant, <1>1, PTL

LEMMA InOrder == FieldsInv => WritesInOrder
<1> SUFFICES ASSUME FieldsInv, errors = 0, ~ killed, base # None, NEW img \in images
             PROVE  \E n \in 0 .. Len(steps) : Found(img) = After(base, SubSeq(steps, 1, n))
  BY DEF WritesInOrder
<1>1. answer # None
  BY DEF FieldsInv, HandlerInv
<1>2. base \in Fields /\ file \in Fields /\ steps \in Seq(Set) /\ Done \in 0 .. Len(steps)
  BY <1>1, Within
<1>3. file = After(base, SubSeq(steps, 1, Done))
  BY <1>1 DEF FieldsInv, DiskInv, SetsDone
<1>4. CASE img = file
  <2>1. Found(img) = file
    BY <1>2, <1>4, NotFields DEF Found
  <2>2. QED
    BY <1>2, <1>3, <2>1
<1>5. CASE img # file
  <2>1. pc = "fsync" /\ img = After(base, SubSeq(steps, 1, Done - 1))
    BY <1>1, <1>5 DEF FieldsInv, DiskInv
  <2>2. Done - 1 \in 0 .. Len(steps)
    BY <1>1, <1>2, <2>1 DEF FieldsInv, HandlerInv
  <2>3. img \in Fields
    BY <1>2, <2>1, <2>2, AfterNext
  <2>4. Found(img) = img
    BY <2>3, NotFields DEF Found
  <2>5. QED
    BY <2>1, <2>2, <2>4
<1>6. QED
  BY <1>4, <1>5

(* A power failure at any moment leaves the first few of the sets that      *)
(* become_follower, start_election or a granted ballot were to make, in     *)
(* their order.                                                             *)
THEOREM SetsReachDiskInOrder == Spec => []WritesInOrder
BY FieldsInvariant, InOrder, PTL

(* A vote that others know of survives every crash until the node has a     *)
(* newer term or has met this term's leader.                                *)
THEOREM VotesAreKept == Spec => []VoteKept
<1>1. FieldsInv => VoteKept
  BY DEF FieldsInv
<1>2. QED
  BY FieldsInvariant, <1>1, PTL

(* A term that others were told is found after every crash, if no process   *)
(* was killed within a handler.                                             *)
THEOREM TermsAreKept == Spec => []TermKept
<1>1. FieldsInv => TermKept
  BY DEF FieldsInv
<1>2. QED
  BY FieldsInvariant, <1>1, PTL
=============================================================================
