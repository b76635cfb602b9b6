---------------------------- MODULE ClientProofs ----------------------------
(***************************************************************************)
(* For any number of nodes and of requests under way: a sequence number is *)
(* appended at most once, and a reported success was committed.            *)
(***************************************************************************)
EXTENDS Client, NaturalsInduction, WellFoundedInduction, TLAPS

-----------------------------------------------------------------------------
(* Sequence numbers *)

LEMMA FreeSeqno ==
    ASSUME NEW T \in SUBSET Seqno, T # {}
    PROVE  Min(T) \in T
<1>1. IsWellFoundedOn(OpToRel(<, Nat), Nat)
  BY NatLessThanWellFounded
<1>2. T \in SUBSET Nat
  BY NodeAssumption DEF Seqno
<1>3. PICK x \in T : \A y \in T : ~ (<<y, x>> \in OpToRel(<, Nat))
  BY <1>1, <1>2, WFMin
<1>4. \A a, b \in Nat : a < b => <<a, b>> \in OpToRel(<, Nat)
  BY Zenon DEF OpToRel
<1>5. \A y \in T : ~ (y < x)
  BY <1>2, <1>3, <1>4, Zenon
<1>6. \A y \in T : x =< y
  BY <1>2, <1>5
<1>7. (CHOOSE m \in T : \A y \in T : m =< y) \in T
  BY <1>6
<1>8. QED
  BY <1>7 DEF Min

LEMMA NextSeqnoFree ==
    ASSUME ClientInv, pc = "send"
    PROVE  NextSeqno \in Seqno /\ NextSeqno \notin Underway
<1>1. CASE program = "client" /\ attempts > 0
  BY <1>1 DEF ClientInv, TypeOK, OneNumber, NextSeqno
<1>2. CASE ~ (program = "client" /\ attempts > 0)
  <2>1. attempts = 0
    BY <1>2 DEF ClientInv, TypeOK, OneNumber
  <2>2. Seqno \ Underway # {}
    BY <2>1 DEF ClientInv, TypeOK
  <2>3. Min(Seqno \ Underway) \in Seqno \ Underway
    BY <2>2, FreeSeqno
  <2>4. QED
    BY <1>2, <2>3 DEF NextSeqno
<1>3. QED
  BY <1>1, <1>2

-----------------------------------------------------------------------------
(* Places *)

LEMMA UniqueSubset ==
    ASSUME NEW S, NEW T \in SUBSET S, Unique(S)
    PROVE  Unique(T) /\ Seqnos(T) \subseteq Seqnos(S)
BY DEF Unique, Seqnos

LEMMA UniqueAdd ==
    ASSUME NEW S, NEW x, Unique(S), x.seq \notin Seqnos(S)
    PROVE  Unique(S \cup {x}) /\ Seqnos(S \cup {x}) = Seqnos(S) \cup {x.seq}
BY DEF Unique, Seqnos

LEMMA UniqueRemove ==
    ASSUME NEW S, NEW x \in S, Unique(S)
    PROVE  /\ Unique(S \ {x}) /\ x.seq \in Seqnos(S)
           /\ Seqnos(S \ {x}) = Seqnos(S) \ {x.seq}
BY DEF Unique, Seqnos

LEMMA UnderwayTyped == ASSUME TypeOK PROVE Underway \subseteq Seqno
<1>1. /\ Seqnos(requests) \subseteq Seqno
      /\ Seqnos(outstanding) \subseteq Seqno
      /\ Seqnos(answers) \subseteq Seqno
  BY DEF TypeOK, Seqnos, Answer
<1>2. Seqnos(Answerable) \subseteq Seqnos(outstanding)
  BY DEF Seqnos, Answerable
<1>3. QED
  BY <1>1, <1>2 DEF Underway

LEMMA InitInv == Init => ClientInv
<1> SUFFICES ASSUME Init PROVE ClientInv
  OBVIOUS
<1>1. Underway = {} /\ Answerable = {}
  BY DEF Init, Underway, Answerable, Seqnos
<1>2. 1 \in Seqno
  BY NodeAssumption DEF Seqno
<1>3. TypeOK
  <2>1. stable \in BOOLEAN
    BY DEF Init
  <2>2. leader_id \in [Node -> Hint] /\ leader \in Hint
    BY DEF Init, Hint
  <2>3. Seqno \ Underway # {}
    BY <1>1, <1>2
  <2>4. QED
    BY <1>2, <2>1, <2>2, <2>3 DEF Init, TypeOK
<1>4. appended \in [Seqno -> Nat] /\ AppendedOnce
  BY DEF Init, AppendedOnce
<1>5. OnePlace /\ AnswersTrue
  BY <1>1 DEF Init, OnePlace, AnswersTrue, Unique, Seqnos
<1>6. OneNumber
  BY <1>1 DEF Init, OneNumber
<1>7. SuccessIsCommitted
  BY DEF Init, SuccessIsCommitted, NoRow
<1>8. QED
  BY <1>3, <1>4, <1>5, <1>6, <1>7 DEF ClientInv

-----------------------------------------------------------------------------
(* The client *)

LEMMA ClientSendInv == ASSUME ClientInv, ClientSend PROVE ClientInv'
<1> DEFINE s == NextSeqno
           q == [seq |-> s, dst |-> target]
<1>1. s \in Seqno /\ s \notin Underway
  BY NextSeqnoFree DEF ClientSend
<1>2. /\ pc = "send" /\ pc' = "wait" /\ seqno' = s /\ requests' = requests \cup {q}
      /\ row' = NoRow /\ program' = program /\ target' = target /\ attempts' = attempts
      /\ leader' = leader /\ leader_id' = leader_id /\ outstanding' = outstanding /\ stable' = stable
      /\ answers' = answers /\ arrived' = arrived
  BY DEF ClientSend, cluster
<1>3. /\ \A x \in Seqno : appended'[x] = appended[x] \/ (x = s /\ appended'[x] = 0)
      /\ appended'[s] = 0 /\ appended' \in [Seqno -> Nat]
      /\ \A x \in committed : x \in committed' \/ x = s
  <2>1. CASE s # seqno \/ attempts = 0
    BY <1>1, <2>1 DEF ClientSend, ClientInv
  <2>2. CASE ~ (s # seqno \/ attempts = 0)
    <3>1. appended' = appended /\ committed' = committed
      BY <2>2 DEF ClientSend, history
    <3>2. program = "client" /\ attempts > 0 /\ s = seqno
      BY <2>2 DEF ClientInv, OneNumber, TypeOK
    <3>3. appended[s] = 0
      BY <1>2, <3>2 DEF ClientInv, OneNumber
    <3>4. QED
      BY <3>1, <3>3 DEF ClientInv
  <2>3. QED
    BY <2>1, <2>2
<1>4. q.seq = s /\ q \in [seq : Seqno, dst : Node]
  BY <1>1 DEF ClientInv, TypeOK
<1> HIDE DEF s, q
<1>5. Answerable' = Answerable
  BY <1>2 DEF Answerable
<1>6. s \notin Seqnos(requests) /\ s \notin Seqnos(Answerable) /\ s \notin Seqnos(answers)
  BY <1>1 DEF Underway
<1>7. Unique(requests') /\ Seqnos(requests') = Seqnos(requests) \cup {s}
  BY <1>2, <1>4, <1>6, UniqueAdd DEF ClientInv, OnePlace
<1>8. TypeOK'
  BY <1>1, <1>2, <1>4 DEF ClientInv, TypeOK
<1>9. AppendedOnce'
  BY <1>3 DEF ClientInv, AppendedOnce
<1>10. OnePlace'
  BY <1>2, <1>5, <1>6, <1>7 DEF ClientInv, OnePlace
<1>11. AnswersTrue'
  <2>1. \A x \in requests' : appended'[x.seq] = 0
    <3>1. \A x \in requests : x.seq \in Seqno /\ appended[x.seq] = 0
      BY DEF ClientInv, TypeOK, AnswersTrue
    <3>2. QED
      BY <1>2, <1>3, <1>4, <3>1
  <2>2. \A a \in answers : a.seq \in Seqno /\ a.seq # s
    BY <1>6 DEF ClientInv, TypeOK, Answer, Seqnos
  <2>3. \A a \in answers' : IF a.success THEN a.seq \in committed' ELSE appended'[a.seq] = 0
    BY <1>2, <1>3, <2>2 DEF ClientInv, AnswersTrue
  <2>4. QED
    BY <2>1, <2>3 DEF AnswersTrue
<1>12. OneNumber'
  <2>1. program = "client" => Underway = {}
    BY <1>2 DEF ClientInv, OneNumber
  <2>2. program = "client" => Underway' = {s}
    BY <1>2, <1>5, <1>7, <2>1 DEF Underway
  <2>3. QED
    BY <1>2, <2>2 DEF ClientInv, OneNumber
<1>13. SuccessIsCommitted'
  BY <1>2 DEF SuccessIsCommitted, NoRow
<1>14. QED
  BY <1>3, <1>8, <1>9, <1>10, <1>11, <1>12, <1>13 DEF ClientInv


(* A step that takes nothing new under way and keeps the history. *)
LEMMA Shrink ==
    ASSUME ClientInv, requests' \subseteq requests, Answerable' \subseteq Answerable,
           answers' \subseteq answers, UNCHANGED history
    PROVE  /\ OnePlace' /\ AnswersTrue' /\ Underway' \subseteq Underway
           /\ appended' = appended /\ committed' = committed
           /\ appended' \in [Seqno -> Nat] /\ AppendedOnce'
<1>1. appended' = appended /\ committed' = committed
  BY DEF history
<1>2. /\ Unique(requests') /\ Seqnos(requests') \subseteq Seqnos(requests)
      /\ Unique(Answerable') /\ Seqnos(Answerable') \subseteq Seqnos(Answerable)
      /\ Unique(answers') /\ Seqnos(answers') \subseteq Seqnos(answers)
  BY UniqueSubset DEF ClientInv, OnePlace
<1>3. OnePlace'
  BY <1>2 DEF ClientInv, OnePlace
<1>4. AnswersTrue'
  BY <1>1 DEF ClientInv, AnswersTrue
<1>5. Underway' \subseteq Underway
  BY <1>2 DEF Underway
<1>6. QED
  BY <1>1, <1>3, <1>4, <1>5 DEF ClientInv, AppendedOnce

LEMMA SendFailureInv == ASSUME ClientInv, SendFailure PROVE ClientInv'
<1>1. /\ pc = "send" /\ program' = program /\ seqno' = seqno /\ attempts' = attempts /\ row' = row
      /\ leader' = leader /\ leader_id' = leader_id /\ outstanding' = outstanding /\ stable' = stable
      /\ requests' = requests /\ answers' = answers /\ arrived' = arrived
      /\ UNCHANGED history
      /\ pc' \in {"send", "done"} /\ target' \in Node
  BY DEF SendFailure, cluster, messages, ClientInv, TypeOK
<1>2. Answerable' = Answerable
  BY <1>1 DEF Answerable
<1>3. /\ OnePlace' /\ AnswersTrue' /\ appended' = appended /\ committed' = committed
      /\ appended' \in [Seqno -> Nat] /\ AppendedOnce'
  BY <1>1, <1>2, Shrink
<1>4. Underway' = Underway
  BY <1>1, <1>2 DEF Underway
<1>5. TypeOK'
  BY <1>1, <1>4 DEF ClientInv, TypeOK
<1>6. OneNumber'
  BY <1>1, <1>3, <1>4 DEF ClientInv, OneNumber
<1>7. SuccessIsCommitted'
  BY <1>1, <1>3 DEF ClientInv, SuccessIsCommitted
<1>8. QED
  BY <1>3, <1>5, <1>6, <1>7 DEF ClientInv

LEMMA ClientTimeoutInv == ASSUME ClientInv, ClientTimeout PROVE ClientInv'
<1>1. /\ pc = "wait" /\ program' = program /\ seqno' = seqno /\ attempts' = attempts
      /\ row' = [result |-> "TIMEOUT", of |-> 0]
      /\ leader' = leader /\ leader_id' = leader_id /\ outstanding' = outstanding /\ stable' = stable
      /\ requests' = requests /\ answers' = answers /\ arrived' = arrived
      /\ UNCHANGED history
      /\ pc' \in {"send", "done"} /\ target' \in Node /\ (program = "client" => pc' = "done")
      /\ Seqno \ Underway # {}
  BY DEF ClientTimeout, cluster, messages, ClientInv, TypeOK
<1>2. Answerable' = Answerable
  BY <1>1 DEF Answerable
<1>3. /\ OnePlace' /\ AnswersTrue' /\ appended' = appended /\ committed' = committed
      /\ appended' \in [Seqno -> Nat] /\ AppendedOnce'
  BY <1>1, <1>2, Shrink
<1>4. Underway' = Underway
  BY <1>1, <1>2 DEF Underway
<1>5. TypeOK'
  BY <1>1, <1>4 DEF ClientInv, TypeOK
<1>6. OneNumber'
  BY <1>1, <1>3, <1>4 DEF ClientInv, OneNumber
<1>7. SuccessIsCommitted'
  BY <1>1 DEF SuccessIsCommitted
<1>8. QED
  BY <1>3, <1>5, <1>6, <1>7 DEF ClientInv

LEMMA ClientReceiveInv ==
    ASSUME ClientInv, NEW a \in Answer, ClientReceive(a)
    PROVE  ClientInv'
<1>1. /\ pc = "wait" /\ a \in answers /\ answers' = answers \ {a} /\ arrived' = arrived \ {a.seq}
      /\ program' = program /\ seqno' = seqno /\ requests' = requests
      /\ leader' = leader /\ leader_id' = leader_id /\ outstanding' = outstanding /\ stable' = stable
      /\ UNCHANGED history
  BY DEF ClientReceive, cluster
<1>2. Answerable' = Answerable
  BY <1>1 DEF Answerable
<1>3. /\ OnePlace' /\ AnswersTrue' /\ appended' = appended /\ committed' = committed
      /\ appended' \in [Seqno -> Nat] /\ AppendedOnce' /\ Underway' \subseteq Underway
  BY <1>1, <1>2, Shrink
<1>4. a.seq \in Seqno /\ a.seq \in Underway /\ a.seq \notin Underway'
  <2>1. a.seq \in Seqnos(answers) /\ Seqnos(answers') = Seqnos(answers) \ {a.seq}
    BY <1>1, UniqueRemove DEF ClientInv, OnePlace
  <2>2. a.seq \notin Seqnos(requests) /\ a.seq \notin Seqnos(Answerable)
    BY <2>1 DEF ClientInv, OnePlace
  <2>3. QED
    BY <1>1, <1>2, <2>1, <2>2 DEF Underway, Answer
<1>5. /\ row' = [result |-> IF a.success THEN "OK" ELSE "NOT_LEADER", of |-> a.seq]
      /\ pc' \in {"send", "done"} /\ target' \in Node
      /\ program = "benchmark-client" => attempts' = attempts
      /\ attempts' \in {attempts, attempts + 1}
      /\ program = "client" /\ pc' = "send" => ~ a.success /\ attempts' = attempts + 1 /\ attempts' < 2
  <2>1. CASE BenchmarkRow(a)
    BY <2>1 DEF BenchmarkRow, AfterRedirect, ClientInv, TypeOK
  <2>2. CASE ClientAnswer(a)
    BY <2>2 DEF ClientAnswer, ClientInv, TypeOK, Answer, Hint
  <2>3. QED
    BY <2>1, <2>2 DEF ClientReceive
<1>6. attempts \in 0 .. 1 /\ attempts' \in 0 .. 2 /\ (program = "benchmark-client" => attempts' = 0)
  <2>1. attempts \in 0 .. 1
    BY <1>1 DEF ClientInv, TypeOK, OneNumber
  <2>2. QED
    BY <1>5, <2>1 DEF ClientInv, OneNumber
<1>7. program \in {"benchmark-client", "client"}
  BY DEF ClientInv, OneNumber
<1>8. TypeOK'
  <2>1. Seqno \ Underway' # {}
    BY <1>4
  <2>2. QED
    BY <1>1, <1>5, <1>6, <2>1 DEF ClientInv, TypeOK
<1>9. program = "client" => a.seq = seqno /\ Underway' = {}
  BY <1>3, <1>4 DEF ClientInv, OneNumber
<1>10. OneNumber'
  <2>1. pc' # "done" => attempts' < 2
    BY <1>5, <1>6, <1>7
  <2>2. program = "client" /\ pc' = "send" => appended[seqno] = 0
    BY <1>1, <1>5, <1>9 DEF ClientInv, AnswersTrue
  <2>3. QED
    BY <1>1, <1>3, <1>6, <1>7, <1>9, <2>1, <2>2 DEF OneNumber
<1>11. SuccessIsCommitted'
  BY <1>1, <1>3, <1>5, <1>9 DEF ClientInv, AnswersTrue, SuccessIsCommitted
<1>12. QED
  BY <1>3, <1>8, <1>10, <1>11 DEF ClientInv

-----------------------------------------------------------------------------
(* The cluster *)

(* A step of the cluster or the network that takes nothing new under way. *)
LEMMA ShrinkInv ==
    ASSUME ClientInv, requests' \subseteq requests, Answerable' \subseteq Answerable,
           answers' \subseteq answers, UNCHANGED <<process, history>>,
           leader' \in Hint, leader_id' \in [Node -> Hint], stable' \in BOOLEAN,
           outstanding' \subseteq outstanding, arrived' \subseteq Seqno
    PROVE  ClientInv'
<1>1. /\ program' = program /\ pc' = pc /\ seqno' = seqno /\ target' = target
      /\ attempts' = attempts /\ row' = row /\ UNCHANGED history
  BY DEF process
<1>2. /\ OnePlace' /\ AnswersTrue' /\ appended' = appended /\ committed' = committed
      /\ appended' \in [Seqno -> Nat] /\ AppendedOnce' /\ Underway' \subseteq Underway
  BY <1>1, Shrink
<1>3. TypeOK'
  <2>1. pc' = "send" /\ attempts' = 0 => Seqno \ Underway' # {}
    BY <1>1, <1>2 DEF ClientInv, TypeOK
  <2>2. QED
    BY <1>1, <2>1 DEF ClientInv, TypeOK
<1>4. OneNumber'
  BY <1>1, <1>2 DEF ClientInv, OneNumber
<1>5. SuccessIsCommitted'
  BY <1>1, <1>2 DEF ClientInv, SuccessIsCommitted
<1>6. QED
  BY <1>2, <1>3, <1>4, <1>5 DEF ClientInv

LEMMA EnvironmentInv ==
    ASSUME ClientInv,
           \/ \E n \in Node : Heartbeat(n) \/ Misled(n)
           \/ \E s \in Seqno : Arrive(s)
           \/ LeaderChange \/ Lose \/ Stabilise
           \/ UNCHANGED vars
    PROVE  ClientInv'
<1>1. /\ leader \in Hint /\ leader_id \in [Node -> Hint] /\ stable \in BOOLEAN
      /\ arrived \subseteq Seqno
  BY DEF ClientInv, TypeOK
<1>2. ASSUME NEW n \in Node, Heartbeat(n) \/ Misled(n) PROVE ClientInv'
  <2>1. leader_id' \in [Node -> Hint]
    BY <1>1, <1>2 DEF Heartbeat, Misled
  <2>2. /\ UNCHANGED <<process, history>> /\ leader' = leader /\ outstanding' = outstanding
        /\ stable' = stable /\ requests' = requests /\ answers' = answers /\ arrived' = arrived
    BY <1>2 DEF Heartbeat, Misled, messages
  <2>3. Answerable' = Answerable
    BY <2>2 DEF Answerable
  <2>4. QED
    BY <1>1, <2>1, <2>2, <2>3, ShrinkInv
<1>3. ASSUME NEW s \in Seqno, Arrive(s) PROVE ClientInv'
  <2>1. /\ UNCHANGED <<process, history>> /\ leader' = leader /\ outstanding' = outstanding
        /\ stable' = stable /\ requests' = requests /\ answers' = answers
        /\ arrived' \subseteq Seqno /\ leader_id' = leader_id
    BY <1>1, <1>3 DEF Arrive, cluster
  <2>2. Answerable' = Answerable
    BY <2>1 DEF Answerable
  <2>3. QED
    BY <1>1, <2>1, <2>2, ShrinkInv
<1>4. ASSUME LeaderChange PROVE ClientInv'
  <2>1. /\ UNCHANGED <<process, history>> /\ stable' = stable /\ ~ stable
        /\ requests' = requests /\ answers' = answers /\ arrived' = arrived
        /\ leader' \in Hint /\ outstanding' \subseteq outstanding
    BY <1>4 DEF LeaderChange, messages
  <2>2. leader_id' \in [Node -> Hint]
    BY <1>1, <1>4 DEF LeaderChange, Hint
  <2>3. Answerable' \subseteq Answerable
    BY <2>1 DEF Answerable
  <2>4. QED
    BY <1>1, <2>1, <2>2, <2>3, ShrinkInv
<1>5. ASSUME Lose PROVE ClientInv'
  <2>1. /\ UNCHANGED <<process, history>> /\ leader' = leader /\ leader_id' = leader_id
        /\ outstanding' = outstanding /\ stable' = stable
    BY <1>5 DEF Lose, cluster
  <2>2. requests' \subseteq requests /\ answers' \subseteq answers /\ arrived' \subseteq Seqno
    BY <1>1, <1>5 DEF Lose
  <2>3. Answerable' = Answerable
    BY <2>1 DEF Answerable
  <2>4. QED
    BY <1>1, <2>1, <2>2, <2>3, ShrinkInv
<1>6. ASSUME Stabilise PROVE ClientInv'
  <2>1. /\ UNCHANGED <<process, history>> /\ leader' = leader /\ leader_id' = leader_id
        /\ outstanding' = outstanding /\ requests' = requests /\ answers' = answers
        /\ arrived' = arrived /\ stable' = TRUE
    BY <1>6 DEF Stabilise, messages
  <2>2. stable' \in BOOLEAN
    BY <2>1
  <2>3. Answerable' \subseteq Answerable
    BY <2>1 DEF Answerable
  <2>4. QED
    BY <1>1, <2>1, <2>2, <2>3, ShrinkInv
<1>7. ASSUME UNCHANGED vars PROVE ClientInv'
  <2>1. /\ UNCHANGED <<process, history>> /\ leader' = leader /\ leader_id' = leader_id
        /\ outstanding' = outstanding /\ stable' = stable /\ requests' = requests
        /\ answers' = answers /\ arrived' = arrived
    BY <1>7 DEF vars, cluster, messages
  <2>2. Answerable' = Answerable
    BY <2>1 DEF Answerable
  <2>3. QED
    BY <1>1, <2>1, <2>2, ShrinkInv
<1>8. QED
  BY <1>2, <1>3, <1>4, <1>5, <1>6, <1>7


(* A number moves from one place to the next: x leaves one of the three     *)
(* sets and another record with its number enters one.                      *)
LEMMA Moved ==
    ASSUME ClientInv, Underway' = Underway, UNCHANGED process,
           leader' \in Hint, leader_id' \in [Node -> Hint], stable' \in BOOLEAN,
           requests' \subseteq [seq : Seqno, dst : Node], answers' \subseteq Answer,
           outstanding' \subseteq [seq : Seqno, at : Node], arrived' = arrived,
           committed \subseteq committed', Underway # {}
    PROVE  TypeOK' /\ OneNumber' /\ SuccessIsCommitted'
<1>1. /\ program' = program /\ pc' = pc /\ seqno' = seqno /\ target' = target
      /\ attempts' = attempts /\ row' = row
  BY DEF process
<1>2. TypeOK'
  BY <1>1 DEF ClientInv, TypeOK
<1>3. OneNumber'
  BY <1>1 DEF ClientInv, OneNumber
<1>4. SuccessIsCommitted'
  BY <1>1 DEF ClientInv, SuccessIsCommitted
<1>5. QED
  BY <1>2, <1>3, <1>4

LEMMA NodeReceiveInv ==
    ASSUME ClientInv, NEW n \in Node, NodeReceive(n)
    PROVE  ClientInv'
<1>1. PICK q \in requests : requests' = requests \ {q} /\ handle_proc_request(q)
  BY DEF NodeReceive
<1>2. /\ UNCHANGED process /\ leader' = leader /\ leader_id' = leader_id /\ stable' = stable
      /\ arrived' = arrived /\ committed' = committed
  BY DEF NodeReceive
<1>3. /\ q.seq \in Seqno /\ q.dst \in Node /\ leader \in Hint /\ leader_id \in [Node -> Hint]
      /\ leader_id[q.dst] \in Hint /\ stable \in BOOLEAN
      /\ requests' \subseteq [seq : Seqno, dst : Node] /\ answers \subseteq Answer
      /\ outstanding \subseteq [seq : Seqno, at : Node]
      /\ appended \in [Seqno -> Nat]
  BY <1>1 DEF ClientInv, TypeOK
<1>4. /\ Unique(requests') /\ Seqnos(requests') = Seqnos(requests) \ {q.seq}
      /\ q.seq \in Seqnos(requests)
  BY <1>1, UniqueRemove DEF ClientInv, OnePlace
<1>5. q.seq \notin Seqnos(Answerable) /\ q.seq \notin Seqnos(answers) /\ appended[q.seq] = 0
  BY <1>4 DEF ClientInv, OnePlace, AnswersTrue
<1>6. \A x \in requests' : x.seq \in Seqno /\ x.seq # q.seq /\ appended[x.seq] = 0
  BY <1>1, <1>3, <1>4 DEF Seqnos, ClientInv, AnswersTrue
<1>7. \A x \in answers : x.seq \in Seqno /\ x.seq # q.seq
  BY <1>3, <1>5 DEF Seqnos, Answer
<1>8. CASE q.dst = leader
  <2> DEFINE o == [seq |-> q.seq, at |-> q.dst]
  <2>1. /\ appended' = [appended EXCEPT ![q.seq] = @ + 1] /\ outstanding' = outstanding \cup {o}
        /\ answers' = answers
    BY <1>1, <1>8 DEF handle_proc_request
  <2>2. o.seq = q.seq /\ o.at = leader /\ o \in [seq : Seqno, at : Node]
    BY <1>3, <1>8
  <2> HIDE DEF o
  <2>3. Answerable' = Answerable \cup {o}
    BY <1>2, <2>1, <2>2 DEF Answerable
  <2>4. Unique(Answerable') /\ Seqnos(Answerable') = Seqnos(Answerable) \cup {q.seq}
    BY <1>5, <2>2, <2>3, UniqueAdd DEF ClientInv, OnePlace
  <2>5. Underway' = Underway /\ Underway # {}
    BY <1>4, <2>1, <2>4 DEF Underway
  <2>6. OnePlace'
    BY <1>4, <1>5, <2>1, <2>4 DEF ClientInv, OnePlace
  <2>7. /\ appended' \in [Seqno -> Nat] /\ appended'[q.seq] = 1
        /\ \A x \in Seqno : x # q.seq => appended'[x] = appended[x]
    BY <1>3, <1>5, <2>1
  <2>8. AnswersTrue'
    BY <1>2, <1>6, <1>7, <2>1, <2>7 DEF ClientInv, AnswersTrue
  <2>9. AppendedOnce'
    BY <2>7 DEF ClientInv, AppendedOnce
  <2>10. outstanding' \subseteq [seq : Seqno, at : Node]
    BY <1>3, <2>1, <2>2
  <2>11. TypeOK' /\ OneNumber' /\ SuccessIsCommitted'
    BY <1>2, <1>3, <2>1, <2>5, <2>10, Moved
  <2>12. QED
    BY <2>6, <2>7, <2>8, <2>9, <2>11 DEF ClientInv
<1>9. CASE q.dst # leader
  <2> DEFINE a == [seq |-> q.seq, success |-> FALSE, leader_hint |-> leader_id[q.dst]]
  <2>1. appended' = appended /\ outstanding' = outstanding /\ answers' = answers \cup {a}
    BY <1>1, <1>9 DEF handle_proc_request, Answered
  <2>2. a.seq = q.seq /\ ~ a.success /\ a \in Answer
    BY <1>3 DEF Answer
  <2> HIDE DEF a
  <2>3. Answerable' = Answerable
    BY <1>2, <2>1 DEF Answerable
  <2>4. Unique(answers') /\ Seqnos(answers') = Seqnos(answers) \cup {q.seq}
    BY <1>5, <2>1, <2>2, UniqueAdd DEF ClientInv, OnePlace
  <2>5. Underway' = Underway /\ Underway # {}
    BY <1>4, <2>3, <2>4 DEF Underway
  <2>6. OnePlace'
    BY <1>4, <1>5, <2>3, <2>4 DEF ClientInv, OnePlace
  <2>7. AnswersTrue'
    BY <1>2, <1>5, <1>6, <2>1, <2>2 DEF ClientInv, AnswersTrue
  <2>8. AppendedOnce' /\ appended' \in [Seqno -> Nat]
    BY <2>1 DEF ClientInv, AppendedOnce
  <2>9. answers' \subseteq Answer
    BY <1>3, <2>1, <2>2
  <2>10. TypeOK' /\ OneNumber' /\ SuccessIsCommitted'
    BY <1>2, <1>3, <2>1, <2>5, <2>9, Moved
  <2>11. QED
    BY <2>6, <2>7, <2>8, <2>10 DEF ClientInv
<1>10. QED
  BY <1>8, <1>9

LEMMA CommitStepInv ==
    ASSUME ClientInv, NEW s \in Seqno, Commit(s)
    PROVE  ClientInv'
<1> DEFINE o == [seq |-> s, at |-> leader]
           a == [seq |-> s, success |-> TRUE, leader_hint |-> leader]
<1>1. /\ o \in outstanding /\ outstanding' = outstanding \ {o} /\ committed' = committed \cup {s}
      /\ answers' = answers \cup {a}
      /\ UNCHANGED process /\ leader' = leader /\ leader_id' = leader_id /\ stable' = stable
      /\ requests' = requests /\ arrived' = arrived /\ appended' = appended
  BY DEF Commit, Answered
<1>2. /\ leader \in Hint /\ leader_id \in [Node -> Hint] /\ stable \in BOOLEAN
      /\ requests \subseteq [seq : Seqno, dst : Node] /\ answers \subseteq Answer
      /\ outstanding \subseteq [seq : Seqno, at : Node]
  BY DEF ClientInv, TypeOK
<1>3. o.seq = s /\ o.at = leader /\ a.seq = s /\ a.success /\ a \in Answer
  BY <1>2 DEF Answer
<1> HIDE DEF o, a
<1>4. o \in Answerable /\ Answerable' = Answerable \ {o}
  BY <1>1, <1>3 DEF Answerable
<1>5. /\ Unique(Answerable') /\ Seqnos(Answerable') = Seqnos(Answerable) \ {s}
      /\ s \in Seqnos(Answerable)
  <2>1. Unique(Answerable)
    BY DEF ClientInv, OnePlace
  <2>2. /\ Unique(Answerable \ {o}) /\ o.seq \in Seqnos(Answerable)
        /\ Seqnos(Answerable \ {o}) = Seqnos(Answerable) \ {o.seq}
    BY <1>4, <2>1, UniqueRemove, Zenon
  <2>3. QED
    BY <1>3, <1>4, <2>2
<1>6. s \notin Seqnos(requests) /\ s \notin Seqnos(answers)
  BY <1>5 DEF ClientInv, OnePlace
<1>7. Unique(answers') /\ Seqnos(answers') = Seqnos(answers) \cup {s}
  BY <1>1, <1>3, <1>6, UniqueAdd DEF ClientInv, OnePlace
<1>8. Underway' = Underway /\ Underway # {}
  BY <1>1, <1>5, <1>7 DEF Underway
<1>9. OnePlace'
  BY <1>1, <1>5, <1>6, <1>7 DEF ClientInv, OnePlace
<1>10. AnswersTrue'
  BY <1>1, <1>3 DEF ClientInv, AnswersTrue
<1>11. AppendedOnce' /\ appended' \in [Seqno -> Nat]
  BY <1>1 DEF ClientInv, AppendedOnce
<1>12. outstanding' \subseteq [seq : Seqno, at : Node] /\ answers' \subseteq Answer
       /\ committed \subseteq committed'
  BY <1>1, <1>2, <1>3
<1>13. TypeOK' /\ OneNumber' /\ SuccessIsCommitted'
  BY <1>1, <1>2, <1>8, <1>12, Moved
<1>14. QED
  BY <1>9, <1>10, <1>11, <1>13 DEF ClientInv

-----------------------------------------------------------------------------
(* The results *)

(* A number is in one place and its answer is true, through redirects,      *)
(* time-outs, late answers, changes of leadership and lost packets.         *)
THEOREM ClientInvariant == Spec => []ClientInv
<1>1. ClientInv /\ [Next]_vars => ClientInv'
  BY ClientSendInv, SendFailureInv, ClientTimeoutInv, ClientReceiveInv, NodeReceiveInv,
     CommitStepInv, EnvironmentInv DEF Next, ClientLoop
<1>2. QED
  BY InitInv, <1>1, PTL DEF Spec

(* Every variable keeps its type, and a client that starts a request finds  *)
(* a free sequence number.                                                  *)
THEOREM ClientTyped == Spec => []TypeOK
<1>1. ClientInv => TypeOK
  BY DEF ClientInv
<1>2. QED
  BY ClientInvariant, <1>1, PTL

(* No request is appended twice: handle_proc_request need not recognise one *)
(* that client sends again after a redirect.                                *)
THEOREM NeverAppendedTwice == Spec => []AppendedOnce
<1>1. ClientInv => AppendedOnce
  BY DEF ClientInv
<1>2. QED
  BY ClientInvariant, <1>1, PTL

(* A success that either program reports is that of a committed request,    *)
(* and for client of its own.                                               *)
THEOREM ReportedIsCommitted == Spec => []SuccessIsCommitted
<1>1. ClientInv => SuccessIsCommitted
  BY DEF ClientInv
<1>2. QED
  BY ClientInvariant, <1>1, PTL
=============================================================================
