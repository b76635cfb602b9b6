----------------------- MODULE FailureDetectorProofs -----------------------
(***************************************************************************)
(* The ring of heartbeat intervals, for every window, threshold, timer     *)
(* setting and bound on the silence.                                       *)
(*                                                                         *)
(* TypeOK and RingIsRecent together are inductive.  A step resets the      *)
(* ring, records an interval in it, lets it age or leaves it alone; Ring   *)
(* says of a telemetry record and a history that they belong together, and *)
(* each of the four keeps it.                                              *)
(***************************************************************************)
EXTENDS FailureDetector, TLAPS

Telemetry ==
    [intervals : [Slots -> 0 .. MaxSilence], index : Slots, num : 0 .. Window,
     last : Never .. MaxSilence]

(* The record t belongs to the history of silence q and intervals s. *)
Ring(t, q, s) ==
    /\ t \in Telemetry /\ q \in Never .. MaxSilence
    /\ s \in Seq(0 .. MaxSilence) /\ Len(s) <= Window
    /\ t.last = q /\ t.num = Len(s)
    /\ t.num < Window => t.index = t.num
    /\ \A j \in DOMAIN s :
          LET place == Place(t.index, t.num, j)
          IN  place \in 0 .. t.num - 1 /\ t.intervals[place] = s[j]

(* What the other variables are. *)
Clocks ==
    /\ role \in {"FOLLOWER", "CANDIDATE", "LEADER"} /\ running \in BOOLEAN
    /\ elapsed \in 0 .. duration /\ duration \in Nat
    /\ heartbeat_count \in Nat /\ peers \in BOOLEAN

LEMMA InvParts == (TypeOK /\ RingIsRecent) <=> (Clocks /\ Ring(telemetry, quiet, seen))
BY DEF TypeOK, RingIsRecent, Clocks, Ring, Telemetry

-----------------------------------------------------------------------------
(* The ring *)

LEMMA Sizes ==
    /\ Window \in Nat /\ Window > 0 /\ MaxSilence \in Nat
    /\ Never = -1 /\ 0 \in Never .. MaxSilence /\ Never \in Never .. MaxSilence
    /\ 0 \in Slots /\ Slots = 0 .. Window - 1
BY AccrualAssumption, SilenceAssumption DEF Never, Slots

(* heartbeat_telemetry_reset leaves the ring of a node that heard nothing, *)
(* whatever it held.                                                       *)
LEMMA ResetRing ==
    ASSUME NEW t
    PROVE  Ring(heartbeat_telemetry_reset(t), Never, <<>>)
<1> DEFINE r == heartbeat_telemetry_reset(t)
<1>1. r = [intervals |-> [x \in Slots |-> 0], index |-> 0, num |-> 0, last |-> Never]
  BY DEF heartbeat_telemetry_reset
<1>2. [x \in Slots |-> 0] \in [Slots -> 0 .. MaxSilence]
  BY Sizes
<1>3. r \in Telemetry
  BY <1>1, <1>2, Sizes DEF Telemetry
<1>4. <<>> \in Seq(0 .. MaxSilence) /\ Len(<<>>) = 0 /\ DOMAIN <<>> = {}
  OBVIOUS
<1> HIDE DEF r
<1>5. r.last = Never /\ r.num = 0 /\ r.index = 0
  BY <1>1
<1>6. Ring(r, Never, <<>>)
  BY <1>3, <1>4, <1>5, Sizes DEF Ring
<1>7. QED
  BY <1>6 DEF r

(* Time passing changes only the silence. *)
LEMMA AgeRing ==
    ASSUME NEW t, NEW q, NEW s, Ring(t, q, s)
    PROVE  Ring([t EXCEPT !.last = Age(@)], Age(q), s)
<1> DEFINE r == [t EXCEPT !.last = Age(@)]
<1>1. t \in Telemetry /\ t.last = q /\ q \in Never .. MaxSilence
  BY DEF Ring
<1>2. Age(q) \in Never .. MaxSilence
  BY <1>1, Sizes DEF Age
<1>3. /\ r \in Telemetry /\ r.last = Age(q) /\ r.num = t.num /\ r.index = t.index
      /\ r.intervals = t.intervals
  BY <1>1, <1>2 DEF Telemetry
<1> HIDE DEF r
<1>4. Ring(r, Age(q), s)
  BY <1>2, <1>3 DEF Ring
<1>5. QED
  BY <1>4 DEF r

LEMMA Wrap ==
    ASSUME NEW k \in Slots
    PROVE  (k + 1) % Window = IF k + 1 = Window THEN 0 ELSE k + 1
<1>1. CASE k + 1 = Window
  BY <1>1, Sizes
<1>2. CASE k + 1 # Window
  <2>1. k + 1 \in 0 .. Window - 1
    BY <1>2, Sizes
  <2>2. QED
    BY <1>2, <2>1, Sizes
<1>3. QED
  BY <1>1, <1>2


(* The history after a heartbeat. *)
Heard(q, s) ==
    IF q = Never THEN s
    ELSE IF Len(Append(s, q)) > Window THEN Tail(Append(s, q)) ELSE Append(s, q)

(* The first heartbeat since a reset only starts the clock. *)
LEMMA FirstRecord ==
    ASSUME NEW t, NEW s, Ring(t, Never, s)
    PROVE  Ring(heartbeat_telemetry_record_interval(t), 0, s)
<1> DEFINE r == [t EXCEPT !.last = 0]
<1>1. t \in Telemetry /\ t.last = Never
  BY DEF Ring
<1>2. /\ r \in Telemetry /\ r.last = 0 /\ r.num = t.num /\ r.index = t.index
      /\ r.intervals = t.intervals
  BY <1>1, Sizes DEF Telemetry
<1> HIDE DEF r
<1>3. Ring(r, 0, s)
  BY <1>2, Sizes DEF Ring
<1>4. QED
  BY <1>1, <1>3 DEF r, heartbeat_telemetry_record_interval

(* Where the intervals are before and after the ring took one more.        *)
(* While it fills, the new one goes to the end and the others stay.        *)
LEMMA PlaceFilling ==
    ASSUME NEW n \in Nat, n < Window, NEW j \in 1 .. n + 1
    PROVE  /\ Place((n + 1) % Window, n + 1, j) = j - 1
           /\ j <= n => Place(n, n, j) = j - 1
<1>1. (n + 1) % Window = IF n + 1 = Window THEN 0 ELSE n + 1
  BY Wrap, Sizes
<1> DEFINE i == (n + 1) % Window
<1>2. i = IF n + 1 = Window THEN 0 ELSE n + 1
  BY <1>1
<1> HIDE DEF i
<1>3. Place(i, n + 1, j) = j - 1
  BY <1>2, Sizes DEF Place
<1>4. j <= n => Place(n, n, j) = j - 1
  BY Sizes DEF Place
<1>5. QED
  BY <1>3, <1>4 DEF i

(* Once it is full, the new one takes the slot of the oldest, and the      *)
(* others move up by one.                                                  *)
LEMMA PlaceFull ==
    ASSUME NEW k \in Slots, NEW j \in 1 .. Window
    PROVE  /\ Place((k + 1) % Window, Window, Window) = k
           /\ j < Window => /\ Place((k + 1) % Window, Window, j) = Place(k, Window, j + 1)
                            /\ Place(k, Window, j + 1) # k
                            /\ Place(k, Window, j + 1) \in Slots
<1> DEFINE i == (k + 1) % Window
<1>1. i = IF k + 1 = Window THEN 0 ELSE k + 1
  BY Wrap
<1> HIDE DEF i
<1>2. k \in Int /\ 0 <= k /\ k < Window /\ j \in Int /\ 1 <= j /\ j <= Window
  BY Sizes
<1>3. Place(i, Window, Window) = k
  BY <1>1, <1>2, Sizes DEF Place
<1>4. j < Window => Place(i, Window, j) = Place(k, Window, j + 1)
  BY <1>1, <1>2, Sizes DEF Place
<1>5. j < Window => Place(k, Window, j + 1) # k /\ Place(k, Window, j + 1) \in Slots
  BY <1>2, Sizes DEF Place
<1>6. QED
  BY <1>3, <1>4, <1>5 DEF i

(* A later heartbeat stores the interval since the one before. *)
LEMMA LaterRecord ==
    ASSUME NEW t, NEW q, NEW s, Ring(t, q, s), q # Never
    PROVE  Ring(heartbeat_telemetry_record_interval(t), 0, Heard(q, s))
<1> DEFINE n == t.num
           k == t.index
           f == [t.intervals EXCEPT ![k] = q]
           i == (k + 1) % Window
           m == IF n < Window THEN n + 1 ELSE n
           r == [intervals |-> f, index |-> i, num |-> m, last |-> 0]
           z == Heard(q, s)
<1>1. /\ t \in Telemetry /\ t.last = q /\ q \in 0 .. MaxSilence
      /\ s \in Seq(0 .. MaxSilence) /\ n = Len(s) /\ (n < Window => k = n)
  BY Sizes DEF Ring
<1>2. /\ n \in Nat /\ n <= Window /\ k \in Slots
      /\ t.intervals \in [Slots -> 0 .. MaxSilence]
  BY <1>1, Sizes DEF Telemetry
<1>3. ASSUME NEW j \in 1 .. n
      PROVE  Place(k, n, j) \in 0 .. n - 1 /\ t.intervals[Place(k, n, j)] = s[j]
  BY <1>1, <1>3 DEF Ring
<1>4. /\ f \in [Slots -> 0 .. MaxSilence] /\ f[k] = q
      /\ \A x \in Slots : x # k => f[x] = t.intervals[x]
  BY <1>1, <1>2
<1>5. i \in Slots /\ i = IF k + 1 = Window THEN 0 ELSE k + 1
  <2>1. i = IF k + 1 = Window THEN 0 ELSE k + 1
    BY <1>2, Wrap
  <2> HIDE DEF i
  <2>2. QED
    BY <1>2, <2>1, Sizes
<1>6. heartbeat_telemetry_record_interval(t) = r
  BY <1>1 DEF heartbeat_telemetry_record_interval
<1>7. r \in Telemetry /\ m \in 1 .. Window
  <2>1. m \in 0 .. Window /\ m \in 1 .. Window
    BY <1>2, Sizes
  <2> HIDE DEF f, i, m
  <2>2. QED
    BY <1>4, <1>5, <2>1, Sizes DEF Telemetry
<1>8. CASE n < Window
  <2>1. z = Append(s, q) /\ k = n /\ m = n + 1
    BY <1>1, <1>2, <1>8, Sizes DEF Heard
  <2>2. z \in Seq(0 .. MaxSilence) /\ Len(z) = m /\ \A j \in 1 .. n : z[j] = s[j]
    BY <1>1, <2>1
  <2>3. z[n + 1] = q
    BY <1>1, <2>1
  <2>4. m < Window => i = m
    <3> HIDE DEF i, m
    <3>1. QED
      BY <1>2, <1>5, <2>1
  <2>5. ASSUME NEW j \in 1 .. m
        PROVE  Place(i, m, j) \in 0 .. m - 1 /\ f[Place(i, m, j)] = z[j]
    <3>1. Place(i, m, j) = j - 1 /\ (j <= n => Place(n, n, j) = j - 1)
      BY <1>2, <1>8, <2>1, PlaceFilling
    <3>2. CASE j = n + 1
      <4>1. j - 1 = k
        BY <1>2, <2>1, <3>2
      <4>2. k \in 0 .. m - 1
        BY <1>2, <2>1
      <4> HIDE DEF f, i, m, z
      <4>3. QED
        BY <1>4, <2>1, <2>3, <3>1, <3>2, <4>1, <4>2
    <3>3. CASE j <= n
      <4>1. j \in 1 .. n /\ j - 1 \in Slots /\ j - 1 # k
        BY <1>2, <1>8, <2>1, <3>3, Sizes
      <4>2. f[j - 1] = t.intervals[j - 1]
        BY <1>4, <4>1
      <4>3. t.intervals[j - 1] = s[j]
        BY <1>3, <2>1, <3>1, <3>3, <4>1
      <4>4. QED
        BY <1>2, <2>1, <2>2, <3>1, <4>1, <4>2, <4>3
    <3>4. j = n + 1 \/ j <= n
      BY <1>2, <2>1
    <3>5. QED
      BY <3>2, <3>3, <3>4
  <2> HIDE DEF f, i, m, z
  <2>6. r.intervals = f /\ r.index = i /\ r.num = m /\ r.last = 0
    OBVIOUS
  <2> HIDE DEF r
  <2>7. DOMAIN z = 1 .. m /\ Len(z) <= Window
    BY <1>7, <2>2
  <2>8. Ring(r, 0, z)
    BY <1>7, <2>2, <2>4, <2>5, <2>6, <2>7, Sizes DEF Ring
  <2>9. QED
    BY <1>6, <2>8 DEF z
<1>9. CASE n = Window
  <2> DEFINE all == Append(s, q)
  <2>0. /\ all \in Seq(0 .. MaxSilence) /\ Len(all) = Window + 1 /\ all[Window + 1] = q
        /\ \A j \in 1 .. Window : all[j] = s[j]
    <3>1. Len(s) = Window
      BY <1>1, <1>9
    <3>2. /\ all \in Seq(0 .. MaxSilence) /\ Len(all) = Len(s) + 1 /\ all[Len(s) + 1] = q
          /\ \A j \in 1 .. Len(s) : all[j] = s[j]
      BY <1>1
    <3> HIDE DEF all
    <3>3. QED
      BY <3>1, <3>2
  <2>1. z = Tail(all) /\ m = Window
    <3>1. m = Window
      BY <1>9, Sizes
    <3>2. z = IF Len(all) > Window THEN Tail(all) ELSE all
      BY DEF Heard
    <3> HIDE DEF all, z, m
    <3>3. Len(all) > Window
      BY <2>0, Sizes
    <3>4. QED
      BY <3>1, <3>2, <3>3
  <2> HIDE DEF all
  <2>2. /\ z \in Seq(0 .. MaxSilence) /\ Len(z) = Window
        /\ \A j \in 1 .. Window : z[j] = all[j + 1]
    <3>1. all # <<>>
      BY <2>0, Sizes
    <3>2. /\ Tail(all) \in Seq(0 .. MaxSilence) /\ Len(Tail(all)) = Len(all) - 1
          /\ \A j \in 1 .. Len(all) - 1 : Tail(all)[j] = all[j + 1]
      BY <2>0, <3>1
    <3>3. Len(all) - 1 = Window
      BY <2>0, Sizes
    <3>4. QED
      BY <2>1, <3>2, <3>3
  <2> HIDE DEF z
  <2>3. z[Window] = q /\ \A j \in 1 .. Window : j < Window => z[j] = s[j + 1]
    <3>1. Window \in 1 .. Window
      BY Sizes
    <3>2. z[Window] = q
      BY <2>0, <2>2, <3>1
    <3>3. \A j \in 1 .. Window : j < Window => j + 1 \in 1 .. Window
      BY Sizes
    <3>4. QED
      BY <2>0, <2>2, <3>2, <3>3
  <2>4. ASSUME NEW j \in 1 .. Window
        PROVE  Place(i, Window, j) \in 0 .. Window - 1 /\ f[Place(i, Window, j)] = z[j]
    <3>1. CASE j = Window
      <4>1. Place(i, Window, j) = k
        BY <1>2, <3>1, PlaceFull
      <4>2. QED
        BY <1>2, <1>4, <2>3, <3>1, <4>1, Sizes
    <3>2. CASE j < Window
      <4>1. /\ Place(i, Window, j) = Place(k, Window, j + 1) /\ Place(k, Window, j + 1) # k
            /\ Place(k, Window, j + 1) \in Slots
        BY <1>2, <3>2, PlaceFull
      <4>2. t.intervals[Place(k, Window, j + 1)] = s[j + 1]
        BY <1>3, <1>9, <3>2, Sizes
      <4>3. f[Place(k, Window, j + 1)] = s[j + 1]
        BY <1>4, <4>1, <4>2
      <4>4. QED
        BY <2>3, <3>2, <4>1, <4>3, Sizes
    <3>3. j = Window \/ j < Window
      BY Sizes
    <3>4. QED
      BY <3>1, <3>2, <3>3
  <2> HIDE DEF f, i, m, z
  <2>5. r.intervals = f /\ r.index = i /\ r.num = Window /\ r.last = 0
    BY <2>1
  <2> HIDE DEF r
  <2>6. DOMAIN z = 1 .. Window /\ ~ (Window < Window)
    BY <2>2, Sizes
  <2>7. Ring(r, 0, z)
    BY <1>7, <2>2, <2>4, <2>5, <2>6, Sizes DEF Ring
  <2>8. QED
    BY <1>6, <2>7 DEF z
<1>10. QED
  BY <1>2, <1>8, <1>9, Sizes

(* A heartbeat, the first or a later one. *)
LEMMA RecordRing ==
    ASSUME NEW t, NEW q, NEW s, Ring(t, q, s)
    PROVE  Ring(heartbeat_telemetry_record_interval(t), 0, Heard(q, s))
BY FirstRecord, LaterRecord DEF Heard


-----------------------------------------------------------------------------
(* The timers *)

LEMMA RandomTimeout ==
    ASSUME NEW min \in Nat, NEW max \in Nat
    PROVE  random_timeout_usec(min, max) \subseteq Nat
BY DEF random_timeout_usec

LEMMA Armed ==
    ASSUME NEW durations, durations \subseteq Nat, Arm(durations)
    PROVE  elapsed' \in 0 .. duration' /\ duration' \in Nat
BY DEF Arm

LEMMA Settings ==
    /\ timeout_lb_ms \in Nat /\ timeout_ub_ms \in Nat /\ HEARTBEAT_INTERVAL \in Nat
    /\ timeout_lb_ms * MS \in Nat /\ timeout_ub_ms * MS \in Nat /\ ACCRUAL_INTERVAL_MS * MS \in Nat
    /\ HEARTBEAT_INTERVAL * 3 \in Nat /\ HEARTBEAT_INTERVAL * 5 \in Nat
<1>1. \A a, b \in Nat : a * b \in Nat
  OBVIOUS
<1>2. /\ timeout_lb_ms \in Nat /\ timeout_ub_ms \in Nat /\ HEARTBEAT_INTERVAL \in Nat
      /\ ACCRUAL_INTERVAL_MS \in Nat /\ MS \in Nat
  BY TimerAssumption
<1>3. QED
  BY <1>1, <1>2

LEMMA FaultDetectTimer ==
    ASSUME NEW t, set_fault_detect_timer(t)
    PROVE  elapsed' \in 0 .. duration' /\ duration' \in Nat
<1>1. random_timeout_usec(timeout_lb_ms * MS, timeout_ub_ms * MS) \subseteq Nat
  BY Settings, RandomTimeout
<1>2. {ACCRUAL_INTERVAL_MS * MS} \subseteq Nat
  BY Settings
<1>3. QED
  BY <1>1, <1>2, Armed DEF set_fault_detect_timer

LEMMA ElectionTimer ==
    ASSUME set_election_timer
    PROVE  elapsed' \in 0 .. duration' /\ duration' \in Nat
<1>1. random_timeout_usec(HEARTBEAT_INTERVAL * 3, HEARTBEAT_INTERVAL * 5) \subseteq Nat
  BY Settings, RandomTimeout
<1>2. QED
  BY <1>1, Armed DEF set_election_timer

LEMMA HeartbeatTimer ==
    ASSUME set_heartbeat_timer
    PROVE  elapsed' \in 0 .. duration' /\ duration' \in Nat
<1>1. {HEARTBEAT_INTERVAL} \subseteq Nat
  BY Settings
<1>2. QED
  BY <1>1, Armed DEF set_heartbeat_timer

LEMMA FirstTimerType == FirstTimer \subseteq Nat
BY Settings, RandomTimeout DEF FirstTimer

-----------------------------------------------------------------------------
(* The steps *)

RingInv == Clocks /\ Ring(telemetry, quiet, seen)

LEMMA InitRing ==
    ASSUME Init
    PROVE  RingInv
<1>1. telemetry = heartbeat_telemetry_reset(telemetry)
  BY DEF Init, heartbeat_telemetry_reset
<1>2. Ring(telemetry, quiet, seen)
  BY <1>1, ResetRing DEF Init
<1>3. Clocks
  BY FirstTimerType DEF Init, Clocks
<1>4. QED
  BY <1>2, <1>3 DEF RingInv

(* A step that forgets the leader. *)
LEMMA ForgetRing ==
    ASSUME telemetry' = heartbeat_telemetry_reset(telemetry), Forget
    PROVE  Ring(telemetry', quiet', seen')
BY ResetRing DEF Forget

LEMMA HearRing ==
    ASSUME NEW t, NEW q, NEW s, Ring(t, q, s), Hear(q, s),
           telemetry' = heartbeat_telemetry_record_interval(t)
    PROVE  Ring(telemetry', quiet', seen')
<1>1. quiet' = 0 /\ seen' = Heard(q, s)
  BY DEF Hear, Heard
<1>2. QED
  BY <1>1, RecordRing

LEMMA AppendEntriesRing ==
    ASSUME RingInv, NEW newer \in BOOLEAN, NEW empty \in BOOLEAN,
           handle_append_entries_request(newer, empty)
    PROVE  RingInv'
<1> DEFINE stepDown == newer \/ role = "CANDIDATE"
           t0 == IF stepDown THEN heartbeat_telemetry_reset(telemetry) ELSE telemetry
           t1 == IF empty THEN heartbeat_telemetry_record_interval(t0) ELSE t0
<1>1. /\ telemetry' = t1 /\ set_fault_detect_timer(t1) /\ role' = "FOLLOWER"
      /\ IF empty THEN IF stepDown THEN Hear(Never, <<>>) ELSE Hear(quiet, seen)
         ELSE IF stepDown THEN Forget ELSE UNCHANGED <<quiet, seen>>
      /\ UNCHANGED <<running, heartbeat_count, peers>>
  BY DEF handle_append_entries_request
<1>2. Ring(telemetry, quiet, seen) /\ Ring(heartbeat_telemetry_reset(telemetry), Never, <<>>)
  BY ResetRing DEF RingInv
<1>3. Ring(telemetry', quiet', seen')
  <2>1. CASE empty /\ stepDown
    <3>1. Hear(Never, <<>>) /\ t0 = heartbeat_telemetry_reset(telemetry)
          /\ telemetry' = heartbeat_telemetry_record_interval(t0)
      BY <1>1, <2>1
    <3>2. QED
      BY <1>2, <3>1, HearRing
  <2>2. CASE empty /\ ~ stepDown
    <3>1. Hear(quiet, seen) /\ telemetry' = heartbeat_telemetry_record_interval(telemetry)
      BY <1>1, <2>2
    <3>2. QED
      BY <1>2, <3>1, HearRing
  <2>3. CASE ~ empty /\ stepDown
    <3>1. Forget /\ telemetry' = heartbeat_telemetry_reset(telemetry)
      BY <1>1, <2>3
    <3>2. QED
      BY <3>1, ForgetRing
  <2>4. CASE ~ empty /\ ~ stepDown
    BY <1>1, <1>2, <2>4
  <2>5. QED
    BY <2>1, <2>2, <2>3, <2>4
<1>4. elapsed' \in 0 .. duration' /\ duration' \in Nat
  <2> HIDE DEF t1
  <2>1. QED
    BY <1>1, FaultDetectTimer
<1>5. Clocks'
  BY <1>1, <1>4 DEF RingInv, Clocks
<1>6. QED
  BY <1>3, <1>5 DEF RingInv

LEMMA FollowerRing ==
    ASSUME RingInv, NEW granted \in BOOLEAN, become_follower(granted)
    PROVE  RingInv'
<1> DEFINE t == heartbeat_telemetry_reset(telemetry)
<1>1. /\ role' = "FOLLOWER" /\ telemetry' = t /\ Forget
      /\ set_election_timer \/ set_fault_detect_timer(t)
      /\ UNCHANGED <<running, heartbeat_count, peers>>
  BY DEF become_follower
<1>2. Ring(telemetry', quiet', seen')
  BY <1>1, ForgetRing
<1> HIDE DEF t
<1>3. elapsed' \in 0 .. duration' /\ duration' \in Nat
  BY <1>1, ElectionTimer, FaultDetectTimer
<1>4. Clocks'
  BY <1>1, <1>3 DEF RingInv, Clocks
<1>5. QED
  BY <1>2, <1>4 DEF RingInv

LEMMA GrantRing ==
    ASSUME RingInv, GrantInTerm
    PROVE  RingInv'
<1>1. elapsed' \in 0 .. duration' /\ duration' \in Nat
  BY ElectionTimer DEF GrantInTerm
<1>2. UNCHANGED <<role, running, telemetry, heartbeat_count, peers, quiet, seen>>
  BY DEF GrantInTerm, history
<1>3. QED
  BY <1>1, <1>2 DEF RingInv, Clocks

LEMMA LeaderRing ==
    ASSUME RingInv, become_leader
    PROVE  RingInv'
<1>1. Ring(telemetry', quiet', seen')
  BY ForgetRing DEF become_leader
<1>2. elapsed' \in 0 .. duration' /\ duration' \in Nat
  BY HeartbeatTimer DEF become_leader
<1>3. Clocks'
  BY <1>2 DEF RingInv, Clocks, become_leader
<1>4. QED
  BY <1>1, <1>3 DEF RingInv

LEMMA TimeoutRing ==
    ASSUME RingInv, raft_handle_timeout
    PROVE  RingInv'
<1>1. UNCHANGED peers
  BY DEF raft_handle_timeout
<1>2. CASE become_candidate
  <2>1. Ring(telemetry', quiet', seen')
    BY <1>2, ForgetRing DEF become_candidate
  <2>2. elapsed' \in 0 .. duration' /\ duration' \in Nat
    BY <1>2, ElectionTimer DEF become_candidate
  <2>3. Clocks'
    BY <1>1, <1>2, <2>2 DEF RingInv, Clocks, become_candidate
  <2>4. QED
    BY <2>1, <2>3 DEF RingInv
<1>3. CASE SampleAgain \/ RetryElection
  <2>1. elapsed' \in 0 .. duration' /\ duration' \in Nat
    BY <1>3, ElectionTimer, FaultDetectTimer DEF SampleAgain, RetryElection
  <2>2. UNCHANGED <<role, running, telemetry, heartbeat_count, quiet, seen>>
    BY <1>3 DEF SampleAgain, RetryElection, history
  <2>3. QED
    BY <1>1, <2>1, <2>2 DEF RingInv, Clocks
<1>4. CASE HeartbeatTimeout
  <2>1. elapsed' \in 0 .. duration' /\ duration' \in Nat
    BY <1>4, HeartbeatTimer DEF HeartbeatTimeout
  <2>2. UNCHANGED <<role, telemetry, quiet, seen>>
    BY <1>4 DEF HeartbeatTimeout, history
  <2>3. heartbeat_count' \in Nat
    BY <1>4 DEF RingInv, Clocks, HeartbeatTimeout
  <2>4. running' \in BOOLEAN
    BY <1>4, Zenon DEF HeartbeatTimeout
  <2>5. Clocks'
    BY <1>1, <2>1, <2>2, <2>3, <2>4 DEF RingInv, Clocks
  <2>6. QED
    BY <2>2, <2>5 DEF RingInv
<1>5. QED
  BY <1>2, <1>3, <1>4 DEF raft_handle_timeout

LEMMA RestartRing ==
    ASSUME RingInv, Restart
    PROVE  RingInv'
<1>1. Ring(telemetry', quiet', seen')
  BY ForgetRing DEF Restart
<1>2. elapsed' \in 0 .. duration' /\ duration' \in Nat
  BY FirstTimerType, Armed DEF Restart
<1>3. Clocks'
  BY <1>2 DEF RingInv, Clocks, Restart
<1>4. QED
  BY <1>1, <1>3 DEF RingInv

LEMMA TickRing ==
    ASSUME RingInv, Tick
    PROVE  RingInv'
<1>1. Ring(telemetry', quiet', seen')
  BY AgeRing DEF RingInv, Tick
<1>2. Clocks'
  BY DEF RingInv, Clocks, Tick
<1>3. QED
  BY <1>1, <1>2 DEF RingInv

LEMMA NextRing ==
    ASSUME RingInv, [Next]_vars
    PROVE  RingInv'
<1>1. CASE UNCHANGED vars \/ PeersSilent
  BY <1>1 DEF vars, history, PeersSilent, RingInv, Clocks
<1>2. CASE Next
  BY <1>1, <1>2, TickRing, AppendEntriesRing, FollowerRing, GrantRing, LeaderRing, TimeoutRing,
     RestartRing DEF Next
<1>3. QED
  BY <1>1, <1>2

-----------------------------------------------------------------------------
(* Results *)

(* Every variable keeps its type, for every window, timer setting and      *)
(* bound: the position heartbeat_telemetry_record_interval writes to stays *)
(* within the ring, and the count within its size.                         *)
THEOREM DetectorTyped == Spec => []TypeOK
<1>1. RingInv => TypeOK
  BY InvParts DEF RingInv
<1>2. QED
  BY <1>1, InitRing, NextRing, PTL DEF Spec

(* The slots that compute_mean_interval adds up hold exactly the latest    *)
(* intervals of the current leader's heartbeats, for every window, through *)
(* all changes of role, restarts and wraps of the ring.                    *)
THEOREM RingHoldsRecent == Spec => []RingIsRecent
<1>1. RingInv => RingIsRecent
  BY InvParts DEF RingInv
<1>2. QED
  BY <1>1, InitRing, NextRing, PTL DEF Spec
=============================================================================
