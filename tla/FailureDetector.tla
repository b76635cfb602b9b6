-------------------------- MODULE FailureDetector --------------------------
(***************************************************************************)
(* When a node suspects its leader: the φ accrual detector (src/accrual.c) *)
(* and the node's only timer (src/raft-timer.h, the set_*_timer functions  *)
(* and raft_handle_timeout of src/raft.c, the first arming in node.c).     *)
(*                                                                         *)
(* One node is modelled, in discrete time; its peers are the environment.  *)
(* The code only ever uses differences of clock readings, so instants are  *)
(* kept as ages: elapsed is now - timer.start_usec, last is now -          *)
(* last_heartbeat_usec.  An expired timer is handled before the clock      *)
(* moves on, unless a packet comes first, as in raft_run.                  *)
(***************************************************************************)
EXTENDS Integers, Sequences, Functions

CONSTANTS
    Window,             \* accrual_window_size
    Ramp,               \* accrual_ramp_size
    PhiNum, PhiDen,     \* log10(e) / accrual_threshold as a fraction
    Scheme,             \* timeout_scheme
    timeout_lb_ms, timeout_ub_ms,
    ACCRUAL_INTERVAL_MS,
    MS,                 \* clock units per millisecond (1000 usec), scaled down
    HEARTBEAT_INTERVAL, \* HEARTBEAT_INTERVAL_USEC
    CrashAfter,         \* crash_after_h, negative for never
    MinGap, MaxGap,     \* bounds: silence between two heartbeats of live peers
    MaxSilence          \* bound: a longer silence is not told apart

ASSUME AccrualAssumption == Window \in Nat \ {0} /\ Ramp \in 1 .. Window
ASSUME PhiAssumption == PhiNum \in Nat \ {0} /\ PhiDen \in Nat \ {0}
ASSUME SilenceAssumption ==
    /\ MinGap \in Nat \ {0} /\ MaxGap \in Nat \ {0} /\ MaxSilence \in Nat
    /\ PhiNum * MaxSilence > PhiDen * MaxGap
ASSUME TimerAssumption ==
    /\ Scheme \in {"TS_TIMEOUT", "TS_ACCRUAL"}
    /\ {timeout_lb_ms, timeout_ub_ms, ACCRUAL_INTERVAL_MS, MS, HEARTBEAT_INTERVAL}
         \subseteq Nat \ {0}

VARIABLES
    role, running,
    elapsed, duration,      \* raft_timer_t
    telemetry,              \* heartbeat_telemetry_t
    heartbeat_count,
    peers,                  \* environment: some peer still sends
    quiet, seen             \* history: time since the last heartbeat counted, and the
                            \* last Window intervals, since the last change of role

history == <<quiet, seen>>
vars == <<role, running, elapsed, duration, telemetry, heartbeat_count, peers, history>>

Never == -1                 \* last_heartbeat_usec = 0

-----------------------------------------------------------------------------
(* accrual.c *)

Slots == 0 .. Window - 1

(* Mutants of heartbeat_telemetry_reset: the position in the ring, or the  *)
(* number of samples, is not reset.                                        *)
ResetKeepsIndex(t) ==
    [intervals |-> [s \in Slots |-> 0], index |-> t.index, num |-> 0, last |-> Never]
ResetKeepsNum(t) ==
    [intervals |-> [s \in Slots |-> 0], index |-> 0, num |-> t.num, last |-> Never]

heartbeat_telemetry_reset(t) ==
    [intervals |-> [s \in Slots |-> 0], index |-> 0, num |-> 0, last |-> Never]

(* Mutant: the ring does not wrap around. *)
RecordNoWrap(t) ==
    IF t.last = Never THEN [t EXCEPT !.last = 0]
    ELSE [intervals |-> [t.intervals EXCEPT ![t.index] = t.last],
          index |-> t.index + 1,
          num |-> IF t.num < Window THEN t.num + 1 ELSE t.num,
          last |-> 0]

(* The first heartbeat only starts the clock; each later one stores an     *)
(* interval in the ring.                                                   *)
heartbeat_telemetry_record_interval(t) ==
    IF t.last = Never THEN [t EXCEPT !.last = 0]
    ELSE [intervals |-> [t.intervals EXCEPT ![t.index] = t.last],
          index |-> (t.index + 1) % Window,
          num |-> IF t.num < Window THEN t.num + 1 ELSE t.num,
          last |-> 0]

Sum(f, S) == FoldFunctionOnSet(+, 0, f, S)

(* compute_mean_interval is the quotient of this and t.num. *)
SumOfIntervals(t) == Sum(t.intervals, 0 .. t.num - 1)

(* Suspicion exceeds the threshold: log10(e) * silence / mean > threshold. *)
Phi(silence, sum, num) == PhiNum * silence * num > PhiDen * sum

(* Mutant: the mean is taken over the whole ring, full or not. *)
CheckOverWindow(t) ==
    SumOfIntervals(t) > 0 /\ Phi(t.last, SumOfIntervals(t), Window)

heartbeat_telemetry_check_leader_failure(t) ==
    SumOfIntervals(t) > 0 /\ Phi(t.last, SumOfIntervals(t), t.num)

-----------------------------------------------------------------------------
(* Timers *)

random_timeout_usec(min, max) == IF max <= min THEN {min} ELSE min .. max - 1

Arm(durations) == elapsed' = 0 /\ duration' \in durations

(* Too few samples, or no accrual at all. *)
TimeoutMode(t) == Scheme = "TS_TIMEOUT" \/ t.num < Ramp

set_fault_detect_timer(t) ==
    Arm(IF TimeoutMode(t) THEN random_timeout_usec(timeout_lb_ms * MS, timeout_ub_ms * MS)
        ELSE {ACCRUAL_INTERVAL_MS * MS})
set_election_timer ==
    Arm(random_timeout_usec(HEARTBEAT_INTERVAL * 3, HEARTBEAT_INTERVAL * 5))
set_heartbeat_timer == Arm({HEARTBEAT_INTERVAL})

-----------------------------------------------------------------------------
(* History: a change of role starts a new count, a heartbeat ends an interval. *)
Forget == quiet' = Never /\ seen' = <<>>
Hear(q, s) ==
    LET all == Append(s, q)
    IN  /\ quiet' = 0
        /\ seen' = IF q = Never THEN s ELSE IF Len(all) > Window THEN Tail(all) ELSE all

(* An AppendEntries of the node's term, or of a newer one.  A newer term,  *)
(* or a candidacy given up, goes through become_follower, which forgets    *)
(* all samples; only an empty request is then recorded as a heartbeat.     *)
handle_append_entries_request(newer, empty) ==
    LET stepDown == newer \/ role = "CANDIDATE"
        t0 == IF stepDown THEN heartbeat_telemetry_reset(telemetry) ELSE telemetry
        t1 == IF empty THEN heartbeat_telemetry_record_interval(t0) ELSE t0
    IN  /\ running /\ peers
        /\ role = "LEADER" => newer
        /\ empty /\ t0.last # Never => t0.last >= MinGap
        /\ role' = "FOLLOWER"
        /\ telemetry' = t1
        /\ set_fault_detect_timer(t1)
        /\ IF empty THEN IF stepDown THEN Hear(Never, <<>>) ELSE Hear(quiet, seen)
           ELSE IF stepDown THEN Forget ELSE UNCHANGED <<quiet, seen>>
        /\ UNCHANGED <<running, heartbeat_count, peers>>

(* A ballot of a newer term, or a response with one, makes the node a      *)
(* follower; a vote given in either case replaces the timer.               *)
become_follower(granted) ==
    LET t == heartbeat_telemetry_reset(telemetry)
    IN  /\ running /\ peers
        /\ role' = "FOLLOWER"
        /\ telemetry' = t
        /\ IF granted THEN set_election_timer ELSE set_fault_detect_timer(t)
        /\ Forget
        /\ UNCHANGED <<running, heartbeat_count, peers>>
GrantInTerm ==
    /\ running /\ peers
    /\ role = "FOLLOWER"
    /\ set_election_timer
    /\ UNCHANGED <<role, running, telemetry, heartbeat_count, peers, history>>

become_leader ==
    /\ running /\ peers
    /\ role = "CANDIDATE"
    /\ role' = "LEADER"
    /\ heartbeat_count' = 0
    /\ telemetry' = heartbeat_telemetry_reset(telemetry)
    /\ set_heartbeat_timer
    /\ Forget
    /\ UNCHANGED <<running, peers>>

-----------------------------------------------------------------------------
(* raft_handle_timeout *)

Suspects(t) == TimeoutMode(t) \/ heartbeat_telemetry_check_leader_failure(t)

become_candidate ==
    /\ role = "FOLLOWER"
    /\ Suspects(telemetry)
    /\ role' = "CANDIDATE"
    /\ telemetry' = heartbeat_telemetry_reset(telemetry)
    /\ set_election_timer
    /\ Forget
    /\ UNCHANGED <<running, heartbeat_count>>

(* The follower is not convinced yet and samples again; a candidate runs   *)
(* its election again.                                                     *)
SampleAgain ==
    /\ role = "FOLLOWER"
    /\ ~ Suspects(telemetry)
    /\ set_fault_detect_timer(telemetry)
    /\ UNCHANGED <<role, running, telemetry, heartbeat_count, history>>
RetryElection ==
    /\ role = "CANDIDATE"
    /\ set_election_timer
    /\ UNCHANGED <<role, running, telemetry, heartbeat_count, history>>

(* A leader sends its heartbeats, counts them, and exits at the configured *)
(* number.                                                                 *)
HeartbeatTimeout ==
    /\ role = "LEADER"
    /\ set_heartbeat_timer
    /\ heartbeat_count' = IF heartbeat_count < CrashAfter THEN heartbeat_count + 1
                          ELSE heartbeat_count
    /\ running' = (CrashAfter < 0 \/ heartbeat_count + 1 < CrashAfter)
    /\ UNCHANGED <<role, telemetry, history>>

raft_handle_timeout ==
    /\ running
    /\ elapsed >= duration
    /\ become_candidate \/ SampleAgain \/ RetryElection \/ HeartbeatTimeout
    /\ UNCHANGED peers

-----------------------------------------------------------------------------
(* raft_create, and the first timer, which main arms with the configured   *)
(* milliseconds taken as microseconds.                                     *)
FirstTimer == random_timeout_usec(timeout_lb_ms, timeout_ub_ms)

Init ==
    /\ role = "FOLLOWER" /\ running = TRUE
    /\ elapsed = 0 /\ duration \in FirstTimer
    /\ telemetry = [intervals |-> [s \in Slots |-> 0], index |-> 0, num |-> 0, last |-> Never]
    /\ heartbeat_count = 0
    /\ peers = TRUE
    /\ quiet = Never /\ seen = <<>>

(* The wrapper script starts the process again after it exited. *)
Restart ==
    /\ ~ running
    /\ role' = "FOLLOWER" /\ running' = TRUE
    /\ Arm(FirstTimer)
    /\ telemetry' = heartbeat_telemetry_reset(telemetry)
    /\ heartbeat_count' = 0
    /\ Forget
    /\ UNCHANGED peers

(* The clock.  Live peers do not stay silent for longer than MaxGap. *)
Age(t) == IF t = Never \/ t = MaxSilence THEN t ELSE t + 1
Tick ==
    /\ running => elapsed < duration
    /\ peers => telemetry.last < MaxGap
    /\ elapsed' = IF elapsed < duration THEN elapsed + 1 ELSE elapsed
    /\ telemetry' = [telemetry EXCEPT !.last = Age(@)]
    /\ quiet' = Age(quiet)
    /\ UNCHANGED <<role, running, duration, heartbeat_count, peers, seen>>

(* All peers crash or become unreachable, for good. *)
PeersSilent ==
    /\ peers /\ peers' = FALSE
    /\ UNCHANGED <<role, running, elapsed, duration, telemetry, heartbeat_count, history>>

Next ==
    \/ Tick
    \/ \E newer, empty \in BOOLEAN : handle_append_entries_request(newer, empty)
    \/ \E granted \in BOOLEAN : become_follower(granted)
    \/ GrantInTerm
    \/ become_leader
    \/ raft_handle_timeout
    \/ Restart
    \/ PeersSilent

(* Time passes, the loop handles an expired timer, and the wrapper restarts *)
(* the process.                                                            *)
Fairness == WF_vars(Tick) /\ WF_vars(raft_handle_timeout) /\ WF_vars(Restart)
Spec == Init /\ [][Next]_vars /\ Fairness

-----------------------------------------------------------------------------
(* Correctness *)

(* Every variable has its type; in particular the position in the ring and *)
(* the number of samples stay within it.                                   *)
TypeOK ==
    /\ role \in {"FOLLOWER", "CANDIDATE", "LEADER"} /\ running \in BOOLEAN
    /\ elapsed \in 0 .. duration /\ duration \in Nat
    /\ telemetry \in [intervals : [Slots -> 0 .. MaxSilence], index : Slots,
                      num : 0 .. Window, last : Never .. MaxSilence]
    /\ heartbeat_count \in Nat /\ peers \in BOOLEAN
    /\ quiet \in Never .. MaxSilence
    /\ seen \in Seq(0 .. MaxSilence) /\ Len(seen) <= Window

(* The slot of the j-th of the n latest intervals, the next one going to   *)
(* slot index.                                                             *)
Place(index, n, j) ==
    IF index + j > n THEN index + j - n - 1 ELSE index + j - n - 1 + Window

(* The slots that compute_mean_interval adds up, the first num ones, hold  *)
(* exactly the most recent intervals between heartbeats of the current     *)
(* leader, each in its place: nothing of an earlier leader, whatever       *)
(* changes of role came in between, and nothing that was overwritten.  The *)
(* ring is filled from slot 0 on.                                          *)
RingIsRecent ==
    /\ telemetry.last = quiet
    /\ telemetry.num = Len(seen)
    /\ telemetry.num < Window => telemetry.index = telemetry.num
    /\ \A j \in DOMAIN seen :
          LET place == Place(telemetry.index, telemetry.num, j)
          IN  place \in 0 .. telemetry.num - 1 /\ telemetry.intervals[place] = seen[j]

(* Once the detector has its samples, a follower gives up its leader only  *)
(* for a silence that exceeds the threshold against the intervals that     *)
(* were really observed.                                                   *)
SuspicionJustified ==
    [][role = "FOLLOWER" /\ role' = "CANDIDATE"
         /\ Scheme = "TS_ACCRUAL" /\ Len(seen) >= Ramp =>
           Phi(quiet, Sum(seen, DOMAIN seen), Len(seen))]_vars

(* A follower whose peers are silent for good starts an election: whatever *)
(* samples, timers and mode changes came before, detection never gets      *)
(* stuck.                                                                  *)
SilenceDetected == ~ peers /\ role = "FOLLOWER" ~> role = "CANDIDATE"

(* Stated by README.md: the timeout lies between lb and ub milliseconds.   *)
(* A follower without enough samples is silent for at least the smaller of *)
(* lb and the election timeout before it starts an election.               *)
TimeoutInRange ==
    [][role = "FOLLOWER" /\ role' = "CANDIDATE" /\ TimeoutMode(telemetry) =>
         elapsed >= timeout_lb_ms * MS \/ elapsed >= 3 * HEARTBEAT_INTERVAL]_vars
=============================================================================
