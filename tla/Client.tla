------------------------------- MODULE Client -------------------------------
(***************************************************************************)
(* A client process (src/util-unix/benchmark-client.c, client.c) in front  *)
(* of a cluster.  benchmark-client sends request after request; client     *)
(* sends one command and follows a redirect once.  Both look for a leader  *)
(* among the nodes, and neither compares the cmd_seqno of an answer.       *)
(*                                                                         *)
(* Of the cluster only what clients see is kept: who leads, whom each node *)
(* takes for the leader (leader_id), and what becomes of each request.     *)
(* stable becomes true when leadership changes no more and connections     *)
(* stay up.  A sequence number that nobody holds any more is used again.   *)
(***************************************************************************)
EXTENDS Integers, FiniteSets, FiniteSetsExt

CONSTANTS
    Node,
    NO_LEADER,
    MaxSeqno        \* bound: requests under way, late answers included

ASSUME NodeAssumption == NO_LEADER \notin Node /\ MaxSeqno \in Nat \ {0}

VARIABLES
    program, pc, seqno, target, attempts,   \* the client process
    row,                                    \* what it reports, and whose answer that was
    leader, leader_id, outstanding, stable, \* the cluster
    requests, answers, arrived,             \* on their way; answers the client can read
    appended, committed                     \* history, by sequence number

process == <<program, pc, seqno, target, attempts, row>>
cluster == <<leader, leader_id, outstanding, stable>>
messages == <<requests, answers, arrived>>
history == <<appended, committed>>
vars == <<process, cluster, messages, history>>

Seqno == 1 .. MaxSeqno
Hint == Node \cup {NO_LEADER}
Answer == [seq : Seqno, success : BOOLEAN, leader_hint : Hint]
NoRow == [result |-> "none", of |-> 0]

(* What may still be answered.  Once leadership is settled, that is no      *)
(* longer the case of a request outstanding at a former leader.             *)
Answerable == {o \in outstanding : stable => o.at = leader}
Seqnos(S) == {m.seq : m \in S}
Underway == Seqnos(requests) \cup Seqnos(Answerable) \cup Seqnos(answers)

-----------------------------------------------------------------------------
(* The client.  Random choices are choices. *)

(* Mutant: the number is kept until the request has succeeded. *)
SameSeqno == IF row.result \in {"none", "OK"} THEN Min(Seqno \ Underway) ELSE seqno

(* benchmark-client: seqno++ on every attempt.  client: one number. *)
NextSeqno == IF program = "client" /\ attempts > 0 THEN seqno ELSE Min(Seqno \ Underway)

ClientSend ==
    LET s == NextSeqno
        first == s # seqno \/ attempts = 0
    IN  /\ pc = "send"
        /\ seqno' = s
        /\ requests' = requests \cup {[seq |-> s, dst |-> target]}
        /\ row' = NoRow
        /\ pc' = "wait"
        /\ IF first
           THEN /\ appended' = [appended EXCEPT ![s] = 0]
                /\ committed' = committed \ {s}
           ELSE UNCHANGED history
        /\ UNCHANGED <<program, target, attempts, cluster, answers, arrived>>

(* transport.send fails: another node is tried, or client gives up. *)
SendFailure ==
    /\ pc = "send" /\ ~ stable
    /\ IF program = "client" THEN pc' = "done" /\ UNCHANGED target
       ELSE pc' = "send" /\ target' \in Node
    /\ UNCHANGED <<program, seqno, attempts, row, cluster, messages, history>>

(* Mutant: a redirect is taken as "try anyone". *)
IgnoreHint(h) == Node

(* Whom to ask after a redirect. *)
AfterRedirect(h) == IF h \in Node THEN {h} ELSE Node

BenchmarkRow(a) ==
    /\ program = "benchmark-client"
    /\ target' \in IF a.success THEN {target} ELSE AfterRedirect(a.leader_hint)
    /\ row' = [result |-> IF a.success THEN "OK" ELSE "NOT_LEADER", of |-> a.seq]
    /\ pc' = "send"
    /\ UNCHANGED attempts

(* Mutant: client follows every hint. *)
FollowOn(a) ==
    /\ program = "client"
    /\ row' = [result |-> IF a.success THEN "OK" ELSE "NOT_LEADER", of |-> a.seq]
    /\ IF a.success \/ a.leader_hint = NO_LEADER
       THEN pc' = "done" /\ UNCHANGED <<target, attempts>>
       ELSE target' = a.leader_hint /\ attempts' = attempts + 1 /\ pc' = "send"

(* client stops at a success, after two redirects, or without a hint. *)
ClientAnswer(a) ==
    /\ program = "client"
    /\ row' = [result |-> IF a.success THEN "OK" ELSE "NOT_LEADER", of |-> a.seq]
    /\ IF a.success \/ a.leader_hint = NO_LEADER
       THEN pc' = "done" /\ UNCHANGED <<target, attempts>>
       ELSE /\ target' = a.leader_hint
            /\ attempts' = attempts + 1
            /\ pc' = IF attempts + 1 < 2 THEN "send" ELSE "done"

(* receive returns any answer there is. *)
ClientReceive(a) ==
    /\ pc = "wait" /\ a \in answers /\ a.seq \in arrived
    /\ answers' = answers \ {a} /\ arrived' = arrived \ {a.seq}
    /\ BenchmarkRow(a) \/ ClientAnswer(a)
    /\ UNCHANGED <<program, seqno, requests, cluster, history>>

(* Nothing comes in time (one second, or ten), or receive fails.  The guard *)
(* on Underway is the bound on how many answers may be late.                *)
ClientTimeout ==
    /\ pc = "wait" /\ arrived = {}
    /\ Seqno \ Underway # {}
    /\ row' = [result |-> "TIMEOUT", of |-> 0]
    /\ IF program = "client" THEN pc' = "done" /\ UNCHANGED target
       ELSE pc' = "send" /\ target' \in Node
    /\ UNCHANGED <<program, seqno, attempts, cluster, messages, history>>

-----------------------------------------------------------------------------
(* The cluster, as far as clients see it *)

Answered(s, ok, h) == answers' = answers \cup {[seq |-> s, success |-> ok, leader_hint |-> h]}

(* Mutant: the leader answers at once. *)
AnswerAtOnce(q) ==
    IF q.dst = leader
    THEN /\ appended' = [appended EXCEPT ![q.seq] = @ + 1]
         /\ Answered(q.seq, TRUE, q.dst)
         /\ UNCHANGED outstanding
    ELSE Answered(q.seq, FALSE, leader_id[q.dst]) /\ UNCHANGED <<outstanding, appended>>

(* handle_proc_request: a leader appends and remembers, others redirect. *)
handle_proc_request(q) ==
    IF q.dst = leader
    THEN /\ appended' = [appended EXCEPT ![q.seq] = @ + 1]
         /\ outstanding' = outstanding \cup {[seq |-> q.seq, at |-> q.dst]}
         /\ UNCHANGED answers
    ELSE Answered(q.seq, FALSE, leader_id[q.dst]) /\ UNCHANGED <<outstanding, appended>>

NodeReceive(n) ==
    \E q \in requests :
        /\ q.dst = n
        /\ requests' = requests \ {q}
        /\ handle_proc_request(q)
        /\ UNCHANGED <<process, leader, leader_id, stable, arrived, committed>>

(* apply_to_state_machine on the leader that has the request outstanding. *)
Commit(s) ==
    /\ [seq |-> s, at |-> leader] \in outstanding
    /\ outstanding' = outstanding \ {[seq |-> s, at |-> leader]}
    /\ committed' = committed \cup {s}
    /\ Answered(s, TRUE, leader)
    /\ UNCHANGED <<process, leader, leader_id, stable, requests, arrived, appended>>

Arrive(s) ==
    /\ s \in {a.seq : a \in answers} \ arrived
    /\ arrived' = arrived \cup {s}
    /\ UNCHANGED <<process, cluster, requests, answers, history>>

(* The leader's AppendEntries. *)
Heartbeat(n) ==
    /\ leader # NO_LEADER /\ n # leader
    /\ leader_id' = [leader_id EXCEPT ![n] = leader]
    /\ UNCHANGED <<process, leader, outstanding, stable, messages, history>>

(* A vote for a candidate, a candidacy, a packet of a former leader. *)
Misled(n) ==
    /\ ~ stable
    /\ \E h \in Hint \ {n} : leader_id' = [leader_id EXCEPT ![n] = h]
    /\ UNCHANGED <<process, leader, outstanding, stable, messages, history>>

(* A change of leadership.  The entry of an outstanding request may be     *)
(* overwritten; if it is not, and its leader leads again, it is answered.  *)
LeaderChange ==
    /\ ~ stable
    /\ leader' \in Hint \ {leader}
    /\ \E kept \in SUBSET outstanding : outstanding' = kept
    /\ leader_id' = IF leader' = NO_LEADER THEN leader_id
                    ELSE [leader_id EXCEPT ![leader'] = NO_LEADER]
    /\ UNCHANGED <<process, stable, messages, history>>

(* A connection breaks. *)
Lose ==
    /\ ~ stable
    /\ \/ \E q \in requests : requests' = requests \ {q} /\ UNCHANGED <<answers, arrived>>
       \/ \E a \in answers :
            answers' = answers \ {a} /\ arrived' = arrived \ {a.seq} /\ UNCHANGED requests
    /\ UNCHANGED <<process, cluster, history>>

Stabilise ==
    /\ leader # NO_LEADER
    /\ stable' = TRUE
    /\ UNCHANGED <<process, leader, leader_id, outstanding, messages, history>>

-----------------------------------------------------------------------------
Init ==
    /\ program \in {"benchmark-client", "client"}
    /\ pc = "send" /\ seqno = 1 /\ target \in Node /\ attempts = 0
    /\ row = NoRow
    /\ leader \in Hint /\ leader_id \in [Node -> {NO_LEADER}]
    /\ outstanding = {} /\ stable = FALSE
    /\ requests = {} /\ answers = {} /\ arrived = {}
    /\ appended = [s \in Seqno |-> 0] /\ committed = {}

ClientLoop == ClientSend \/ SendFailure \/ ClientTimeout \/ \E a \in Answer : ClientReceive(a)

Next ==
    \/ ClientLoop
    \/ \E n \in Node : NodeReceive(n) \/ Heartbeat(n) \/ Misled(n)
    \/ \E s \in Seqno : Commit(s) \/ Arrive(s)
    \/ LeaderChange \/ Lose \/ Stabilise

(* Fairness: the client's loop runs on; nodes handle what they receive; a  *)
(* leader's entries are committed and its heartbeats reach everyone.       *)
Spec ==
    /\ Init /\ [][Next]_vars
    /\ WF_vars(ClientLoop)
    /\ \A n \in Node : WF_vars(NodeReceive(n)) /\ WF_vars(Heartbeat(n))
    /\ \A s \in Seqno : WF_vars(Commit(s)) /\ WF_vars(Arrive(s))

-----------------------------------------------------------------------------
(* Correctness *)

(* Every variable has its type. *)
TypeOK ==
    /\ pc \in {"send", "wait", "done"} /\ target \in Node /\ attempts \in 0 .. 2
    /\ seqno \in Seqno /\ (pc = "send" /\ attempts = 0 => Seqno \ Underway # {})
    /\ leader \in Hint /\ leader_id \in [Node -> Hint] /\ stable \in BOOLEAN
    /\ requests \subseteq [seq : Seqno, dst : Node] /\ answers \subseteq Answer
    /\ outstanding \subseteq [seq : Seqno, at : Node] /\ arrived \subseteq Seqno

(* A sequence number is appended to a log at most once, although a command  *)
(* is sent again after a redirect and requests outlive their time-out.      *)
(* Raft relies on it.                                                       *)
AppendedOnce == \A s \in Seqno : appended[s] <= 1

(* A success that is reported is that of a committed request.  It may be an *)
(* earlier one for benchmark-client, which takes a late answer for the      *)
(* answer to its present request, but not for client, which sends once.     *)
SuccessIsCommitted ==
    row.result = "OK" => row.of \in committed /\ (program = "client" => row.of = seqno)

(* Once leadership is settled benchmark-client finds the leader and goes on *)
(* succeeding, whatever wrong hints and late answers were still about.      *)
KeepsSucceeding ==
    stable /\ program = "benchmark-client" /\ pc = "wait" ~> row.result = "OK"

-----------------------------------------------------------------------------
(* The inductive invariant behind the safety properties *)

Unique(S) == \A x, y \in S : x.seq = y.seq => x = y

(* A number under way is in one place: a request, an outstanding entry or   *)
(* an answer.                                                               *)
OnePlace ==
    /\ Unique(requests) /\ Unique(Answerable) /\ Unique(answers)
    /\ Seqnos(requests) \cap Seqnos(Answerable) = {}
    /\ Seqnos(requests) \cap Seqnos(answers) = {}
    /\ Seqnos(Answerable) \cap Seqnos(answers) = {}

(* What is still asked for, or was refused, is in no log; what succeeded is *)
(* committed.                                                               *)
AnswersTrue ==
    /\ \A q \in requests : appended[q.seq] = 0
    /\ \A a \in answers : IF a.success THEN a.seq \in committed ELSE appended[a.seq] = 0

(* client has one number; it sends it again only when nobody holds it and   *)
(* nobody has appended it.                                                  *)
OneNumber ==
    /\ program \in {"benchmark-client", "client"}
    /\ pc # "done" => attempts < 2
    /\ program = "benchmark-client" => attempts = 0
    /\ program = "client" =>
          /\ Underway \subseteq {seqno}
          /\ pc = "send" => Underway = {}
          /\ pc = "send" /\ attempts > 0 => appended[seqno] = 0

(* A sequence number is in one place, whatever is resent, late or lost, and *)
(* its answer says what became of it: what makes it safe that the clients   *)
(* do not compare cmd_seqno.                                                *)
ClientInv ==
    /\ TypeOK /\ appended \in [Seqno -> Nat] /\ AppendedOnce
    /\ OnePlace /\ AnswersTrue /\ OneNumber /\ SuccessIsCommitted
=============================================================================
