--------------------------- MODULE RaftRefinement ---------------------------
(***************************************************************************)
(* Raft seen as a replicated state machine, and the inductive invariant    *)
(* behind that view: where a command is in the logs, and what clients were *)
(* told of it.                                                             *)
(***************************************************************************)
EXTENDS RaftLogInv

(* The commands of a log.  The decided sequence is what leaders have       *)
(* committed, a node's applied sequence the part of its log up to          *)
(* last_applied.                                                           *)
Commands(l) == [k \in DOMAIN l |-> l[k].req]

RSM == INSTANCE ReplicatedStateMachine WITH
    decided <- [k \in DOMAIN chosen |-> chosen[k].entry.req],
    applied <- [i \in Server |-> Commands(SubSeq(log[i], 1, lastApplied[i] + 1))],
    answered <- {r \in Request : client[r] = "acked"}

(* Every behaviour of the nodes, crashes included, is one of a replicated   *)
(* state machine: no node ever applies, and no client is ever told about,   *)
(* anything but the decided commands in order.                              *)
ImplementsStateMachine == RSM!Spec

-----------------------------------------------------------------------------
(* No command is at two places of the leaders' logs. *)
RequestsOnce ==
    \A t, u \in Term : \A p \in DOMAIN leaderLog[t], q \in DOMAIN leaderLog[u] :
        leaderLog[t][p].req = leaderLog[u][q].req => p = q

(* What is in a log was sent by its client. *)
RequestsAccepted ==
    \A t \in Term : \A p \in DOMAIN leaderLog[t] : client[leaderLog[t][p].req] # "idle"

(* A client was answered only for a committed command. *)
AnswersCommitted ==
    \A r \in Request : client[r] = "acked" => \E k \in DOMAIN chosen : chosen[k].entry.req = r

(* A command enters the logs once, after its client has sent it, and its    *)
(* client is answered only when it is committed: what handle_proc_request   *)
(* and apply_to_state_machine owe the clients.                              *)
AnswerInv == RequestsOnce /\ RequestsAccepted /\ AnswersCommitted
=============================================================================
