----------------------- MODULE ReplicatedStateMachine -----------------------
(***************************************************************************)
(* What the cluster promises, with no terms, votes, packets or indexes:    *)
(* one sequence of decided commands that only grows and never repeats a    *)
(* command, nodes that apply it in order and start over after a crash, and *)
(* clients that are answered only for commands that were applied.          *)
(***************************************************************************)
EXTENDS Sequences, SequencesExt

CONSTANTS Server, Request

VARIABLES
    decided,        \* Seq(Request)
    applied,        \* what each node has applied since it last started
    answered        \* the requests some client was told about

vars == <<decided, applied, answered>>

Init ==
    /\ decided = <<>>
    /\ applied = [i \in Server |-> <<>>]
    /\ answered = {}

(* More may be decided, and node i catches up with the decisions as far as *)
(* it likes and answers any of the commands it has applied.                *)
Progress(i) ==
    /\ IsPrefix(decided, decided')
    /\ IsInjective(decided')
    /\ applied' = [applied EXCEPT ![i] = applied'[i]]
    /\ IsPrefix(applied[i], applied'[i])
    /\ IsPrefix(applied'[i], decided')
    /\ answered \subseteq answered'
    /\ answered' \subseteq answered \cup Range(applied'[i])

StartOver(i) ==
    /\ applied' = [applied EXCEPT ![i] = <<>>]
    /\ UNCHANGED <<decided, answered>>

Next == \E i \in Server : Progress(i) \/ StartOver(i)

Spec == Init /\ [][Next]_vars
=============================================================================
