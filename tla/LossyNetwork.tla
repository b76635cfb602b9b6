---------------------------- MODULE LossyNetwork ----------------------------
(***************************************************************************)
(* What Raft and the clients assume of the transport: a packet is handed   *)
(* to a process with the address it was sent to, unchanged and at most     *)
(* once.  It may be lost at any moment, and packets overtake each other.   *)
(***************************************************************************)
EXTENDS Naturals

CONSTANTS
    Process,
    Address(_),     \* the id a process sends under; clients share one
    Packet          \* records with src, dst and n, the number of the send

VARIABLES
    wire,           \* packets that may still arrive
    got,            \* what each process received
    sends           \* packets sent so far

Init == wire = {} /\ got = [p \in Process |-> {}] /\ sends = 0

(* Packets on the wire that were not there before, and those that may go. *)
Keep(w) == \E kept \in SUBSET w : wire' = kept

Send(p) ==
    /\ \E m \in Packet :
          /\ m.n = sends + 1 /\ m.src = Address(p)
          /\ Keep(wire \cup {m})
    /\ sends' = sends + 1
    /\ UNCHANGED got

Deliver(p) ==
    /\ \E m \in wire :
          /\ m.dst = Address(p)
          /\ got' = [got EXCEPT ![p] = @ \cup {m}]
          /\ Keep(wire \ {m})
    /\ UNCHANGED sends

Lose == Keep(wire) /\ UNCHANGED <<got, sends>>

Next == Lose \/ \E p \in Process : Send(p) \/ Deliver(p)

Spec == Init /\ [][Next]_<<wire, got, sends>>
=============================================================================
