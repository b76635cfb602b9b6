----------------------------- MODULE Transport -----------------------------
(***************************************************************************)
(* The socket transport (src/transport-socket/transport-socket.c): nodes   *)
(* and clients that open, accept, replace and close TCP connections while  *)
(* they send and receive packets.                                          *)
(*                                                                         *)
(* A connection has two ends, 1 at the process that connected and 2 at the *)
(* node it connected to.  An end is held by a descriptor, waits to be      *)
(* connected or accepted, or is closed; queue is what can be read at it.   *)
(* Descriptors are small numbers that the system uses again.  A packet of  *)
(* which only the beginning was written has n = 0.                         *)
(***************************************************************************)
EXTENDS Integers, Sequences, FiniteSets, FiniteSetsExt, SequencesExt

CONSTANTS
    Node, Client,
    CLIENT_ID,          \* the id all client processes use
    None,               \* -1, or "no connection"
    MAX_CONNECTIONS,    \* entries of active_fds
    Capacity,           \* packets that fit into the buffers of one direction
    MaxFd,              \* bound: descriptors of a process
    MaxConnections,     \* bound: connections at one time
    MaxSends,           \* bound: packets sent
    MaxCrashes          \* bound: processes that end

Process == Node \cup Client
Address(p) == IF p \in Node THEN p ELSE CLIENT_ID
Addresses == Node \cup {CLIENT_ID}
Packet == [src : Addresses, dst : Addresses, n : 0 .. MaxSends]
Fd == 1 .. MaxFd
Connection == 1 .. MaxConnections
End == Connection \X {1, 2}

ASSUME NameAssumption ==
    Node \cap Client = {} /\ CLIENT_ID \notin Node /\ None \notin Process \cup Fd \cup End
ASSUME BoundAssumption ==
    /\ MAX_CONNECTIONS \in Nat /\ Capacity \in Nat /\ MaxFd \in Nat
    /\ MaxConnections \in Nat /\ MaxSends \in Nat /\ MaxCrashes \in Nat

VARIABLES
    conns,              \* the ends of connections, in the kernels
    table,              \* per process: descriptor -> end
    slots,              \* peer_fds and client_fds, by address
    active,             \* the descriptors in active_fds
    sending,            \* the packet a process waits to write, and where
    got, sends,         \* history: what was received; number of sends
    crashes

local == <<table, slots, active>>
vars == <<conns, local, sending, got, sends, crashes>>

-----------------------------------------------------------------------------
(* Ends of connections: the process there, its state, what can be read at *)
(* it.  Once both ends are gone the connection can be used again.          *)

Unused == [who |-> None, up |-> "closed", queue |-> <<>>]
Opposite(e) == <<e[1], 3 - e[2]>>
State(e) == conns[e].up
Queue(e) == conns[e].queue
FarAddress(e) == Address(conns[Opposite(e)].who)

CloseEnds(cs, ends) ==
    LET Left(e) == e \notin ends /\ cs[e].up \in {"open", "backlog"}
    IN  [e \in End |->
            IF {e, Opposite(e)} \cap ends # {} /\ ~ Left(e) /\ ~ Left(Opposite(e)) THEN Unused
            ELSE IF e \in ends THEN [cs[e] EXCEPT !.up = "closed", !.queue = <<>>] ELSE cs[e]]
CloseEnd(cs, e) == CloseEnds(cs, {e})
Enqueue(cs, e, m) == [cs EXCEPT ![e].queue = Append(@, m)]

FreeFds(p) == {fd \in Fd : table[p][fd] = None}
FreeConns == {c \in Connection : \A i \in {1, 2} : conns[<<c, i>>] = Unused}

(* Mutant: one entry too many. *)
RoomForOneMore(p) == Cardinality(active[p]) <= MAX_CONNECTIONS

HasRoom(p) == Cardinality(active[p]) < MAX_CONNECTIONS

(* close(fd), remove_active_fd(fd) *)
Closed(p, fds) ==
    /\ table' = [table EXCEPT ![p] = [fd \in Fd |-> IF fd \in fds THEN None ELSE @[fd]]]
    /\ active' = [active EXCEPT ![p] = @ \ fds]

(* The network finishes opening a connection, or refuses it because no one *)
(* listens.                                                                *)
Handshake(c) ==
    /\ State(<<c, 2>>) = "waiting"
    /\ \E s \in {"backlog", "closed"} : conns' = [conns EXCEPT ![<<c, 2>>].up = s]
    /\ UNCHANGED <<local, sending, got, sends, crashes>>

(* After one end was closed the last packet on its way may not arrive. *)
LoseTail(e) ==
    /\ State(Opposite(e)) = "closed" /\ Queue(e) # <<>>
    /\ conns' = [conns EXCEPT ![e].queue = Front(@)]
    /\ UNCHANGED <<local, sending, got, sends, crashes>>

-----------------------------------------------------------------------------
(* socket_send *)

(* connect_to_peer: the descriptor goes into the peer's slot, and is       *)
(* watched for packets if there is room.                                   *)
connect_to_peer(p, fd, dst) ==
    LET c == Min(FreeConns)
    IN  /\ conns' = [conns EXCEPT ![<<c, 1>>] = [Unused EXCEPT !.who = p, !.up = "open"],
                                  ![<<c, 2>>] = [Unused EXCEPT !.who = dst, !.up = "waiting"]]
        /\ table' = [table EXCEPT ![p][fd] = <<c, 1>>]
        /\ slots' = [slots EXCEPT ![p][dst] = fd]
        /\ active' = [active EXCEPT ![p] = IF HasRoom(p) THEN @ \cup {fd} ELSE @]

(* A client that has no connection to this node gets no packet. *)
StartSend(p, dst) ==
    /\ sending[p] = None /\ dst # Address(p)
    /\ sends < MaxSends /\ sends' = sends + 1
    /\ LET m == [src |-> Address(p), dst |-> dst, n |-> sends + 1]
           fd == slots[p][dst]
       IN  \/ /\ fd # None
              /\ sending' = [sending EXCEPT ![p] = [fd |-> fd, pkt |-> m]]
              /\ UNCHANGED <<conns, local>>
           \/ /\ fd = None /\ dst \in Node
              /\ FreeFds(p) # {} /\ FreeConns # {}
              /\ connect_to_peer(p, Min(FreeFds(p)), dst)
              /\ sending' = [sending EXCEPT ![p] = [fd |-> Min(FreeFds(p)), pkt |-> m]]
    /\ UNCHANGED <<got, crashes>>

Target(p) == Opposite(table[p][sending[p].fd])
Fits(e) == State(e) \in {"backlog", "open"} /\ Len(Queue(e)) < Capacity
SendDone(p) ==
    /\ sending' = [sending EXCEPT ![p] = None]
    /\ UNCHANGED <<got, sends, crashes>>

(* Not writable within connect_timeout_ms: the descriptor stays in its slot. *)
SendTimeout(p) ==
    /\ sending[p] # None
    /\ State(Target(p)) # "closed" /\ ~ Fits(Target(p))
    /\ SendDone(p)
    /\ UNCHANGED <<conns, local>>

(* The whole packet is written; nobody reads it if the far end is closed. *)
SendWhole(p) ==
    /\ sending[p] # None
    /\ \/ /\ Fits(Target(p))
          /\ conns' = Enqueue(conns, Target(p), sending[p].pkt)
       \/ State(Target(p)) = "closed" /\ UNCHANGED conns
    /\ SendDone(p)
    /\ UNCHANGED local

(* Mutant: after a partial write the connection is kept. *)
SendBrokenKeep(p) ==
    /\ sending[p] # None
    /\ Fits(Target(p))
    /\ conns' = Enqueue(conns, Target(p), [sending[p].pkt EXCEPT !.n = 0])
    /\ SendDone(p)
    /\ UNCHANGED local

(* err_close: the socket has an error, or the buffers are full in the      *)
(* middle of the packet.                                                   *)
SendBroken(p) ==
    LET s == sending[p]
        e == table[p][s.fd]
    IN  /\ s # None
        /\ \/ /\ Fits(Target(p))
              /\ conns' = CloseEnd(Enqueue(conns, Target(p), [s.pkt EXCEPT !.n = 0]), e)
           \/ State(Target(p)) = "closed" /\ conns' = CloseEnd(conns, e)
        /\ Closed(p, {s.fd})
        /\ slots' = [slots EXCEPT ![p][s.pkt.dst] = None]
        /\ SendDone(p)

-----------------------------------------------------------------------------
(* The accept loop, in socket_send as in socket_receive. *)
Accept(p) ==
    /\ FreeFds(p) # {}
    /\ \E c \in Connection :
          /\ State(<<c, 2>>) = "backlog" /\ conns[<<c, 2>>].who = p
          /\ IF HasRoom(p)
             THEN /\ conns' = [conns EXCEPT ![<<c, 2>>].up = "open"]
                  /\ table' = [table EXCEPT ![p][Min(FreeFds(p))] = <<c, 2>>]
                  /\ active' = [active EXCEPT ![p] = @ \cup {Min(FreeFds(p))}]
             ELSE conns' = CloseEnd(conns, <<c, 2>>) /\ UNCHANGED <<table, active>>
    /\ UNCHANGED <<slots, sending, got, sends, crashes>>

-----------------------------------------------------------------------------
(* socket_receive *)

(* Mutant: an older connection of the sender is left open. *)
OlderKept(p, fd, src) == {}

(* A packet makes the descriptor it came by the one for its sender; another *)
(* one in the slot is closed.                                               *)
Older(p, fd, src) == {slots[p][src]} \ {None, fd}

(* A packet of which only the beginning was written would be taken for a   *)
(* whole one if more bytes followed it.                                    *)
ReceivePacket(p, fd) ==
    LET e == table[p][fd]
        m == Head(Queue(e))
        older == Older(p, fd, m.src)
    IN  /\ fd \in active[p]
        /\ Queue(e) # <<>>
        /\ m.n # 0 \/ Len(Queue(e)) > 1
        /\ conns' = CloseEnds([conns EXCEPT ![e].queue = Tail(@)],
                              {table[p][old] : old \in older})
        /\ Closed(p, older)
        /\ slots' = [slots EXCEPT ![p][m.src] = fd]
        /\ got' = [got EXCEPT ![p] = @ \cup {m}]

(* Mutants: the slots are left as they are; the end of a stream is ignored. *)
SlotsKept(p, fd) == slots[p]
UnreadableIfPartial(e) == Queue(e) # <<>>

SlotsCleared(p, fd) ==
    [k \in Addresses |-> IF slots[p][k] = fd THEN None ELSE slots[p][k]]

(* The end of the stream, a refused connection, or a packet of which only  *)
(* a part has come by the deadline.                                        *)
Unreadable(e) == Queue(e) # <<>> \/ State(Opposite(e)) = "closed"

(* err_recv *)
RecvError(p, fd) ==
    /\ fd \in active[p]
    /\ Unreadable(table[p][fd])
    /\ conns' = CloseEnd(conns, table[p][fd])
    /\ Closed(p, {fd})
    /\ slots' = [slots EXCEPT ![p] = SlotsCleared(p, fd)]
    /\ UNCHANGED got

socket_receive(p) ==
    /\ sending[p] = None
    /\ \E fd \in Fd : ReceivePacket(p, fd) \/ RecvError(p, fd)
    /\ UNCHANGED <<sending, sends, crashes>>

-----------------------------------------------------------------------------
(* The process ends, by transport_free or otherwise: the system closes its *)
(* descriptors and drops what it had not accepted.  transport_socket_init  *)
(* of its successor starts empty.                                          *)
Crash(p) ==
    /\ crashes < MaxCrashes /\ crashes' = crashes + 1
    /\ conns' = CloseEnds(conns,
            {table[p][fd] : fd \in Fd \ FreeFds(p)} \cup
            {e \in End : State(e) = "backlog" /\ conns[e].who = p})
    /\ Closed(p, Fd)
    /\ slots' = [slots EXCEPT ![p] = [k \in Addresses |-> None]]
    /\ sending' = [sending EXCEPT ![p] = None]
    /\ UNCHANGED <<got, sends>>

Init ==
    /\ conns = [e \in End |-> Unused]
    /\ table = [p \in Process |-> [fd \in Fd |-> None]]
    /\ slots = [p \in Process |-> [k \in Addresses |-> None]]
    /\ active = [p \in Process |-> {}]
    /\ sending = [p \in Process |-> None]
    /\ got = [p \in Process |-> {}]
    /\ sends = 0 /\ crashes = 0

FinishSend(p) == SendTimeout(p) \/ SendWhole(p) \/ SendBroken(p)

Next ==
    \/ \E p \in Process :
          \/ \E dst \in Addresses : StartSend(p, dst)
          \/ FinishSend(p) \/ Accept(p) \/ socket_receive(p) \/ Crash(p)
    \/ \E c \in Connection : Handshake(c)
    \/ \E e \in End : LoseTail(e)

(* Fairness: a process that waits for its socket goes on when that is      *)
(* ready or the time is up, and raft_run calls receive again and again.    *)
Spec == Init /\ [][Next]_vars
             /\ \A p \in Process : WF_vars(FinishSend(p)) /\ WF_vars(socket_receive(p))

-----------------------------------------------------------------------------
(* Correctness *)

(* Every variable has its type; active_fds never overflows. *)
TypeOK ==
    /\ conns \in [End -> [who : Process \cup {None}, queue : Seq(Packet),
                         up : {"open", "waiting", "backlog", "closed"}]]
    /\ \A e \in End : Len(Queue(e)) <= Capacity
    /\ table \in [Process -> [Fd -> End \cup {None}]]
    /\ slots \in [Process -> [Addresses -> Fd \cup {None}]]
    /\ active \in [Process -> SUBSET Fd]
    /\ \A p \in Process : Cardinality(active[p]) <= MAX_CONNECTIONS
    /\ sending \in [Process -> [fd : Fd, pkt : Packet] \cup {None}]
    /\ got \in [Process -> SUBSET Packet]
    /\ sends \in 0 .. MaxSends /\ crashes \in 0 .. MaxCrashes

(* Every descriptor in a slot, in active_fds or in use by a send is open,   *)
(* and a slot's leads to the process with that address: no number that was  *)
(* closed and given to another connection is left behind, however accepts,  *)
(* replacements, errors and crashes interleave.                             *)
SlotsPointHome ==
    \A p \in Process :
        /\ \A k \in Addresses : slots[p][k] # None =>
              table[p][slots[p][k]] # None /\ FarAddress(table[p][slots[p][k]]) = k
        /\ \A fd \in active[p] : table[p][fd] # None
        /\ sending[p] # None => slots[p][sending[p].pkt.dst] = sending[p].fd

(* No descriptor is lost: each open one is watched or in a slot, so that it *)
(* will be closed when its peer closes, is replaced, or cannot be written.  *)
NoDescriptorLeak ==
    \A p \in Process : \A fd \in Fd \ FreeFds(p) :
        fd \in active[p] \/ \E k \in Addresses : slots[p][k] = fd

(* A descriptor is the only one of its open end. *)
OwnEnds ==
    \A p \in Process : \A fd \in Fd \ FreeFds(p) :
        /\ State(table[p][fd]) = "open" /\ conns[table[p][fd]].who = p
        /\ \A other \in Fd \ {fd} : table[p][other] # table[p][fd]

(* What can be read at an end is for its process and from the one at the   *)
(* other; only the last packet is cut off, and nothing follows it.         *)
QueuesInOrder ==
    \A e \in End : \A k \in DOMAIN Queue(e) :
        /\ Queue(e)[k].src = FarAddress(e) /\ Queue(e)[k].dst = Address(conns[e].who)
        /\ Queue(e)[k].n = 0 => k = Len(Queue(e)) /\ State(Opposite(e)) = "closed"

(* A packet is at one place. *)
OneCopy ==
    /\ \A e, f \in End : \A j \in DOMAIN Queue(e), k \in DOMAIN Queue(f) :
          Queue(e)[j].n # 0 /\ Queue(e)[j].n = Queue(f)[k].n => e = f /\ j = k
    /\ \A e \in End : \A k \in DOMAIN Queue(e) : Queue(e)[k].n <= sends
    /\ \A p \in Process : sending[p] # None =>
          /\ sending[p].pkt.src = Address(p) /\ sending[p].pkt.n \in 1 .. sends
          /\ \A q \in Process \ {p} : sending[q] # None => sending[q].pkt.n # sending[p].pkt.n
          /\ \A e \in End : \A k \in DOMAIN Queue(e) : Queue(e)[k].n # sending[p].pkt.n

(* Each descriptor has an end of its own and each packet one place, whatever *)
(* is replaced, reused or cut off: why closing one descriptor takes nothing  *)
(* from another, and a stream is read from the beginning of a packet.        *)
TransportInv ==
    /\ TypeOK /\ SlotsPointHome /\ NoDescriptorLeak
    /\ OwnEnds /\ QueuesInOrder /\ OneCopy

(* A slot does not stay for ever with a connection that its peer has closed *)
(* (it restarted, or took the other of two simultaneous connections), so a  *)
(* sender does not keep writing to nobody.                                  *)
Stale(p, k) ==
    /\ slots[p][k] \in active[p]
    /\ State(Opposite(table[p][slots[p][k]])) = "closed"
StaleSlotCleared == \A p \in Process, k \in Addresses : []<>(~ Stale(p, k))

(* The packets that may still arrive. *)
OnWire ==
    {m \in UNION {Range(Queue(e)) : e \in End} : m.n # 0}
        \cup {sending[p].pkt : p \in {q \in Process : sending[q] # None}}

Net == INSTANCE LossyNetwork WITH wire <- OnWire

(* Connections that break in the middle of a packet, cross each other or    *)
(* are replaced never corrupt, duplicate or misdirect a packet.             *)
ImplementsLossyNetwork == Net!Spec
=============================================================================
