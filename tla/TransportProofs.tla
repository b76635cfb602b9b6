-------------------------- MODULE TransportProofs --------------------------
(***************************************************************************)
(* For any number of nodes, clients, descriptors and connections: slots    *)
(* lead to the right process, no descriptor is lost, and packets arrive    *)
(* whole, at most once and where they were sent.                           *)
(***************************************************************************)
EXTENDS Transport, NaturalsInduction, WellFoundedInduction, FiniteSetTheorems, TLAPS

-----------------------------------------------------------------------------
(* Ends *)

LEMMA Ends ==
    ASSUME NEW e \in End
    PROVE  /\ Opposite(e) \in End /\ Opposite(e) # e
           /\ Opposite(Opposite(e)) = e
<1>1. PICK c \in Connection, i \in {1, 2} : e = <<c, i>>
  BY DEF End
<1>2. Opposite(e) = <<c, 3 - i>>
  BY <1>1 DEF Opposite
<1>3. 3 - i \in {1, 2} /\ 3 - i # i /\ 3 - (3 - i) = i
  OBVIOUS
<1>4. Opposite(e) \in End
  BY <1>2, <1>3 DEF End
<1>5. Opposite(e) # e
  BY <1>1, <1>2, <1>3
<1>6. Opposite(Opposite(e)) = <<c, 3 - (3 - i)>>
  BY <1>2 DEF Opposite
<1>7. QED
  BY <1>1, <1>3, <1>4, <1>5, <1>6

LEMMA EndPairs ==
    ASSUME NEW c \in Connection
    PROVE  /\ <<c, 1>> \in End /\ <<c, 2>> \in End /\ <<c, 1>> # <<c, 2>>
           /\ Opposite(<<c, 1>>) = <<c, 2>> /\ Opposite(<<c, 2>>) = <<c, 1>>
BY DEF End, Opposite

(* The smallest of a set of numbers is one of them. *)
LEMMA Smallest ==
    ASSUME NEW S \in SUBSET Nat, S # {}
    PROVE  Min(S) \in S
<1>1. IsWellFoundedOn(OpToRel(<, Nat), Nat)
  BY NatLessThanWellFounded
<1>2. PICK x \in S : \A y \in S : ~ (<<y, x>> \in OpToRel(<, Nat))
  BY <1>1, WFMin
<1>3. \A a, b \in Nat : a < b => <<a, b>> \in OpToRel(<, Nat)
  BY Zenon DEF OpToRel
<1>4. \A y \in S : ~ (y < x)
  BY <1>2, <1>3, Zenon
<1>5. \A y \in S : x =< y
  BY <1>4
<1>6. (CHOOSE m \in S : \A y \in S : m =< y) \in S
  BY <1>5
<1>7. QED
  BY <1>6 DEF Min

(* The states of an end, and what closing ends does to them. *)
EndType == [who : Process \cup {None}, queue : Seq(Packet),
            up : {"open", "waiting", "backlog", "closed"}]

LEMMA UnusedType == Unused \in EndType
<1>1. <<>> \in Seq(Packet)
  OBVIOUS
<1>2. QED
  BY <1>1 DEF Unused, EndType

LEMMA CloseOne ==
    ASSUME NEW cs \in [End -> EndType], NEW ends \in SUBSET End, NEW e \in End
    PROVE  LET new == CloseEnds(cs, ends)
               o == Opposite(e)
           IN  /\ new[e] \in EndType
               /\ \/ new[e] = Unused /\ new[o] = Unused
                  \/ new[e].who = cs[e].who /\ new[o].who = cs[o].who
               /\ new[e] = Unused \/ new[e].queue = <<>> \/ new[e] = cs[e]
               /\ e \notin ends /\ cs[e].up = "open" => new[e] = cs[e] /\ new[o].who = cs[o].who
               /\ new[e].up = "closed" \/ (new[e] = cs[e] /\ e \notin ends)
               /\ cs[e].up = "closed" => new[e].up = "closed"
<1> DEFINE new == CloseEnds(cs, ends)
           o == Opposite(e)
           Left(x) == x \notin ends /\ cs[x].up \in {"open", "backlog"}
           Gone(x) == {x, Opposite(x)} \cap ends # {} /\ ~ Left(x) /\ ~ Left(Opposite(x))
           Shut(x) == [cs[x] EXCEPT !.up = "closed", !.queue = <<>>]
<1>1. ASSUME NEW x \in End
      PROVE  new[x] = IF Gone(x) THEN Unused ELSE IF x \in ends THEN Shut(x) ELSE cs[x]
  BY DEF CloseEnds
<1>2. ASSUME NEW x \in End
      PROVE  Shut(x) \in EndType /\ Shut(x).who = cs[x].who /\ Shut(x).up = "closed" /\ Shut(x).queue = <<>>
  <2>1. cs[x] \in EndType /\ <<>> \in Seq(Packet)
    OBVIOUS
  <2>2. QED
    BY <2>1 DEF EndType
<1>3. Unused.up = "closed"
  BY DEF Unused
<1>4. o \in End /\ Opposite(o) = e
  BY Ends
<1>5. Gone(o) <=> Gone(e)
  BY <1>4
<1>6. e \notin ends /\ cs[e].up = "open" => ~ Gone(e)
  OBVIOUS
<1> HIDE DEF new, Shut, Gone, Left, o
<1>7. CASE Gone(e)
  <2>1. new[e] = Unused /\ new[o] = Unused
    BY <1>1, <1>4, <1>5, <1>7
  <2>2. QED
    BY <1>3, <1>6, <1>7, <2>1, UnusedType DEF new, o
<1>8. CASE ~ Gone(e) /\ e \in ends
  <2>1. new[e] = Shut(e) /\ new[o] \in {Shut(o), cs[o]}
    BY <1>1, <1>4, <1>5, <1>8
  <2>2. new[o].who = cs[o].who
    BY <1>2, <1>4, <2>1
  <2>3. QED
    BY <1>2, <1>8, <2>1, <2>2 DEF new, o
<1>9. CASE ~ Gone(e) /\ e \notin ends
  <2>1. new[e] = cs[e] /\ new[o] \in {Shut(o), cs[o]}
    BY <1>1, <1>4, <1>5, <1>9
  <2>2. new[o].who = cs[o].who
    BY <1>2, <1>4, <2>1
  <2>3. QED
    BY <1>9, <2>1, <2>2 DEF new, o
<1>10. QED
  BY <1>7, <1>8, <1>9

LEMMA CloseType ==
    ASSUME NEW cs \in [End -> EndType], NEW ends \in SUBSET End
    PROVE  CloseEnds(cs, ends) \in [End -> EndType]
<1>1. \A e \in End : CloseEnds(cs, ends)[e] \in EndType
  BY CloseOne
<1>2. QED
  BY <1>1 DEF CloseEnds


-----------------------------------------------------------------------------
(* The invariant, process by process and end by end. *)

Local(p) ==
    /\ \A k \in Addresses : slots[p][k] # None =>
          table[p][slots[p][k]] # None /\ FarAddress(table[p][slots[p][k]]) = k
    /\ \A fd \in active[p] : table[p][fd] # None
    /\ sending[p] # None => slots[p][sending[p].pkt.dst] = sending[p].fd
    /\ \A fd \in Fd : table[p][fd] # None =>
          /\ fd \in active[p] \/ \E k \in Addresses : slots[p][k] = fd
          /\ State(table[p][fd]) = "open" /\ conns[table[p][fd]].who = p
          /\ \A other \in Fd \ {fd} : table[p][other] # table[p][fd]

InOrder(cs, e) ==
    \A k \in DOMAIN cs[e].queue :
        /\ cs[e].queue[k].src = Address(cs[Opposite(e)].who)
        /\ cs[e].queue[k].dst = Address(cs[e].who)
        /\ cs[e].queue[k].n = 0 => k = Len(cs[e].queue) /\ cs[Opposite(e)].up = "closed"

LEMMA Parts ==
    TransportInv <=> /\ TypeOK /\ OneCopy
                     /\ \A p \in Process : Local(p)
                     /\ \A e \in End : InOrder(conns, e)
<1>1. QueuesInOrder <=> \A e \in End : InOrder(conns, e)
  BY DEF QueuesInOrder, InOrder, Queue, State, FarAddress
<1>2. SlotsPointHome /\ NoDescriptorLeak /\ OwnEnds <=> \A p \in Process : Local(p)
  <2>1. \A p \in Process : \A fd \in Fd : fd \in Fd \ FreeFds(p) <=> table[p][fd] # None
    BY DEF FreeFds
  <2>2. ASSUME SlotsPointHome, NoDescriptorLeak, OwnEnds, NEW p \in Process PROVE Local(p)
    BY <2>1, <2>2 DEF SlotsPointHome, NoDescriptorLeak, OwnEnds, Local
  <2>3. ASSUME \A p \in Process : Local(p) PROVE SlotsPointHome /\ NoDescriptorLeak /\ OwnEnds
    BY <2>1, <2>3 DEF SlotsPointHome, NoDescriptorLeak, OwnEnds, Local
  <2>4. QED
    BY <2>2, <2>3
<1>3. QED
  BY <1>1, <1>2 DEF TransportInv

LEMMA PartsNext ==
    TransportInv' <=> /\ TypeOK' /\ OneCopy'
                      /\ \A p \in Process : Local(p)'
                      /\ \A e \in End : InOrder(conns', e)
<1>1. QueuesInOrder' <=> \A e \in End : InOrder(conns', e)
  BY DEF QueuesInOrder, InOrder, Queue, State, FarAddress
<1>2. (SlotsPointHome /\ NoDescriptorLeak /\ OwnEnds)' <=> \A p \in Process : Local(p)'
  <2>1. \A p \in Process : \A fd \in Fd : fd \in Fd \ FreeFds(p)' <=> table'[p][fd] # None
    BY DEF FreeFds
  <2>2. ASSUME SlotsPointHome', NoDescriptorLeak', OwnEnds', NEW p \in Process PROVE Local(p)'
    BY <2>1, <2>2 DEF SlotsPointHome, NoDescriptorLeak, OwnEnds, Local
  <2>3. ASSUME \A p \in Process : Local(p)' PROVE (SlotsPointHome /\ NoDescriptorLeak /\ OwnEnds)'
    BY <2>1, <2>3 DEF SlotsPointHome, NoDescriptorLeak, OwnEnds, Local
  <2>4. QED
    BY <2>2, <2>3
<1>3. QED
  BY <1>1, <1>2 DEF TransportInv

(* What the variables are, without the definitions of their types. *)
LEMMA Types ==
    ASSUME TypeOK
    PROVE  /\ conns \in [End -> EndType]
           /\ \A e \in End : Len(conns[e].queue) <= Capacity /\ conns[e].queue \in Seq(Packet)
           /\ table \in [Process -> [Fd -> End \cup {None}]]
           /\ slots \in [Process -> [Addresses -> Fd \cup {None}]]
           /\ active \in [Process -> SUBSET Fd]
           /\ sending \in [Process -> [fd : Fd, pkt : Packet] \cup {None}]
           /\ sends \in Nat
           /\ \A p \in Process : \A fd \in Fd : table[p][fd] # None => table[p][fd] \in End
<1>1. conns \in [End -> EndType] /\ \A e \in End : Len(conns[e].queue) <= Capacity
  BY DEF TypeOK, EndType, Queue
<1>2. \A e \in End : conns[e].queue \in Seq(Packet)
  BY <1>1 DEF EndType
<1>3. table \in [Process -> [Fd -> End \cup {None}]]
  BY DEF TypeOK
<1>4. \A p \in Process : \A fd \in Fd : table[p][fd] # None => table[p][fd] \in End
  BY <1>3
<1>5. QED
  BY <1>1, <1>2, <1>3, <1>4 DEF TypeOK


-----------------------------------------------------------------------------
(* Queues that packets only leave, at either side *)

Shrinks(old, new) ==
    \E d \in {0, 1} :
        /\ Len(new) + d <= Len(old)
        /\ \A k \in 1 .. Len(new) : new[k] = old[k + d]

LEMMA ShrinkCases ==
    ASSUME NEW s \in Seq(Packet)
    PROVE  /\ Shrinks(s, s) /\ Shrinks(s, <<>>)
           /\ s # <<>> => /\ Shrinks(s, Tail(s)) /\ Tail(s) \in Seq(Packet) /\ Len(Tail(s)) <= Len(s)
                          /\ Shrinks(s, Front(s)) /\ Front(s) \in Seq(Packet) /\ Len(Front(s)) <= Len(s)
<1>1. Shrinks(s, s)
  BY DEF Shrinks
<1>2. Shrinks(s, <<>>)
  <2>1. <<>> \in Seq(Packet) /\ Len(<<>>) = 0 /\ Len(s) \in Nat
    OBVIOUS
  <2>2. QED
    BY <2>1 DEF Shrinks
<1>3. ASSUME s # <<>>
      PROVE  Shrinks(s, Tail(s)) /\ Tail(s) \in Seq(Packet) /\ Len(Tail(s)) <= Len(s)
  <2>1. /\ Tail(s) \in Seq(Packet) /\ Len(Tail(s)) = Len(s) - 1 /\ Len(s) \in Nat
        /\ \A k \in 1 .. Len(s) - 1 : Tail(s)[k] = s[k + 1]
    BY <1>3
  <2>2. QED
    BY <2>1 DEF Shrinks
<1>4. ASSUME s # <<>>
      PROVE  Shrinks(s, Front(s)) /\ Front(s) \in Seq(Packet) /\ Len(Front(s)) <= Len(s)
  <2> DEFINE f == SubSeq(s, 1, Len(s) - 1)
  <2>1. Len(s) \in Nat /\ Len(s) > 0
    BY <1>4
  <2>2. f \in Seq(Packet) /\ Len(f) = Len(s) - 1 /\ \A k \in 1 .. Len(s) - 1 : f[k] = s[k]
    <3>1. f \in Seq(Packet)
      BY <2>1
    <3>2. Len(f) = Len(s) - 1
      BY <2>1
    <3>3. \A k \in 1 .. Len(s) - 1 : f[k] = s[k]
      BY <2>1
    <3>4. QED
      BY <3>1, <3>2, <3>3
  <2> HIDE DEF f
  <2>3. Shrinks(s, f)
    BY <2>1, <2>2 DEF Shrinks
  <2>4. f = Front(s)
    BY DEF f, Front
  <2>5. QED
    BY <2>1, <2>2, <2>3, <2>4
<1>5. QED
  BY <1>1, <1>2, <1>3, <1>4

Quiet(cs, ds, e) ==
    /\ Shrinks(cs[e].queue, ds[e].queue)
    /\ \/ ds[e].queue = <<>>
       \/ /\ ds[e].who = cs[e].who /\ ds[Opposite(e)].who = cs[Opposite(e)].who
          /\ cs[Opposite(e)].up = "closed" => ds[Opposite(e)].up = "closed"

LEMMA QuietInOrder ==
    ASSUME NEW cs \in [End -> EndType], NEW ds \in [End -> EndType], NEW e \in End,
           Quiet(cs, ds, e), InOrder(cs, e)
    PROVE  InOrder(ds, e)
<1>1. cs[e].queue \in Seq(Packet) /\ ds[e].queue \in Seq(Packet)
  BY DEF EndType
<1>2. SUFFICES ASSUME NEW k \in DOMAIN ds[e].queue
               PROVE  /\ ds[e].queue[k].src = Address(ds[Opposite(e)].who)
                      /\ ds[e].queue[k].dst = Address(ds[e].who)
                      /\ ds[e].queue[k].n = 0 => k = Len(ds[e].queue) /\ ds[Opposite(e)].up = "closed"
  BY DEF InOrder
<1>3. k \in 1 .. Len(ds[e].queue) /\ ds[e].queue # <<>>
  BY <1>1
<1>4. /\ ds[e].who = cs[e].who /\ ds[Opposite(e)].who = cs[Opposite(e)].who
      /\ cs[Opposite(e)].up = "closed" => ds[Opposite(e)].up = "closed"
  BY <1>3 DEF Quiet
<1>5. PICK d \in {0, 1} : /\ Len(ds[e].queue) + d <= Len(cs[e].queue)
                          /\ ds[e].queue[k] = cs[e].queue[k + d]
  BY <1>3 DEF Quiet, Shrinks
<1>6. k + d \in DOMAIN cs[e].queue
  BY <1>1, <1>3, <1>5
<1>7. /\ cs[e].queue[k + d].src = Address(cs[Opposite(e)].who)
      /\ cs[e].queue[k + d].dst = Address(cs[e].who)
      /\ cs[e].queue[k + d].n = 0 => k + d = Len(cs[e].queue) /\ cs[Opposite(e)].up = "closed"
  BY <1>6 DEF InOrder
<1>8. k + d = Len(cs[e].queue) => k = Len(ds[e].queue)
  BY <1>1, <1>3, <1>5
<1>9. QED
  BY <1>4, <1>5, <1>7, <1>8

(* An end whose queue and both names are as they were. *)
LEMMA SameQuiet ==
    ASSUME NEW cs \in [End -> EndType], NEW ds, NEW e \in End,
           ds[e].queue = cs[e].queue, ds[e].who = cs[e].who,
           ds[Opposite(e)].who = cs[Opposite(e)].who,
           cs[Opposite(e)].up = "closed" => ds[Opposite(e)].up = "closed"
    PROVE  Quiet(cs, ds, e)
<1>1. cs[e].queue \in Seq(Packet)
  BY DEF EndType
<1>2. QED
  BY <1>1, ShrinkCases DEF Quiet

(* So is closing ends, also after such a step. *)
LEMMA ClosedQuiet ==
    ASSUME NEW cs \in [End -> EndType], NEW ds \in [End -> EndType], NEW ends \in SUBSET End,
           NEW e \in End, Quiet(cs, ds, e)
    PROVE  Quiet(cs, CloseEnds(ds, ends), e)
<1> DEFINE new == CloseEnds(ds, ends)
           o == Opposite(e)
<1>1. cs[e].queue \in Seq(Packet) /\ ds[e].queue \in Seq(Packet) /\ o \in End
  BY Ends DEF EndType
<1>2. Unused.queue = <<>>
  BY DEF Unused
<1>3. /\ \/ new[e] = Unused /\ new[o] = Unused
         \/ new[e].who = ds[e].who /\ new[o].who = ds[o].who
      /\ new[e] = Unused \/ new[e].queue = <<>> \/ new[e] = ds[e]
      /\ ds[o].up = "closed" => new[o].up = "closed"
  BY <1>1, CloseOne
<1> HIDE DEF new, o
<1>4. /\ Shrinks(cs[e].queue, ds[e].queue)
      /\ \/ ds[e].queue = <<>>
         \/ /\ ds[e].who = cs[e].who /\ ds[o].who = cs[o].who
            /\ cs[o].up = "closed" => ds[o].up = "closed"
  BY DEF Quiet, o
<1>5. CASE new[e].queue = <<>>
  BY <1>1, <1>5, ShrinkCases DEF Quiet, new, o
<1>6. CASE new[e].queue # <<>>
  <2>1. new[e] = ds[e] /\ new[e].who = ds[e].who /\ new[o].who = ds[o].who /\ ds[e].queue # <<>>
    BY <1>2, <1>3, <1>6
  <2>2. QED
    BY <1>3, <1>4, <2>1 DEF Quiet, new, o
<1>7. QED
  BY <1>5, <1>6

LEMMA CloseQuiet ==
    ASSUME NEW cs \in [End -> EndType], NEW ends \in SUBSET End, NEW e \in End
    PROVE  Quiet(cs, CloseEnds(cs, ends), e)
BY SameQuiet, ClosedQuiet

-----------------------------------------------------------------------------
(* Copies of packets *)

Fewer(old, new) ==
    \E d \in {0, 1} : \A k \in DOMAIN new :
        new[k].n = 0 \/ (k + d \in DOMAIN old /\ new[k] = old[k + d])

LEMMA QuietFewer ==
    ASSUME NEW cs \in [End -> EndType], NEW ds \in [End -> EndType], NEW e \in End,
           Quiet(cs, ds, e)
    PROVE  Fewer(cs[e].queue, ds[e].queue)
<1> DEFINE Q == cs[e].queue
           R == ds[e].queue
<1>1. Q \in Seq(Packet) /\ R \in Seq(Packet)
  BY DEF EndType
<1>2. PICK d \in {0, 1} : Len(R) + d <= Len(Q) /\ \A k \in 1 .. Len(R) : R[k] = Q[k + d]
  BY DEF Quiet, Shrinks
<1>3. DOMAIN R = 1 .. Len(R) /\ DOMAIN Q = 1 .. Len(Q) /\ Len(R) \in Nat /\ Len(Q) \in Nat
  BY <1>1
<1>4. \A k \in DOMAIN R : k + d \in DOMAIN Q
  BY <1>2, <1>3
<1>5. QED
  BY <1>2, <1>3, <1>4 DEF Fewer

SendStep(p, s) ==
    \/ sending'[p] \in {sending[p], None}
    \/ /\ p = s /\ sends' = sends + 1
       /\ sending'[p].pkt.n = sends' /\ sending'[p].pkt.src = Address(p)

(* Packets leave queues or are cut off, sends are given up, and at most one *)
(* process takes up a new one.                                              *)
LEMMA CopiesShrink ==
    ASSUME TypeOK, OneCopy, conns' \in [End -> EndType], NEW s,
           sends' \in Nat, sends' >= sends,
           \A e \in End : Fewer(conns[e].queue, conns'[e].queue),
           \A p \in Process : SendStep(p, s)
    PROVE  OneCopy'
<1> DEFINE Q(e) == conns[e].queue
           R(e) == conns'[e].queue
           Busy(p) == sending'[p] # None
           N(p) == sending'[p].pkt.n
<1>1. \A e \in End : Q(e) \in Seq(Packet) /\ R(e) \in Seq(Packet)
  BY Types DEF EndType
<1>2. ASSUME NEW e \in End
      PROVE  \E d \in {0, 1} : \A k \in DOMAIN R(e) :
                R(e)[k].n = 0 \/ (k + d \in DOMAIN Q(e) /\ R(e)[k] = Q(e)[k + d])
  BY DEF Fewer
<1>3. /\ \A e, f \in End : \A j \in DOMAIN Q(e), k \in DOMAIN Q(f) :
           Q(e)[j].n # 0 /\ Q(e)[j].n = Q(f)[k].n => e = f /\ j = k
      /\ \A e \in End : \A k \in DOMAIN Q(e) : Q(e)[k].n <= sends
      /\ \A p \in Process : sending[p] # None =>
           /\ sending[p].pkt.src = Address(p) /\ sending[p].pkt.n \in 1 .. sends
           /\ \A q \in Process \ {p} : sending[q] # None => sending[q].pkt.n # sending[p].pkt.n
           /\ \A e \in End : \A k \in DOMAIN Q(e) : Q(e)[k].n # sending[p].pkt.n
  BY DEF OneCopy, Queue
<1>4. \A e \in End : \A k \in DOMAIN Q(e) : Q(e)[k].n \in Nat
  <2>1. \A e \in End : \A k \in DOMAIN Q(e) : Q(e)[k] \in Packet
    BY <1>1
  <2>2. \A m \in Packet : m.n \in Nat
    BY DEF Packet
  <2>3. QED
    BY <2>1, <2>2
<1>5. sends \in Nat
  BY Types
<1> HIDE DEF Q, R
<1>6. ASSUME NEW e \in End, NEW f \in End, NEW j \in DOMAIN R(e), NEW k \in DOMAIN R(f),
             R(e)[j].n # 0, R(e)[j].n = R(f)[k].n
      PROVE  e = f /\ j = k
  <2>1. PICK d \in {0, 1} : \A x \in DOMAIN R(e) :
                R(e)[x].n = 0 \/ (x + d \in DOMAIN Q(e) /\ R(e)[x] = Q(e)[x + d])
    BY <1>2
  <2>2. PICK c \in {0, 1} : \A x \in DOMAIN R(f) :
                R(f)[x].n = 0 \/ (x + c \in DOMAIN Q(f) /\ R(f)[x] = Q(f)[x + c])
    BY <1>2
  <2>3. /\ j + d \in DOMAIN Q(e) /\ R(e)[j] = Q(e)[j + d]
        /\ k + c \in DOMAIN Q(f) /\ R(f)[k] = Q(f)[k + c]
    BY <1>6, <2>1, <2>2
  <2>4. e = f
    BY <1>3, <1>6, <2>3
  <2>5. k + d \in DOMAIN Q(e) /\ R(e)[k] = Q(e)[k + d]
    BY <1>6, <2>1, <2>4
  <2>6. j + d = k + d
    BY <1>3, <1>6, <2>3, <2>4, <2>5
  <2>7. j \in Int /\ k \in Int
    BY <1>1, <2>4
  <2>8. QED
    BY <2>4, <2>6, <2>7
<1>7. ASSUME NEW e \in End, NEW k \in DOMAIN R(e)
      PROVE  /\ R(e)[k].n \in Nat /\ R(e)[k].n <= sends
             /\ \A p \in Process : sending[p] # None => R(e)[k].n # sending[p].pkt.n
  <2>1. CASE R(e)[k].n = 0
    BY <1>3, <1>5, <2>1
  <2>2. CASE R(e)[k].n # 0
    <3>1. PICK j \in DOMAIN Q(e) : R(e)[k] = Q(e)[j]
      BY <1>2, <2>2
    <3>2. QED
      BY <1>3, <1>4, <3>1
  <2>3. QED
    BY <2>1, <2>2
<1>8. ASSUME NEW p \in Process, Busy(p)
      PROVE  /\ sending'[p].pkt.src = Address(p) /\ N(p) \in 1 .. sends'
             /\ \A q \in Process \ {p} : Busy(q) => N(q) # N(p)
             /\ \A e \in End : \A k \in DOMAIN R(e) : R(e)[k].n # N(p)
  <2>1. \A q \in Process : Busy(q) /\ q # s => sending'[q] = sending[q]
    BY DEF SendStep
  <2>2. CASE sending'[p] = sending[p]
    <3>1. /\ sending'[p].pkt.src = Address(p) /\ N(p) \in 1 .. sends
          /\ \A e \in End : \A k \in DOMAIN R(e) : R(e)[k].n # N(p)
      BY <1>3, <1>7, <1>8, <2>2
    <3>2. ASSUME NEW q \in Process \ {p}, Busy(q) PROVE N(q) # N(p)
      <4>1. CASE sending'[q] = sending[q]
        BY <1>3, <1>8, <2>2, <3>2, <4>1
      <4>2. CASE sending'[q] # sending[q]
        <5>1. N(q) = sends + 1
          BY <3>2, <4>2 DEF SendStep
        <5>2. QED
          BY <1>5, <3>1, <5>1
      <4>3. QED
        BY <4>1, <4>2
    <3>3. QED
      BY <1>5, <3>1, <3>2
  <2>3. CASE sending'[p] # sending[p]
    <3>1. p = s /\ sends' = sends + 1 /\ N(p) = sends' /\ sending'[p].pkt.src = Address(p)
      BY <1>8, <2>3 DEF SendStep
    <3>2. ASSUME NEW q \in Process \ {p}, Busy(q) PROVE N(q) # N(p)
      <4>1. sending'[q] = sending[q]
        BY <2>1, <3>1, <3>2
      <4>2. N(q) \in 1 .. sends
        BY <1>3, <3>2, <4>1
      <4>3. QED
        BY <1>5, <3>1, <4>2
    <3>3. \A e \in End : \A k \in DOMAIN R(e) : R(e)[k].n # N(p)
      BY <1>5, <1>7, <3>1
    <3>4. QED
      BY <1>5, <3>1, <3>2, <3>3
  <2>4. QED
    BY <2>2, <2>3
<1>9. \A e \in End : \A k \in DOMAIN R(e) : R(e)[k].n <= sends'
  BY <1>5, <1>7
<1>10. QED
  BY <1>6, <1>8, <1>9 DEF OneCopy, Queue, R


LEMMA EnqueueFacts ==
    ASSUME NEW cs \in [End -> EndType], NEW t \in End, NEW m \in Packet
    PROVE  LET ds == Enqueue(cs, t, m)
               n == Len(cs[t].queue)
           IN  /\ ds \in [End -> EndType] /\ n \in Nat
               /\ \A e \in End : ds[e].up = cs[e].up /\ ds[e].who = cs[e].who
               /\ \A e \in End : e # t => ds[e] = cs[e]
               /\ DOMAIN cs[t].queue = 1 .. n /\ DOMAIN ds[t].queue = 1 .. n + 1
               /\ Len(ds[t].queue) = n + 1
               /\ ds[t].queue[n + 1] = m
               /\ \A k \in 1 .. n : ds[t].queue[k] = cs[t].queue[k]
<1> DEFINE ds == Enqueue(cs, t, m)
           n == Len(cs[t].queue)
           q == Append(cs[t].queue, m)
<1>1. cs[t] \in EndType /\ cs[t].queue \in Seq(Packet)
  BY DEF EndType
<1>2. /\ q \in Seq(Packet) /\ Len(q) = n + 1 /\ n \in Nat
      /\ q[n + 1] = m /\ \A k \in 1 .. n : q[k] = cs[t].queue[k]
  BY <1>1
<1>3. DOMAIN cs[t].queue = 1 .. n /\ DOMAIN q = 1 .. n + 1
  BY <1>1, <1>2
<1>4. ds = [cs EXCEPT ![t] = [cs[t] EXCEPT !.queue = q]]
  BY DEF Enqueue
<1> HIDE DEF q, n
<1>5. LET r == [cs[t] EXCEPT !.queue = q]
      IN  r \in EndType /\ r.queue = q /\ r.up = cs[t].up /\ r.who = cs[t].who
  BY <1>1, <1>2 DEF EndType
<1>6. /\ ds \in [End -> EndType]
      /\ ds[t].queue = q /\ ds[t].up = cs[t].up /\ ds[t].who = cs[t].who
      /\ \A e \in End : e # t => ds[e] = cs[e]
  BY <1>4, <1>5
<1> HIDE DEF ds
<1>7. \A e \in End : ds[e].up = cs[e].up /\ ds[e].who = cs[e].who
  BY <1>6
<1>8. QED
  BY <1>2, <1>3, <1>6, <1>7 DEF ds, n

(* A whole packet goes from its sender into a queue. *)
LEMMA CopiesSend ==
    ASSUME TypeOK, OneCopy, NEW p \in Process, sending[p] # None, NEW t \in End,
           conns' = Enqueue(conns, t, sending[p].pkt), sends' = sends,
           sending' = [sending EXCEPT ![p] = None]
    PROVE  OneCopy'
<1> DEFINE m == sending[p].pkt
           Q(e) == conns[e].queue
           R(e) == conns'[e].queue
           n == Len(conns[t].queue)
<1>1. m \in Packet
  BY Types
<1>2. conns \in [End -> EndType]
  BY Types
<1>3. /\ n \in Nat /\ DOMAIN Q(t) = 1 .. n /\ DOMAIN R(t) = 1 .. n + 1
      /\ R(t)[n + 1] = m /\ \A k \in 1 .. n : R(t)[k] = Q(t)[k]
      /\ \A e \in End : e # t => R(e) = Q(e)
  BY <1>1, <1>2, EnqueueFacts
<1>4. /\ \A e, f \in End : \A j \in DOMAIN Q(e), k \in DOMAIN Q(f) :
           Q(e)[j].n # 0 /\ Q(e)[j].n = Q(f)[k].n => e = f /\ j = k
      /\ \A e \in End : \A k \in DOMAIN Q(e) : Q(e)[k].n <= sends
      /\ \A q \in Process : sending[q] # None =>
           /\ sending[q].pkt.src = Address(q) /\ sending[q].pkt.n \in 1 .. sends
           /\ \A r \in Process \ {q} : sending[r] # None => sending[r].pkt.n # sending[q].pkt.n
           /\ \A e \in End : \A k \in DOMAIN Q(e) : Q(e)[k].n # sending[q].pkt.n
  BY DEF OneCopy, Queue
<1>5. m.n \in 1 .. sends /\ sends \in Nat
  BY <1>4, Types
<1>6. \A q \in Process : sending'[q] # None => q # p /\ sending'[q] = sending[q]
  BY Types
<1> HIDE DEF Q, R, m, n
<1>7. ASSUME NEW e \in End, NEW k \in DOMAIN R(e)
      PROVE  \/ k \in DOMAIN Q(e) /\ R(e)[k] = Q(e)[k]
             \/ e = t /\ k = n + 1 /\ R(e)[k] = m
  <2>1. CASE e # t
    BY <1>3, <2>1
  <2>2. CASE e = t
    <3>1. k \in 1 .. n + 1
      BY <1>3, <2>2
    <3>2. k \in 1 .. n \/ k = n + 1
      BY <1>3, <3>1
    <3>3. QED
      BY <1>3, <2>2, <3>2
  <2>3. QED
    BY <2>1, <2>2
<1>8. \A e \in End : \A k \in DOMAIN Q(e) : Q(e)[k].n # m.n
  BY <1>4 DEF m
<1>9. ASSUME NEW e \in End, NEW f \in End, NEW j \in DOMAIN R(e), NEW k \in DOMAIN R(f),
             R(e)[j].n # 0, R(e)[j].n = R(f)[k].n
      PROVE  e = f /\ j = k
  <2>1. CASE j \in DOMAIN Q(e) /\ R(e)[j] = Q(e)[j]
    <3>1. k \in DOMAIN Q(f) /\ R(f)[k] = Q(f)[k]
      BY <1>7, <1>8, <1>9, <2>1
    <3>2. QED
      BY <1>4, <1>9, <2>1, <3>1
  <2>2. CASE e = t /\ j = n + 1 /\ R(e)[j] = m
    <3>1. f = t /\ k = n + 1
      BY <1>7, <1>8, <1>9, <2>2
    <3>2. QED
      BY <2>2, <3>1
  <2>3. QED
    BY <1>7, <2>1, <2>2
<1>10. ASSUME NEW e \in End, NEW k \in DOMAIN R(e) PROVE R(e)[k].n <= sends
  BY <1>4, <1>5, <1>7
<1>11. ASSUME NEW q \in Process, sending'[q] # None
       PROVE  /\ sending'[q].pkt.src = Address(q) /\ sending'[q].pkt.n \in 1 .. sends
              /\ \A r \in Process \ {q} : sending'[r] # None => sending'[r].pkt.n # sending'[q].pkt.n
              /\ \A e \in End : \A k \in DOMAIN R(e) : R(e)[k].n # sending'[q].pkt.n
  <2>1. q # p /\ sending'[q] = sending[q] /\ sending[q] # None
    BY <1>6, <1>11
  <2>2. sending[q].pkt.n # m.n
    BY <1>4, <2>1 DEF m
  <2>3. \A e \in End : \A k \in DOMAIN R(e) : R(e)[k].n # sending[q].pkt.n
    BY <1>4, <1>7, <2>1, <2>2
  <2>4. QED
    BY <1>4, <1>6, <2>1, <2>3
<1>12. QED
  BY <1>9, <1>10, <1>11 DEF OneCopy, Queue, R


-----------------------------------------------------------------------------
(* The wire of LossyNetwork *)

LEMMA WireMembers ==
    ASSUME NEW m
    PROVE  m \in OnWire <=>
              \/ m.n # 0 /\ \E e \in End : \E k \in DOMAIN conns[e].queue : m = conns[e].queue[k]
              \/ \E p \in Process : sending[p] # None /\ m = sending[p].pkt
<1>1. m \in UNION {Range(Queue(e)) : e \in End} <=>
        \E e \in End : \E k \in DOMAIN conns[e].queue : m = conns[e].queue[k]
  <2>1. \A e \in End : m \in Range(Queue(e)) <=> \E k \in DOMAIN conns[e].queue : m = conns[e].queue[k]
    BY Zenon DEF Range, Queue
  <2>2. m \in UNION {Range(Queue(e)) : e \in End} <=> \E e \in End : m \in Range(Queue(e))
    OBVIOUS
  <2>3. QED
    BY <2>1, <2>2, Zenon
<1>2. m \in {sending[p].pkt : p \in {q \in Process : sending[q] # None}} <=>
        \E p \in Process : sending[p] # None /\ m = sending[p].pkt
  BY Zenon
<1>3. QED
  BY <1>1, <1>2, Zenon DEF OnWire

LEMMA WireMembersNext ==
    ASSUME NEW m
    PROVE  m \in OnWire' <=>
              \/ m.n # 0 /\ \E e \in End : \E k \in DOMAIN conns'[e].queue : m = conns'[e].queue[k]
              \/ \E p \in Process : sending'[p] # None /\ m = sending'[p].pkt
<1>1. m \in UNION {Range(Queue(e)) : e \in End}' <=>
        \E e \in End : \E k \in DOMAIN conns'[e].queue : m = conns'[e].queue[k]
  <2>1. \A e \in End : m \in Range(Queue(e))' <=> \E k \in DOMAIN conns'[e].queue : m = conns'[e].queue[k]
    BY Zenon DEF Range, Queue
  <2>2. m \in UNION {Range(Queue(e)) : e \in End}' <=> \E e \in End : m \in Range(Queue(e))'
    OBVIOUS
  <2>3. QED
    BY <2>1, <2>2, Zenon
<1>2. m \in {sending[p].pkt : p \in {q \in Process : sending[q] # None}}' <=>
        \E p \in Process : sending'[p] # None /\ m = sending'[p].pkt
  BY Zenon
<1>3. QED
  BY <1>1, <1>2, Zenon DEF OnWire

(* Nothing comes on the wire but what the process s begins to send. *)
WireStep(s) ==
    \A m \in OnWire' : m \in OnWire \/ (s # None /\ sending'[s] # None /\ m = sending'[s].pkt)

LEMMA WireShrinks ==
    ASSUME NEW s, \A e \in End : Fewer(conns[e].queue, conns'[e].queue),
           \A p \in Process : SendStep(p, s)
    PROVE  WireStep(s)
<1>1. SUFFICES ASSUME NEW m \in OnWire'
               PROVE  m \in OnWire \/ (s # None /\ sending'[s] # None /\ m = sending'[s].pkt)
  BY DEF WireStep
<1>2. ASSUME m.n # 0, NEW e \in End, NEW k \in DOMAIN conns'[e].queue, m = conns'[e].queue[k]
      PROVE  m \in OnWire
  <2>1. PICK d \in {0, 1} : k + d \in DOMAIN conns[e].queue /\ m = conns[e].queue[k + d]
    BY <1>2 DEF Fewer
  <2>2. QED
    BY <1>2, <2>1, WireMembers
<1>3. ASSUME NEW p \in Process, sending'[p] # None, m = sending'[p].pkt
      PROVE  m \in OnWire \/ (s # None /\ sending'[s] # None /\ m = sending'[s].pkt)
  <2>1. CASE sending'[p] = sending[p]
    BY <1>3, <2>1, WireMembers
  <2>2. CASE sending'[p] # sending[p]
    BY <1>3, <2>2, NameAssumption DEF SendStep
  <2>3. QED
    BY <2>1, <2>2
<1>4. QED
  BY <1>2, <1>3, WireMembersNext

(* A packet that is written stays on the wire. *)
LEMMA WireMoves ==
    ASSUME TypeOK, NEW p \in Process, sending[p] # None, NEW t \in End, sending[p].pkt \in Packet,
           conns' = Enqueue(conns, t, sending[p].pkt), sending' = [sending EXCEPT ![p] = None]
    PROVE  WireStep(None)
<1> DEFINE n == Len(conns[t].queue)
<1>1. conns \in [End -> EndType]
  BY Types
<1>2. /\ n \in Nat /\ DOMAIN conns[t].queue = 1 .. n /\ DOMAIN conns'[t].queue = 1 .. n + 1
      /\ conns'[t].queue[n + 1] = sending[p].pkt
      /\ \A k \in 1 .. n : conns'[t].queue[k] = conns[t].queue[k]
      /\ \A e \in End : e # t => conns'[e] = conns[e]
  BY <1>1, EnqueueFacts
<1>3. \A q \in Process : sending'[q] # None => sending'[q] = sending[q]
  BY Types
<1> HIDE DEF n
<1>4. ASSUME NEW m \in OnWire' PROVE m \in OnWire
  <2>1. ASSUME m.n # 0, NEW e \in End, NEW k \in DOMAIN conns'[e].queue, m = conns'[e].queue[k]
        PROVE  m \in OnWire
    <3>1. CASE e # t
      BY <1>2, <2>1, <3>1, WireMembers
    <3>2. CASE e = t
      <4>1. k \in 1 .. n \/ k = n + 1
        BY <1>2, <2>1, <3>2
      <4>2. CASE k \in 1 .. n
        BY <1>2, <2>1, <3>2, <4>2, WireMembers
      <4>3. CASE k = n + 1
        BY <1>2, <2>1, <3>2, <4>3, WireMembers
      <4>4. QED
        BY <4>1, <4>2, <4>3
    <3>3. QED
      BY <3>1, <3>2
  <2>2. ASSUME NEW q \in Process, sending'[q] # None, m = sending'[q].pkt PROVE m \in OnWire
    BY <1>3, <2>2, WireMembers
  <2>3. QED
    BY <2>1, <2>2, WireMembersNext
<1>5. QED
  BY <1>4 DEF WireStep

-----------------------------------------------------------------------------
(* Descriptors of one process *)

(* The open end e stays as it is, and so does the name at its other side. *)
Firm(e) ==
    /\ conns'[e].up = "open" /\ conns'[e].who = conns[e].who
    /\ conns'[Opposite(e)].who = conns[Opposite(e)].who

LEMMA LocalFacts ==
    ASSUME TypeOK, NEW p \in Process, Local(p)
    PROVE  /\ \A k \in Addresses : slots[p][k] # None =>
                /\ slots[p][k] \in Fd /\ table[p][slots[p][k]] \in End
                /\ FarAddress(table[p][slots[p][k]]) = k
           /\ \A fd \in active[p] : fd \in Fd /\ table[p][fd] \in End
           /\ \A fd \in Fd : table[p][fd] # None =>
                /\ table[p][fd] \in End
                /\ State(table[p][fd]) = "open" /\ conns[table[p][fd]].who = p
<1>1. \A k \in Addresses : slots[p][k] # None => slots[p][k] \in Fd
  BY Types
<1>2. \A fd \in Fd : table[p][fd] # None => table[p][fd] \in End
  BY Types
<1>3. active[p] \subseteq Fd
  BY Types
<1>4. QED
  BY <1>1, <1>2, <1>3 DEF Local

(* A process that keeps its descriptors. *)
LEMMA LocalSame ==
    ASSUME TypeOK, NEW p \in Process, Local(p),
           table'[p] = table[p], slots'[p] = slots[p], active'[p] = active[p],
           sending'[p] # None => slots[p][sending'[p].pkt.dst] = sending'[p].fd,
           \A e \in End : State(e) = "open" /\ conns[e].who = p => Firm(e)
    PROVE  Local(p)'
<1>1. \A fd \in Fd : table[p][fd] # None =>
        /\ table[p][fd] \in End /\ Firm(table[p][fd])
        /\ State(table[p][fd]) = "open" /\ conns[table[p][fd]].who = p
  BY LocalFacts
<1>2. ASSUME NEW k \in Addresses, slots'[p][k] # None
      PROVE  table'[p][slots'[p][k]] # None /\ (FarAddress(table[p][slots[p][k]]) = k)'
  <2>1. slots[p][k] \in Fd /\ table[p][slots[p][k]] # None /\ FarAddress(table[p][slots[p][k]]) = k
    BY <1>2, Types DEF Local
  <2>2. QED
    BY <1>1, <2>1 DEF FarAddress, Firm
<1>3. ASSUME NEW fd \in Fd, table'[p][fd] # None
      PROVE  /\ fd \in active'[p] \/ \E k \in Addresses : slots'[p][k] = fd
             /\ conns'[table'[p][fd]].up = "open" /\ conns'[table'[p][fd]].who = p
             /\ \A other \in Fd \ {fd} : table'[p][other] # table'[p][fd]
  BY <1>1, <1>3 DEF Local, Firm
<1>4. \A fd \in active'[p] : table'[p][fd] # None
  BY DEF Local
<1>5. QED
  BY <1>2, <1>3, <1>4 DEF Local, State

(* What becomes of the slots when the descriptors fds are closed. *)
SlotsAfter(p, fds) ==
    /\ \A k \in Addresses :
          /\ slots'[p][k] # None =>
                /\ slots'[p][k] \in Fd \ fds /\ table[p][slots'[p][k]] # None
                /\ FarAddress(table[p][slots'[p][k]]) = k
          /\ slots[p][k] \in Fd \ fds => slots'[p][k] = slots[p][k]
    /\ slots' \in [Process -> [Addresses -> Fd \cup {None}]]
    /\ \A q \in Process : q # p => slots'[q] = slots[q]

(* A process that closes the descriptors fds and is not within a send. *)
LEMMA LocalClosed ==
    ASSUME TypeOK, NEW p \in Process, Local(p), NEW fds \in SUBSET Fd,
           Closed(p, fds), sending'[p] = None,
           \A e \in End : State(e) = "open" /\ conns[e].who = p /\ (\A fd \in fds : table[p][fd] # e) => Firm(e),
           SlotsAfter(p, fds)
    PROVE  Local(p)'
<1>1. /\ table'[p] = [fd \in Fd |-> IF fd \in fds THEN None ELSE table[p][fd]]
      /\ active'[p] = active[p] \ fds
  BY Types DEF Closed
<1>2. ASSUME NEW fd \in Fd, table'[p][fd] # None
      PROVE  /\ fd \notin fds /\ table'[p][fd] = table[p][fd] /\ table[p][fd] \in End
             /\ State(table[p][fd]) = "open" /\ conns[table[p][fd]].who = p
             /\ Firm(table[p][fd])
  <2>1. fd \notin fds /\ table'[p][fd] = table[p][fd]
    BY <1>1, <1>2
  <2>2. table[p][fd] \in End /\ State(table[p][fd]) = "open" /\ conns[table[p][fd]].who = p
    BY <1>2, <2>1, LocalFacts
  <2>3. \A other \in fds : table[p][other] # table[p][fd]
    BY <1>2, <2>1 DEF Local
  <2>4. QED
    BY <2>1, <2>2, <2>3
<1>3. ASSUME NEW k \in Addresses, slots'[p][k] # None
      PROVE  table'[p][slots'[p][k]] # None /\ (FarAddress(table[p][slots[p][k]]) = k)'
  <2> DEFINE fd == slots'[p][k]
  <2>1. fd \in Fd \ fds /\ table[p][fd] # None /\ FarAddress(table[p][fd]) = k
    BY <1>3 DEF SlotsAfter
  <2>2. table'[p][fd] # None /\ table'[p][fd] = table[p][fd]
    BY <1>1, <2>1
  <2>3. Firm(table[p][fd])
    BY <1>2, <2>1, <2>2
  <2>4. QED
    BY <2>1, <2>2, <2>3 DEF FarAddress, Firm
<1>4. ASSUME NEW fd \in Fd, table'[p][fd] # None
      PROVE  /\ fd \in active'[p] \/ \E k \in Addresses : slots'[p][k] = fd
             /\ conns'[table'[p][fd]].up = "open" /\ conns'[table'[p][fd]].who = p
             /\ \A other \in Fd \ {fd} : table'[p][other] # table'[p][fd]
  <2>1. fd \notin fds /\ table'[p][fd] = table[p][fd] /\ table[p][fd] # None
    BY <1>2, <1>4
  <2>2. fd \in active'[p] \/ \E k \in Addresses : slots'[p][k] = fd
    <3>1. fd \in active[p] \/ \E k \in Addresses : slots[p][k] = fd
      BY <2>1 DEF Local
    <3>2. QED
      BY <1>1, <2>1, <3>1 DEF SlotsAfter
  <2>3. conns'[table'[p][fd]].up = "open" /\ conns'[table'[p][fd]].who = p
    BY <1>2, <1>4 DEF Firm
  <2>4. ASSUME NEW other \in Fd \ {fd} PROVE table'[p][other] # table'[p][fd]
    <3>1. table[p][other] # table[p][fd] /\ table'[p][other] \in {None, table[p][other]}
      BY <1>1, <2>1 DEF Local
    <3>2. QED
      BY <2>1, <3>1
  <2>5. QED
    BY <2>2, <2>3, <2>4
<1>5. \A fd \in active'[p] : table'[p][fd] # None
  <2>1. ASSUME NEW fd \in active'[p] PROVE table'[p][fd] # None
    <3>1. fd \in active[p] /\ fd \notin fds /\ fd \in Fd
      BY <1>1, Types
    <3>2. table[p][fd] # None
      BY <3>1 DEF Local
    <3>3. QED
      BY <1>1, <3>1, <3>2
  <2>2. QED
    BY <2>1
<1>6. QED
  BY <1>3, <1>4, <1>5 DEF Local, State

(* What the new descriptor fd of p, for the end e, may do to the slots, and that it is
   either active or in a slot. *)
SlotsOpened(p, fd, e) ==
    /\ \A k \in Addresses :
          \/ slots'[p][k] = slots[p][k]
          \/ slots[p][k] = None /\ slots'[p][k] = fd /\ Address(conns'[Opposite(e)].who) = k
    /\ fd \in active'[p] \/ \E k \in Addresses : slots'[p][k] = fd
    /\ sending'[p] # None => slots'[p][sending'[p].pkt.dst] = sending'[p].fd

(* The open ends of p stay what they are. *)
OpenEndsFirm(p) ==
    \A x \in End : State(x) = "open" /\ conns[x].who = p => Firm(x)

(* A process that gets the descriptor fd of the new end e. *)
LEMMA LocalOpened ==
    ASSUME TypeOK, NEW p \in Process, Local(p), NEW fd \in Fd, NEW e \in End,
           table[p][fd] = None, State(e) # "open",
           table' = [table EXCEPT ![p][fd] = e],
           conns'[e].up = "open", conns'[e].who = p,
           active'[p] \in {active[p], active[p] \cup {fd}},
           OpenEndsFirm(p), SlotsOpened(p, fd, e)
    PROVE  Local(p)'
<1>0. /\ sending'[p] # None => slots'[p][sending'[p].pkt.dst] = sending'[p].fd
      /\ \A x \in End : State(x) = "open" /\ conns[x].who = p => Firm(x)
      /\ \A k \in Addresses :
            \/ slots'[p][k] = slots[p][k]
            \/ slots[p][k] = None /\ slots'[p][k] = fd /\ Address(conns'[Opposite(e)].who) = k
      /\ fd \in active'[p] \/ \E k \in Addresses : slots'[p][k] = fd
  BY DEF SlotsOpened, OpenEndsFirm
<1>1. table'[p][fd] = e /\ \A x \in Fd : x # fd => table'[p][x] = table[p][x]
  BY Types
<1>2. e # None
  BY NameAssumption
<1>3. ASSUME NEW x \in Fd, table[p][x] # None
      PROVE  /\ x # fd /\ table'[p][x] = table[p][x] /\ table[p][x] \in End /\ table[p][x] # e
             /\ conns[table[p][x]].who = p /\ Firm(table[p][x])
  <2>1. table[p][x] \in End /\ State(table[p][x]) = "open" /\ conns[table[p][x]].who = p
    BY <1>3, LocalFacts
  <2>2. QED
    BY <1>0, <1>1, <1>3, <2>1
<1>4. ASSUME NEW k \in Addresses, slots'[p][k] # None
      PROVE  table'[p][slots'[p][k]] # None /\ (FarAddress(table[p][slots[p][k]]) = k)'
  <2>1. CASE slots'[p][k] = slots[p][k]
    <3> DEFINE x == slots[p][k]
    <3>1. x \in Fd /\ table[p][x] # None /\ FarAddress(table[p][x]) = k
      BY <1>4, <2>1, Types DEF Local
    <3>2. table'[p][x] = table[p][x] /\ Firm(table[p][x])
      BY <1>3, <3>1
    <3>3. QED
      BY <2>1, <3>1, <3>2 DEF FarAddress, Firm
  <2>2. CASE slots'[p][k] # slots[p][k]
    BY <1>0, <1>1, <1>2, <1>4, <2>2 DEF FarAddress
  <2>3. QED
    BY <2>1, <2>2
<1>5. ASSUME NEW x \in Fd, table'[p][x] # None
      PROVE  /\ x \in active'[p] \/ \E k \in Addresses : slots'[p][k] = x
             /\ conns'[table'[p][x]].up = "open" /\ conns'[table'[p][x]].who = p
             /\ \A other \in Fd \ {x} : table'[p][other] # table'[p][x]
  <2>1. CASE x = fd
    <3>1. \A other \in Fd \ {fd} : table'[p][other] # e
      BY <1>1, <1>2, <1>3
    <3>2. QED
      BY <1>0, <1>1, <2>1, <3>1
  <2>2. CASE x # fd
    <3>1. table[p][x] # None
      BY <1>1, <1>5, <2>2
    <3>2. /\ x \in active[p] \/ \E k \in Addresses : slots[p][k] = x
          /\ \A other \in Fd \ {x} : table[p][other] # table[p][x]
      BY <3>1 DEF Local
    <3>3. x \in active'[p] \/ \E k \in Addresses : slots'[p][k] = x
      <4>1. \A k \in Addresses : slots[p][k] = x => slots'[p][k] = x
        BY <1>0, <3>1, NameAssumption
      <4>2. QED
        BY <3>2, <4>1
    <3>4. \A other \in Fd \ {x} : table'[p][other] # table'[p][x]
      BY <1>1, <1>3, <3>1, <3>2
    <3>5. QED
      BY <1>3, <3>1, <3>3, <3>4 DEF Firm
  <2>3. QED
    BY <2>1, <2>2
<1>6. ASSUME NEW x \in active'[p] PROVE table'[p][x] # None
  <2>1. x \in Fd /\ (x = fd \/ x \in active[p])
    BY Types
  <2>2. QED
    BY <1>1, <1>2, <1>3, <2>1 DEF Local
<1>7. QED
  BY <1>0, <1>4, <1>5, <1>6 DEF Local, State


-----------------------------------------------------------------------------
(* The actions *)

LEMMA ActiveBound ==
    ASSUME TypeOK, NEW p \in Process
    PROVE  /\ \A S \in SUBSET active[p] : Cardinality(S) <= MAX_CONNECTIONS
           /\ HasRoom(p) => \A fd \in Fd : Cardinality(active[p] \cup {fd}) <= MAX_CONNECTIONS
<1>1. IsFiniteSet(active[p])
  <2>1. IsFiniteSet(Fd)
    BY BoundAssumption, FS_Interval DEF Fd
  <2>2. QED
    BY <2>1, Types, FS_Subset
<1>2. Cardinality(active[p]) \in Nat /\ Cardinality(active[p]) <= MAX_CONNECTIONS
  BY <1>1, FS_CardinalityType DEF TypeOK
<1>3. ASSUME NEW S \in SUBSET active[p] PROVE Cardinality(S) <= MAX_CONNECTIONS
  <2>1. IsFiniteSet(S) /\ Cardinality(S) <= Cardinality(active[p])
    BY <1>1, FS_Subset
  <2>2. Cardinality(S) \in Nat
    BY <2>1, FS_CardinalityType
  <2>3. QED
    BY <1>2, <2>1, <2>2, BoundAssumption
<1>4. ASSUME HasRoom(p), NEW fd \in Fd PROVE Cardinality(active[p] \cup {fd}) <= MAX_CONNECTIONS
  <2>1. Cardinality(active[p] \cup {fd}) \in {Cardinality(active[p]), Cardinality(active[p]) + 1}
    BY <1>1, FS_AddElement
  <2>2. QED
    BY <1>2, <1>4, <2>1, BoundAssumption DEF HasRoom
<1>5. QED
  BY <1>3, <1>4

(* The types of what is not in the kernels. *)
LocalTypes ==
    /\ table \in [Process -> [Fd -> End \cup {None}]]
    /\ slots \in [Process -> [Addresses -> Fd \cup {None}]]
    /\ active \in [Process -> SUBSET Fd]
    /\ \A p \in Process : Cardinality(active[p]) <= MAX_CONNECTIONS
OtherTypes ==
    /\ sending \in [Process -> [fd : Fd, pkt : Packet] \cup {None}]
    /\ got \in [Process -> SUBSET Packet]
    /\ sends \in 0 .. MaxSends /\ crashes \in 0 .. MaxCrashes

LEMMA TypeStep ==
    ASSUME TypeOK, conns' \in [End -> EndType], LocalTypes', OtherTypes',
           \A e \in End : Len(conns'[e].queue) <= Capacity
    PROVE  TypeOK'
BY DEF TypeOK, LocalTypes, OtherTypes, EndType, Queue

(* Nothing is added to a queue. *)
LEMMA QuietStep ==
    ASSUME TransportInv, conns' \in [End -> EndType], LocalTypes', OtherTypes', sends' >= sends, NEW s,
           \A e \in End : Quiet(conns, conns', e),
           \A p \in Process : SendStep(p, s),
           \A p \in Process : Local(p)'
    PROVE  TransportInv' /\ WireStep(s)
<1>1. TypeOK /\ OneCopy /\ \A e \in End : InOrder(conns, e)
  BY Parts
<1>2. conns \in [End -> EndType]
  BY <1>1, Types
<1>3. \A e \in End : InOrder(conns', e)
  BY <1>1, <1>2, QuietInOrder
<1>4. ASSUME NEW e \in End PROVE Len(conns'[e].queue) <= Capacity
  <2>1. conns[e].queue \in Seq(Packet) /\ conns'[e].queue \in Seq(Packet) /\ Len(conns[e].queue) <= Capacity
    BY <1>1, Types DEF EndType
  <2>2. PICK d \in {0, 1} : Len(conns'[e].queue) + d <= Len(conns[e].queue)
    BY DEF Quiet, Shrinks
  <2>3. QED
    BY <2>1, <2>2, BoundAssumption
<1>5. TypeOK'
  BY <1>1, <1>4, TypeStep
<1>6. OneCopy' /\ WireStep(s)
  <2>1. \A e \in End : Fewer(conns[e].queue, conns'[e].queue)
    BY <1>2, QuietFewer
  <2>2. sends' \in Nat
    BY DEF OtherTypes
  <2>3. QED
    BY <1>1, <2>1, <2>2, CopiesShrink, WireShrinks
<1>7. QED
  BY <1>3, <1>5, <1>6, PartsNext

LEMMA TypesApart == ASSUME TypeOK PROVE LocalTypes /\ OtherTypes
BY DEF TypeOK, LocalTypes, OtherTypes

(* Only the kernels change, and no open end does. *)
LEMMA NetStep ==
    ASSUME TransportInv, UNCHANGED <<local, sending, got, sends, crashes>>,
           conns' \in [End -> EndType],
           \A e \in End : Quiet(conns, conns', e),
           \A e \in End : State(e) = "open" => Firm(e)
    PROVE  TransportInv' /\ WireStep(None)
<1>1. TypeOK /\ \A p \in Process : Local(p)
  BY Parts
<1>2. /\ table' = table /\ slots' = slots /\ active' = active
      /\ sending' = sending /\ got' = got /\ sends' = sends /\ crashes' = crashes
  BY DEF local
<1>3. LocalTypes' /\ OtherTypes' /\ sends' >= sends
  BY <1>1, <1>2, TypesApart, Types DEF LocalTypes, OtherTypes
<1>4. ASSUME NEW p \in Process PROVE Local(p)'
  <2>1. sending'[p] # None => slots[p][sending'[p].pkt.dst] = sending'[p].fd
    BY <1>1, <1>2 DEF Local
  <2>2. QED
    BY <1>1, <1>2, <2>1, LocalSame
<1>5. \A p \in Process : SendStep(p, None)
  BY <1>2 DEF SendStep
<1>6. QED
  BY <1>3, <1>4, <1>5, QuietStep

LEMMA HandshakeInv ==
    ASSUME TransportInv, NEW c \in Connection, Handshake(c) PROVE TransportInv' /\ WireStep(None)
<1> DEFINE t == <<c, 2>>
<1>1. TypeOK /\ conns \in [End -> EndType] /\ t \in End
  BY Parts, Types, EndPairs
<1>2. PICK s \in {"backlog", "closed"} : conns' = [conns EXCEPT ![t] = [conns[t] EXCEPT !.up = s]]
  BY DEF Handshake
<1>3. State(t) = "waiting" /\ UNCHANGED <<local, sending, got, sends, crashes>>
  BY DEF Handshake
<1> HIDE DEF t
<1>4. /\ [conns[t] EXCEPT !.up = s] \in EndType
      /\ [conns[t] EXCEPT !.up = s].who = conns[t].who
      /\ [conns[t] EXCEPT !.up = s].queue = conns[t].queue
  <2>1. conns[t] \in EndType
    BY <1>1
  <2>2. QED
    BY <2>1 DEF EndType
<1>5. /\ conns' \in [End -> EndType]
      /\ \A e \in End : conns'[e].who = conns[e].who /\ conns'[e].queue = conns[e].queue
      /\ \A e \in End : State(e) # "waiting" => conns'[e].up = conns[e].up
  BY <1>1, <1>2, <1>3, <1>4 DEF State
<1>6. ASSUME NEW e \in End PROVE Quiet(conns, conns', e)
  BY <1>1, <1>5, Ends, SameQuiet DEF State
<1>7. \A e \in End : State(e) = "open" => Firm(e)
  BY <1>5, Ends DEF Firm, State
<1>8. QED
  BY <1>3, <1>5, <1>6, <1>7, NetStep

LEMMA LoseTailInv ==
    ASSUME TransportInv, NEW t \in End, LoseTail(t) PROVE TransportInv' /\ WireStep(None)
<1> DEFINE q == Front(conns[t].queue)
           r == [conns[t] EXCEPT !.queue = q]
<1>1. TypeOK /\ conns \in [End -> EndType]
  BY Parts, Types
<1>2. /\ conns' = [conns EXCEPT ![t] = r] /\ conns[t].queue # <<>>
      /\ UNCHANGED <<local, sending, got, sends, crashes>>
  BY DEF LoseTail, Queue
<1>3. conns[t] \in EndType /\ conns[t].queue \in Seq(Packet)
  BY <1>1 DEF EndType
<1>4. q \in Seq(Packet) /\ Shrinks(conns[t].queue, q)
  BY <1>2, <1>3, ShrinkCases
<1> HIDE DEF q
<1>5. r \in EndType /\ r.who = conns[t].who /\ r.up = conns[t].up /\ r.queue = q
  BY <1>3, <1>4 DEF EndType
<1> HIDE DEF r
<1>6. /\ conns' \in [End -> EndType]
      /\ \A e \in End : conns'[e].who = conns[e].who /\ conns'[e].up = conns[e].up
      /\ \A e \in End : e # t => conns'[e] = conns[e]
      /\ conns'[t].queue = q
  BY <1>1, <1>2, <1>5
<1>7. ASSUME NEW e \in End PROVE Quiet(conns, conns', e)
  <2>1. CASE e # t
    BY <1>1, <1>6, <2>1, Ends, SameQuiet
  <2>2. CASE e = t
    BY <1>4, <1>6, <2>2, Ends DEF Quiet
  <2>3. QED
    BY <2>1, <2>2
<1>8. \A e \in End : State(e) = "open" => Firm(e)
  BY <1>6, Ends DEF Firm, State
<1>9. QED
  BY <1>2, <1>6, <1>7, <1>8, NetStep


(* The slot is used, or a connection made; the packet gets its number. *)
LEMMA StartSendInv ==
    ASSUME TransportInv, NEW p \in Process, NEW dst \in Addresses, StartSend(p, dst)
    PROVE  TransportInv' /\ WireStep(p)
<1> DEFINE m == [src |-> Address(p), dst |-> dst, n |-> sends + 1]
<1>1. TypeOK /\ \A q \in Process : Local(q)
  BY Parts
<1>2. /\ sending[p] = None /\ sends < MaxSends /\ sends' = sends + 1
      /\ got' = got /\ crashes' = crashes
  BY DEF StartSend
<1>3. sends \in 0 .. MaxSends /\ sends' \in 0 .. MaxSends /\ sends' >= sends
  BY <1>1, <1>2, BoundAssumption DEF TypeOK
<1>4. m \in Packet
  BY <1>3, <1>2 DEF Packet, Address, Addresses, Process
<1>5. m.n = sends' /\ m.src = Address(p) /\ m.dst = dst
  BY <1>2
<1> HIDE DEF m
<1>6. PICK fd : /\ sending' = [sending EXCEPT ![p] = [fd |-> fd, pkt |-> m]]
                /\ \/ fd = slots[p][dst] /\ fd # None /\ UNCHANGED <<conns, local>>
                   \/ /\ fd = Min(FreeFds(p)) /\ slots[p][dst] = None /\ dst \in Node
                      /\ FreeFds(p) # {} /\ FreeConns # {}
                      /\ connect_to_peer(p, fd, dst)
  BY DEF StartSend, m
<1>7. fd \in Fd /\ (FreeFds(p) # {} => Min(FreeFds(p)) \in FreeFds(p))
  <2>1. FreeFds(p) \in SUBSET Nat /\ FreeFds(p) \subseteq Fd
    BY BoundAssumption DEF FreeFds, Fd
  <2>2. FreeFds(p) # {} => Min(FreeFds(p)) \in FreeFds(p)
    BY <2>1, Smallest
  <2>3. slots[p][dst] # None => slots[p][dst] \in Fd
    BY <1>1, Types
  <2>4. QED
    BY <1>6, <2>1, <2>2, <2>3
<1>8. /\ sending' \in [Process -> [fd : Fd, pkt : Packet] \cup {None}]
      /\ sending'[p].fd = fd /\ sending'[p].pkt = m
      /\ \A q \in Process : q # p => sending'[q] = sending[q]
  <2>1. sending \in [Process -> [fd : Fd, pkt : Packet] \cup {None}]
    BY <1>1, Types
  <2>2. [fd |-> fd, pkt |-> m] \in [fd : Fd, pkt : Packet]
    BY <1>4, <1>7
  <2>3. QED
    BY <1>6, <2>1, <2>2
<1>9. OtherTypes'
  BY <1>1, <1>2, <1>3, <1>8 DEF OtherTypes, TypeOK
<1>10. \A q \in Process : SendStep(q, p)
  BY <1>2, <1>5, <1>8 DEF SendStep
<1>11. CASE fd = slots[p][dst] /\ fd # None /\ UNCHANGED <<conns, local>>
  <2>1. conns' = conns /\ table' = table /\ slots' = slots /\ active' = active
    BY <1>11 DEF local
  <2>2. conns \in [End -> EndType]
    BY <1>1, Types
  <2>3. \A e \in End : Quiet(conns, conns', e)
    BY <2>1, <2>2, SameQuiet
  <2>4. LocalTypes'
    BY <1>1, <2>1, TypesApart DEF LocalTypes
  <2>5. \A e \in End : State(e) = "open" => Firm(e)
    BY <2>1 DEF Firm, State
  <2>6. ASSUME NEW q \in Process PROVE Local(q)'
    <3>1. sending'[q] # None => slots[q][sending'[q].pkt.dst] = sending'[q].fd
      BY <1>1, <1>5, <1>8, <1>11 DEF Local
    <3>2. QED
      BY <1>1, <2>1, <2>5, <3>1, LocalSame
  <2>7. QED
    BY <1>3, <1>9, <1>10, <2>1, <2>2, <2>3, <2>4, <2>6, QuietStep
<1>12. CASE /\ fd = Min(FreeFds(p)) /\ slots[p][dst] = None /\ dst \in Node
            /\ FreeFds(p) # {} /\ FreeConns # {}
            /\ connect_to_peer(p, fd, dst)
  <2> DEFINE c == Min(FreeConns)
             near == <<c, 1>>
             far == <<c, 2>>
             rn == [Unused EXCEPT !.who = p, !.up = "open"]
             rf == [Unused EXCEPT !.who = dst, !.up = "waiting"]
  <2>1. /\ conns' = [conns EXCEPT ![near] = rn, ![far] = rf]
        /\ table' = [table EXCEPT ![p][fd] = near]
        /\ slots' = [slots EXCEPT ![p][dst] = fd]
        /\ active' = [active EXCEPT ![p] = IF HasRoom(p) THEN @ \cup {fd} ELSE @]
    BY <1>12 DEF connect_to_peer
  <2>2. c \in Connection /\ conns[near] = Unused /\ conns[far] = Unused
    <3>1. FreeConns \in SUBSET Nat
      BY BoundAssumption DEF FreeConns, Connection
    <3>2. c \in FreeConns
      BY <1>12, <3>1, Smallest
    <3>3. QED
      BY <3>2 DEF FreeConns
  <2>3. near \in End /\ far \in End /\ near # far /\ Opposite(near) = far /\ Opposite(far) = near
    BY <2>2, EndPairs
  <2>4. table[p][fd] = None
    BY <1>7, <1>12 DEF FreeFds
  <2>5. /\ rn \in EndType /\ rn.who = p /\ rn.up = "open" /\ rn.queue = <<>>
        /\ rf \in EndType /\ rf.who = dst /\ rf.up = "waiting" /\ rf.queue = <<>>
        /\ Unused.up = "closed" /\ Unused.queue = <<>>
    <3>1. p \in Process \cup {None} /\ dst \in Process \cup {None}
      BY <1>12 DEF Process
    <3>2. QED
      BY <3>1, UnusedType DEF EndType, Unused
  <2> HIDE DEF c, near, far, rn, rf
  <2>6. conns \in [End -> EndType]
    BY <1>1, Types
  <2>7. /\ conns' \in [End -> EndType] /\ conns'[near] = rn /\ conns'[far] = rf
        /\ \A e \in End : e # near /\ e # far => conns'[e] = conns[e]
    BY <2>1, <2>3, <2>5, <2>6
  <2>8. \A e \in End : e # near /\ e # far => Opposite(e) \in End /\ Opposite(e) # near /\ Opposite(e) # far
    BY <2>3, Ends
  <2>9. ASSUME NEW e \in End PROVE Quiet(conns, conns', e)
    <3>1. CASE e = near \/ e = far
      <4>1. conns'[e].queue = <<>> /\ conns[e].queue \in Seq(Packet)
        BY <2>5, <2>6, <2>7, <3>1 DEF EndType
      <4>2. Shrinks(conns[e].queue, conns'[e].queue)
        BY <4>1, ShrinkCases
      <4>3. QED
        BY <4>1, <4>2 DEF Quiet
    <3>2. CASE e # near /\ e # far
      BY <2>6, <2>7, <2>8, <3>2, SameQuiet
    <3>3. QED
      BY <3>1, <3>2
  <2>10. \A e \in End : State(e) = "open" => Firm(e)
    BY <2>2, <2>5, <2>7, <2>8 DEF Firm, State
  <2>11. /\ slots' \in [Process -> [Addresses -> Fd \cup {None}]]
         /\ slots'[p][dst] = fd /\ \A k \in Addresses : k # dst => slots'[p][k] = slots[p][k]
         /\ \A q \in Process : q # p => slots'[q] = slots[q]
    BY <1>1, <1>7, <2>1, Types
  <2>12. /\ table' \in [Process -> [Fd -> End \cup {None}]]
         /\ \A q \in Process : q # p => table'[q] = table[q]
    BY <1>1, <1>7, <2>1, <2>3, Types
  <2>13. /\ active' \in [Process -> SUBSET Fd]
         /\ active'[p] = IF HasRoom(p) THEN active[p] \cup {fd} ELSE active[p]
         /\ \A q \in Process : q # p => active'[q] = active[q]
    BY <1>1, <1>7, <2>1, Types
  <2>14. \A q \in Process : Cardinality(active'[q]) <= MAX_CONNECTIONS
    BY <1>1, <1>7, <2>13, ActiveBound
  <2>15. LocalTypes'
    BY <2>11, <2>12, <2>13, <2>14 DEF LocalTypes
  <2>16. ASSUME NEW q \in Process, q # p PROVE Local(q)'
    <3>1. sending'[q] # None => slots[q][sending'[q].pkt.dst] = sending'[q].fd
      BY <1>1, <1>8, <2>16 DEF Local
    <3>2. QED
      BY <1>1, <2>10, <2>11, <2>12, <2>13, <2>16, <3>1, LocalSame
  <2>17. Local(p)'
    <3>1. State(near) # "open" /\ conns'[near].up = "open" /\ conns'[near].who = p
      BY <2>2, <2>5, <2>7 DEF State
    <3>2. ASSUME NEW k \in Addresses
          PROVE  \/ slots'[p][k] = slots[p][k]
                 \/ slots[p][k] = None /\ slots'[p][k] = fd /\ Address(conns'[Opposite(near)].who) = k
      <4>1. Address(dst) = dst
        BY <1>12 DEF Address
      <4>2. QED
        BY <1>12, <2>3, <2>5, <2>7, <2>11, <4>1
    <3>3. sending'[p] # None => slots'[p][sending'[p].pkt.dst] = sending'[p].fd
      BY <1>5, <1>8, <2>11
    <3>4. active'[p] \in {active[p], active[p] \cup {fd}}
      BY <2>13
    <3>5. fd \in active'[p] \/ \E k \in Addresses : slots'[p][k] = fd
      BY <2>11
    <3>6. OpenEndsFirm(p)
      BY <2>10 DEF OpenEndsFirm
    <3>7. TypeOK /\ Local(p) /\ fd \in Fd /\ near \in End /\ table[p][fd] = None
          /\ table' = [table EXCEPT ![p][fd] = near]
      BY <1>1, <1>7, <2>1, <2>3, <2>4
    <3>8. SlotsOpened(p, fd, near)
      BY <3>2, <3>3, <3>5 DEF SlotsOpened
    <3>9. QED
      BY <3>1, <3>4, <3>6, <3>7, <3>8, LocalOpened
  <2>18. QED
    BY <1>3, <1>9, <1>10, <2>7, <2>9, <2>15, <2>16, <2>17, QuietStep
<1>13. QED
  BY <1>6, <1>11, <1>12


LEMMA Sender ==
    ASSUME TransportInv, NEW p \in Process, sending[p] # None
    PROVE  LET m == sending[p].pkt
               e == table[p][sending[p].fd]
           IN  /\ sending[p].fd \in Fd /\ e \in End /\ Target(p) \in End
               /\ Target(p) = Opposite(e) /\ Opposite(Target(p)) = e /\ e # Target(p)
               /\ conns[e].up = "open" /\ conns[e].who = p
               /\ m \in Packet /\ m.dst \in Addresses /\ m.n # 0
               /\ m.src = Address(p) /\ m.dst = Address(conns[Target(p)].who)
               /\ slots[p][m.dst] = sending[p].fd
<1> DEFINE m == sending[p].pkt
           fd == sending[p].fd
           e == table[p][fd]
<1>1. TypeOK /\ OneCopy /\ Local(p)
  BY Parts
<1>2. sending[p] \in [fd : Fd, pkt : Packet]
  BY <1>1, Types
<1>3. fd \in Fd /\ m \in Packet
  BY <1>2
<1>4. m.dst \in Addresses
  BY <1>3 DEF Packet
<1>5. slots[p][m.dst] = fd
  BY <1>1 DEF Local
<1>6. fd # None
  BY <1>3, NameAssumption
<1>7. e \in End /\ FarAddress(e) = m.dst
  BY <1>1, <1>4, <1>5, <1>6, LocalFacts
<1>8. e # None
  BY <1>7, NameAssumption
<1>9. conns[e].up = "open" /\ conns[e].who = p
  BY <1>1, <1>3, <1>8, LocalFacts DEF State
<1>10. m.src = Address(p) /\ m.n # 0
  BY <1>1 DEF OneCopy
<1>11. Target(p) = Opposite(e)
  BY DEF Target
<1>12. Opposite(e) \in End /\ Opposite(Opposite(e)) = e /\ Opposite(e) # e
  BY <1>7, Ends
<1>13. m.dst = Address(conns[Opposite(e)].who)
  BY <1>7 DEF FarAddress
<1> HIDE DEF e, m, fd
<1>14. QED
  BY <1>3, <1>4, <1>5, <1>7, <1>9, <1>10, <1>11, <1>12, <1>13 DEF e, m, fd

(* The packet m was added at t; the writer's end is closed if it is cut off. *)
LEMMA EnqueueOrder ==
    ASSUME NEW cs \in [End -> EndType], NEW t \in End, NEW m \in Packet, NEW ds,
           InOrder(cs, t), cs[Opposite(t)].up = "open",
           m.src = Address(cs[Opposite(t)].who), m.dst = Address(cs[t].who),
           ds[t].queue = Enqueue(cs, t, m)[t].queue,
           ds[t].who = cs[t].who, ds[Opposite(t)].who = cs[Opposite(t)].who,
           m.n = 0 => ds[Opposite(t)].up = "closed"
    PROVE  InOrder(ds, t)
<1> DEFINE n == Len(cs[t].queue)
<1>1. /\ n \in Nat /\ DOMAIN cs[t].queue = 1 .. n /\ DOMAIN ds[t].queue = 1 .. n + 1
      /\ Len(ds[t].queue) = n + 1 /\ ds[t].queue[n + 1] = m
      /\ \A k \in 1 .. n : ds[t].queue[k] = cs[t].queue[k]
  BY EnqueueFacts
<1>2. \A k \in 1 .. n : /\ cs[t].queue[k].src = Address(cs[Opposite(t)].who)
                        /\ cs[t].queue[k].dst = Address(cs[t].who)
                        /\ cs[t].queue[k].n # 0
  BY <1>1 DEF InOrder
<1> HIDE DEF n
<1>3. \A k \in DOMAIN ds[t].queue : k = n + 1 \/ k \in 1 .. n
  BY <1>1
<1>4. QED
  BY <1>1, <1>2, <1>3 DEF InOrder

(* The process gives the send up, or has done it. *)
LEMMA SendDoneFacts ==
    ASSUME TypeOK, NEW p \in Process, SendDone(p)
    PROVE  /\ OtherTypes' /\ sends' = sends /\ got' = got /\ sending'[p] = None
           /\ sending' = [sending EXCEPT ![p] = None]
           /\ \A q \in Process : sending'[q] = (IF q = p THEN None ELSE sending[q]) /\ SendStep(q, None)
<1>1. /\ sending' = [sending EXCEPT ![p] = None]
      /\ got' = got /\ sends' = sends /\ crashes' = crashes
  BY DEF SendDone
<1>2. sending' \in [Process -> [fd : Fd, pkt : Packet] \cup {None}]
  BY <1>1, Types
<1>3. \A q \in Process : sending'[q] = IF q = p THEN None ELSE sending[q]
  BY <1>1, Types
<1>4. QED
  BY <1>1, <1>2, <1>3 DEF OtherTypes, TypeOK, SendStep

LEMMA SendTimeoutInv ==
    ASSUME TransportInv, NEW p \in Process, SendTimeout(p) PROVE TransportInv' /\ WireStep(None)
<1>1. TypeOK /\ \A q \in Process : Local(q)
  BY Parts
<1>2. /\ SendDone(p)
      /\ conns' = conns /\ table' = table /\ slots' = slots /\ active' = active
  BY DEF SendTimeout, local
<1>3. conns \in [End -> EndType] /\ \A e \in End : Quiet(conns, conns', e)
  BY <1>1, <1>2, Types, SameQuiet
<1>4. LocalTypes'
  BY <1>1, <1>2, TypesApart DEF LocalTypes
<1>5. \A e \in End : State(e) = "open" => Firm(e)
  BY <1>2 DEF Firm, State
<1>6. ASSUME NEW q \in Process PROVE Local(q)'
  <2>1. sending'[q] # None => slots[q][sending'[q].pkt.dst] = sending'[q].fd
    BY <1>1, <1>2, SendDoneFacts DEF Local
  <2>2. QED
    BY <1>1, <1>2, <1>5, <2>1, LocalSame
<1>7. OtherTypes' /\ sends' >= sends /\ \A q \in Process : SendStep(q, None)
  BY <1>1, <1>2, SendDoneFacts, Types
<1>8. QED
  BY <1>2, <1>3, <1>4, <1>6, <1>7, QuietStep

LEMMA SendWholeInv ==
    ASSUME TransportInv, NEW p \in Process, SendWhole(p) PROVE TransportInv' /\ WireStep(None)
<1> DEFINE m == sending[p].pkt
           t == Target(p)
<1>1. TypeOK /\ OneCopy /\ (\A q \in Process : Local(q)) /\ (\A e \in End : InOrder(conns, e))
  BY Parts
<1>2. /\ SendDone(p) /\ sending[p] # None
      /\ table' = table /\ slots' = slots /\ active' = active
      /\ \/ Fits(t) /\ conns' = Enqueue(conns, t, m)
         \/ conns' = conns
  BY DEF SendWhole, local
<1>3. conns \in [End -> EndType]
  BY <1>1, Types
<1>4. /\ t \in End /\ m \in Packet /\ conns[Opposite(t)].up = "open" /\ conns[Opposite(t)].who = p
      /\ m.src = Address(p) /\ m.dst = Address(conns[t].who) /\ m.n # 0
  BY <1>2, Sender
<1> HIDE DEF t, m
<1>5. LocalTypes'
  BY <1>1, <1>2, TypesApart DEF LocalTypes
<1>6. OtherTypes' /\ sends' = sends /\ sends' >= sends /\ sending' = [sending EXCEPT ![p] = None]
      /\ \A q \in Process : sending'[q] = (IF q = p THEN None ELSE sending[q]) /\ SendStep(q, None)
  BY <1>1, <1>2, SendDoneFacts, Types
<1>7. ASSUME conns' = Enqueue(conns, t, m) \/ conns' = conns
      PROVE  \A e \in End : conns'[e].up = conns[e].up /\ conns'[e].who = conns[e].who
  BY <1>3, <1>4, <1>7, EnqueueFacts
<1>8. \A e \in End : conns'[e].up = conns[e].up /\ conns'[e].who = conns[e].who
  BY <1>2, <1>7
<1>9. \A e \in End : State(e) = "open" => Firm(e)
  BY <1>8, Ends DEF Firm, State
<1>10. ASSUME NEW q \in Process PROVE Local(q)'
  <2>1. sending'[q] # None => slots[q][sending'[q].pkt.dst] = sending'[q].fd
    BY <1>1, <1>6 DEF Local
  <2>2. QED
    BY <1>1, <1>2, <1>9, <2>1, LocalSame
<1>11. CASE conns' = conns
  <2>1. \A e \in End : Quiet(conns, conns', e)
    BY <1>3, <1>11, SameQuiet
  <2>2. QED
    BY <1>3, <1>5, <1>6, <1>10, <1>11, <2>1, QuietStep
<1>12. CASE Fits(t) /\ conns' = Enqueue(conns, t, m)
  <2>1. /\ conns' \in [End -> EndType]
        /\ \A e \in End : e # t => conns'[e] = conns[e]
        /\ Len(conns'[t].queue) = Len(conns[t].queue) + 1
        /\ Len(conns[t].queue) \in Nat
    BY <1>3, <1>4, <1>12, EnqueueFacts
  <2>2. \A e \in End : Len(conns'[e].queue) <= Capacity
    <3>1. Len(conns[t].queue) < Capacity
      BY <1>12 DEF Fits, Queue
    <3>2. Len(conns'[t].queue) <= Capacity
      BY <2>1, <3>1, BoundAssumption
    <3>3. \A e \in End : e # t => Len(conns'[e].queue) <= Capacity
      BY <1>1, <2>1, Types
    <3>4. QED
      BY <3>2, <3>3
  <2>3. TypeOK'
    BY <1>1, <1>5, <1>6, <2>1, <2>2, TypeStep
  <2>4. OneCopy'
    BY <1>1, <1>2, <1>4, <1>6, <1>12, CopiesSend DEF m
  <2>5. InOrder(conns', t)
    <3>1. conns'[t].queue = Enqueue(conns, t, m)[t].queue
      BY <1>12
    <3>2. conns'[t].who = conns[t].who /\ conns'[Opposite(t)].who = conns[Opposite(t)].who
      BY <1>4, <1>8, Ends
    <3>3. QED
      BY <1>1, <1>3, <1>4, <3>1, <3>2, EnqueueOrder
  <2>6. ASSUME NEW e \in End, e # t PROVE InOrder(conns', e)
    <3>1. Quiet(conns, conns', e)
      BY <1>3, <1>8, <2>1, <2>6, Ends, SameQuiet
    <3>2. QED
      BY <1>1, <1>3, <2>1, <3>1, QuietInOrder
  <2>7. WireStep(None)
    BY <1>1, <1>2, <1>4, <1>6, <1>12, WireMoves DEF m
  <2>8. QED
    BY <1>10, <2>3, <2>4, <2>5, <2>6, <2>7, PartsNext
<1>13. QED
  BY <1>2, <1>11, <1>12

(* The ends of the descriptors fds are closed, and perhaps others that are *)
(* not open; before that only queues may have changed.                     *)
EndsClosed(p, fds, mid, ends) ==
    /\ fds \in SUBSET Fd /\ mid \in [End -> EndType] /\ ends \in SUBSET End
    /\ \A e \in End : mid[e].up = conns[e].up /\ mid[e].who = conns[e].who
    /\ \A e \in ends : State(e) = "open" => conns[e].who = p /\ \E fd \in fds : table[p][fd] = e
    /\ conns' = CloseEnds(mid, ends)

LEMMA ClosingStep ==
    ASSUME TypeOK, \A q \in Process : Local(q), NEW p \in Process, NEW fds, NEW mid, NEW ends,
           EndsClosed(p, fds, mid, ends), Closed(p, fds), SlotsAfter(p, fds),
           sending' = [sending EXCEPT ![p] = None]
    PROVE  conns' \in [End -> EndType] /\ LocalTypes' /\ \A q \in Process : Local(q)'
<1> USE DEF EndsClosed
<1>1. conns' \in [End -> EndType]
  BY CloseType
<1>2. /\ table' = [table EXCEPT ![p] = [fd \in Fd |-> IF fd \in fds THEN None ELSE table[p][fd]]]
      /\ active' = [active EXCEPT ![p] = active[p] \ fds]
  BY DEF Closed
<1>3. table' \in [Process -> [Fd -> End \cup {None}]] /\ \A q \in Process : q # p => table'[q] = table[q]
  BY <1>2, Types
<1>4. /\ active' \in [Process -> SUBSET Fd] /\ active'[p] \in SUBSET active[p]
      /\ \A q \in Process : q # p => active'[q] = active[q]
  BY <1>2, Types
<1>5. \A q \in Process : Cardinality(active'[q]) <= MAX_CONNECTIONS
  BY <1>4, ActiveBound DEF TypeOK
<1>6. LocalTypes'
  BY <1>3, <1>4, <1>5 DEF LocalTypes, SlotsAfter
<1>7. \A q \in Process : sending'[q] = IF q = p THEN None ELSE sending[q]
  BY Types
<1>8. ASSUME NEW e \in End, State(e) = "open", e \notin ends PROVE Firm(e)
  <2>1. Opposite(e) \in End /\ mid[e].up = "open"
    BY <1>8, Ends DEF State
  <2>2. conns'[e] = mid[e] /\ conns'[Opposite(e)].who = mid[Opposite(e)].who
    BY <1>8, <2>1, CloseOne
  <2>3. QED
    BY <2>1, <2>2 DEF Firm
<1>9. ASSUME NEW q \in Process, q # p PROVE Local(q)'
  <2>1. \A e \in End : State(e) = "open" /\ conns[e].who = q => Firm(e)
    BY <1>8, <1>9
  <2>2. sending'[q] # None => slots[q][sending'[q].pkt.dst] = sending'[q].fd
    BY <1>7, <1>9 DEF Local
  <2>3. QED
    BY <1>3, <1>4, <1>9, <2>1, <2>2, LocalSame DEF SlotsAfter
<1>10. Local(p)'
  <2>1. \A e \in End : State(e) = "open" /\ conns[e].who = p /\ (\A fd \in fds : table[p][fd] # e) => Firm(e)
    BY <1>8
  <2>2. sending'[p] = None
    BY <1>7
  <2>3. QED
    BY <2>1, <2>2, LocalClosed
<1>11. QED
  BY <1>1, <1>6, <1>9, <1>10

LEMMA SendBrokenInv ==
    ASSUME TransportInv, NEW p \in Process, SendBroken(p) PROVE TransportInv' /\ WireStep(None)
<1> DEFINE m == sending[p].pkt
           fd == sending[p].fd
           e0 == table[p][fd]
           t == Target(p)
           cut == [m EXCEPT !.n = 0]
<1>1. TypeOK /\ OneCopy /\ (\A q \in Process : Local(q)) /\ (\A e \in End : InOrder(conns, e))
  BY Parts
<1>2. /\ sending[p] # None /\ Closed(p, {fd}) /\ SendDone(p)
      /\ slots' = [slots EXCEPT ![p][m.dst] = None]
      /\ \/ Fits(t) /\ conns' = CloseEnds(Enqueue(conns, t, cut), {e0})
         \/ conns' = CloseEnds(conns, {e0})
  BY DEF SendBroken, CloseEnd
<1>3. conns \in [End -> EndType]
  BY <1>1, Types
<1>4. /\ t \in End /\ m \in Packet /\ e0 \in End /\ e0 = Opposite(t) /\ fd \in Fd
      /\ conns[e0].up = "open" /\ conns[e0].who = p
      /\ m.src = Address(p) /\ m.dst = Address(conns[t].who) /\ m.dst \in Addresses
      /\ slots[p][m.dst] = fd /\ e0 # t
  BY <1>2, Sender
<1>5. cut \in Packet /\ cut.n = 0 /\ cut.src = m.src /\ cut.dst = m.dst
  BY <1>4, BoundAssumption DEF Packet
<1> HIDE DEF t, m, fd, cut, e0
<1>6. OtherTypes' /\ sends' = sends /\ sends' >= sends /\ sending' = [sending EXCEPT ![p] = None]
      /\ \A q \in Process : SendStep(q, None)
  BY <1>1, <1>2, SendDoneFacts, Types
<1>7. /\ slots' \in [Process -> [Addresses -> Fd \cup {None}]]
      /\ slots'[p][m.dst] = None /\ \A k \in Addresses : k # m.dst => slots'[p][k] = slots[p][k]
      /\ \A q \in Process : q # p => slots'[q] = slots[q]
  BY <1>1, <1>2, <1>4, Types
<1>8. SlotsAfter(p, {fd})
  <2>1. ASSUME NEW k \in Addresses, slots'[p][k] # None
        PROVE  /\ slots'[p][k] \in Fd \ {fd} /\ table[p][slots'[p][k]] # None
               /\ FarAddress(table[p][slots'[p][k]]) = k
    <3>1. k # m.dst /\ slots'[p][k] = slots[p][k]
      BY <1>7, <2>1
    <3>2. /\ slots[p][k] \in Fd /\ table[p][slots[p][k]] # None
          /\ FarAddress(table[p][slots[p][k]]) = k
      BY <1>1, <2>1, <3>1, Types DEF Local
    <3>3. slots[p][k] # fd
      BY <1>4, <3>1, <3>2 DEF FarAddress, e0, t, Target, fd
    <3>4. QED
      BY <3>1, <3>2, <3>3
  <2>2. ASSUME NEW k \in Addresses, slots[p][k] \in Fd \ {fd} PROVE slots'[p][k] = slots[p][k]
    BY <1>4, <1>7, <2>2
  <2>3. QED
    BY <1>7, <2>1, <2>2 DEF SlotsAfter
<1>9. {fd} \in SUBSET Fd /\ {e0} \in SUBSET End
      /\ \A e \in {e0} : State(e) = "open" => conns[e].who = p /\ \E x \in {fd} : table[p][x] = e
  BY <1>4 DEF e0
<1>10. CASE conns' = CloseEnds(conns, {e0})
  <2>1. conns' \in [End -> EndType] /\ LocalTypes' /\ \A q \in Process : Local(q)'
    <3>1. EndsClosed(p, {fd}, conns, {e0})
      BY <1>3, <1>9, <1>10 DEF EndsClosed
    <3>2. QED
      BY <1>1, <1>2, <1>6, <1>8, <3>1, ClosingStep
  <2>2. \A e \in End : Quiet(conns, conns', e)
    BY <1>3, <1>9, <1>10, CloseQuiet
  <2>3. QED
    BY <1>6, <2>1, <2>2, QuietStep
<1>11. CASE Fits(t) /\ conns' = CloseEnds(Enqueue(conns, t, cut), {e0})
  <2> DEFINE mid == Enqueue(conns, t, cut)
  <2>1. /\ mid \in [End -> EndType]
        /\ \A e \in End : mid[e].up = conns[e].up /\ mid[e].who = conns[e].who
        /\ \A e \in End : e # t => mid[e] = conns[e]
        /\ Len(mid[t].queue) = Len(conns[t].queue) + 1
        /\ Len(conns[t].queue) \in Nat
        /\ DOMAIN conns[t].queue = 1 .. Len(conns[t].queue)
        /\ DOMAIN mid[t].queue = 1 .. Len(conns[t].queue) + 1
        /\ mid[t].queue[Len(conns[t].queue) + 1] = cut
        /\ \A k \in 1 .. Len(conns[t].queue) : mid[t].queue[k] = conns[t].queue[k]
    <3>1. t \in End /\ cut \in Packet
      BY <1>4, <1>5
    <3>2. QED
      BY <1>3, <3>1, EnqueueFacts
  <2>2. conns' = CloseEnds(mid, {e0})
    BY <1>11
  <2>3. /\ InOrder(conns, t) /\ conns[Opposite(t)].up = "open"
        /\ cut.src = Address(conns[Opposite(t)].who) /\ cut.dst = Address(conns[t].who)
    BY <1>1, <1>4, <1>5
  <2>4. ASSUME NEW ds, ds[t].queue = mid[t].queue, ds[t].who = conns[t].who,
               ds[Opposite(t)].who = conns[Opposite(t)].who, ds[Opposite(t)].up = "closed"
        PROVE  InOrder(ds, t)
    BY <1>3, <1>4, <1>5, <2>3, <2>4, EnqueueOrder
  <2> HIDE DEF mid
  <2>5. conns' \in [End -> EndType] /\ LocalTypes' /\ \A q \in Process : Local(q)'
    <3>1. EndsClosed(p, {fd}, mid, {e0})
      BY <1>9, <2>1, <2>2 DEF EndsClosed
    <3>2. QED
      BY <1>1, <1>2, <1>6, <1>8, <3>1, ClosingStep
  <2>6. /\ \/ conns'[t] = Unused
           \/ conns'[t].queue = <<>>
           \/ /\ conns'[t] = mid[t]
              /\ conns'[e0].who = conns[e0].who \/ conns'[t] = Unused
        /\ conns'[e0].up = "closed"
    BY <1>4, <1>9, <2>1, <2>2, CloseOne
  <2>7. Unused.queue = <<>>
    BY DEF Unused
  <2>8. CASE conns'[t].queue = <<>>
    <3>1. ASSUME NEW e \in End PROVE Quiet(conns, conns', e)
      <4>1. CASE e = t
        BY <1>1, <1>4, <2>8, <4>1, Types, ShrinkCases DEF Quiet
      <4>2. CASE e # t
        <5>1. Quiet(conns, mid, e)
          BY <1>3, <2>1, <4>2, Ends, SameQuiet
        <5>2. QED
          BY <1>3, <1>9, <2>1, <2>2, <5>1, ClosedQuiet
      <4>3. QED
        BY <4>1, <4>2
    <3>2. QED
      BY <1>6, <2>5, <3>1, QuietStep
  <2>9. CASE conns'[t].queue # <<>>
    <3>1. conns'[t] = mid[t] /\ conns'[e0].who = conns[e0].who
      BY <2>6, <2>7, <2>9
    <3>2. InOrder(conns', t)
      BY <1>4, <2>1, <2>4, <2>6, <3>1
    <3>3. ASSUME NEW e \in End, e # t
          PROVE  Quiet(conns, conns', e)
      <4>1. Quiet(conns, mid, e)
        BY <1>3, <2>1, <3>3, Ends, SameQuiet
      <4>2. QED
        BY <1>3, <1>9, <2>1, <2>2, <4>1, ClosedQuiet
    <3>4. \A e \in End : InOrder(conns', e)
      BY <1>1, <1>3, <2>5, <3>2, <3>3, QuietInOrder
    <3>5. ASSUME NEW e \in End PROVE Len(conns'[e].queue) <= Capacity
      <4>1. CASE e = t
        <5>1. Len(conns'[t].queue) = Len(conns[t].queue) + 1
          BY <2>1, <3>1
        <5>2. QED
          BY <1>11, <2>1, <4>1, <5>1, BoundAssumption DEF Fits, Queue
      <4>2. CASE e # t
        <5>1. conns[e].queue \in Seq(Packet) /\ conns'[e].queue \in Seq(Packet) /\ Len(conns[e].queue) <= Capacity
          BY <1>1, <2>5, Types DEF EndType
        <5>2. PICK d \in {0, 1} : Len(conns'[e].queue) + d <= Len(conns[e].queue)
          BY <3>3, <4>2 DEF Quiet, Shrinks
        <5>3. QED
          BY <5>1, <5>2, BoundAssumption
      <4>3. QED
        BY <4>1, <4>2
    <3>6. TypeOK'
      BY <1>1, <1>6, <2>5, <3>5, TypeStep
    <3>7. ASSUME NEW e \in End PROVE Fewer(conns[e].queue, conns'[e].queue)
      <4>1. CASE e = t
        <5>1. \A k \in DOMAIN mid[t].queue : k \in 1 .. Len(conns[t].queue) \/ k = Len(conns[t].queue) + 1
          BY <2>1
        <5>2. ASSUME NEW k \in DOMAIN mid[t].queue
              PROVE  mid[t].queue[k].n = 0 \/ (k + 0 \in DOMAIN conns[t].queue /\ mid[t].queue[k] = conns[t].queue[k + 0])
          <6>1. CASE k = Len(conns[t].queue) + 1
            BY <1>5, <2>1, <6>1
          <6>2. CASE k \in 1 .. Len(conns[t].queue)
            <7>1. mid[t].queue[k] = conns[t].queue[k] /\ k + 0 = k /\ k \in DOMAIN conns[t].queue
              BY <2>1, <6>2
            <7>2. QED
              BY <7>1
          <6>3. QED
            BY <5>1, <6>1, <6>2
        <5>3. QED
          BY <3>1, <4>1, <5>2 DEF Fewer
      <4>2. CASE e # t
        BY <1>3, <2>5, <3>3, <4>2, QuietFewer
      <4>3. QED
        BY <4>1, <4>2
    <3>8. OneCopy' /\ WireStep(None)
      <4>1. sends' \in Nat
        BY <1>1, <1>6, Types
      <4>2. QED
        BY <1>1, <1>6, <2>5, <3>7, <4>1, CopiesShrink, WireShrinks
    <3>9. QED
      BY <2>5, <3>4, <3>6, <3>8, PartsNext
  <2>10. QED
    BY <2>8, <2>9
<1>12. QED
  BY <1>2, <1>10, <1>11


LEMMA AcceptInv ==
    ASSUME TransportInv, NEW p \in Process, Accept(p) PROVE TransportInv' /\ WireStep(None)
<1> DEFINE fd == Min(FreeFds(p))
<1>1. TypeOK /\ \A q \in Process : Local(q)
  BY Parts
<1>2. PICK c \in Connection :
        /\ State(<<c, 2>>) = "backlog" /\ conns[<<c, 2>>].who = p
        /\ IF HasRoom(p)
           THEN /\ conns' = [conns EXCEPT ![<<c, 2>>] = [conns[<<c, 2>>] EXCEPT !.up = "open"]]
                /\ table' = [table EXCEPT ![p][fd] = <<c, 2>>]
                /\ active' = [active EXCEPT ![p] = active[p] \cup {fd}]
           ELSE conns' = CloseEnds(conns, {<<c, 2>>}) /\ table' = table /\ active' = active
  BY DEF Accept, CloseEnd
<1>3. /\ FreeFds(p) # {} /\ slots' = slots /\ sending' = sending
      /\ got' = got /\ sends' = sends /\ crashes' = crashes
  BY DEF Accept
<1> DEFINE t == <<c, 2>>
<1>4. t \in End
  BY EndPairs
<1>5. fd \in Fd /\ table[p][fd] = None
  <2>1. FreeFds(p) \in SUBSET Nat
    BY BoundAssumption DEF FreeFds, Fd
  <2>2. fd \in FreeFds(p)
    BY <1>3, <2>1, Smallest
  <2>3. QED
    BY <2>2 DEF FreeFds
<1> HIDE DEF t, fd
<1>6. conns \in [End -> EndType]
  BY <1>1, Types
<1>7. OtherTypes' /\ sends' >= sends /\ \A q \in Process : SendStep(q, None)
  BY <1>1, <1>3, Types, TypesApart DEF OtherTypes, SendStep
<1>8. \A q \in Process : sending'[q] # None => slots[q][sending'[q].pkt.dst] = sending'[q].fd
  BY <1>1, <1>3 DEF Local
<1>9. CASE HasRoom(p)
  <2> DEFINE r == [conns[t] EXCEPT !.up = "open"]
  <2>1. /\ conns' = [conns EXCEPT ![t] = r]
        /\ table' = [table EXCEPT ![p][fd] = t]
        /\ active' = [active EXCEPT ![p] = active[p] \cup {fd}]
    BY <1>2, <1>9 DEF t
  <2>2. r \in EndType /\ r.up = "open" /\ r.who = conns[t].who /\ r.queue = conns[t].queue
    <3>1. conns[t] \in EndType
      BY <1>4, <1>6
    <3>2. QED
      BY <3>1 DEF EndType
  <2> HIDE DEF r
  <2>3. /\ conns' \in [End -> EndType] /\ conns'[t].up = "open"
        /\ \A e \in End : conns'[e].who = conns[e].who /\ conns'[e].queue = conns[e].queue
        /\ \A e \in End : e # t => conns'[e].up = conns[e].up
    BY <1>4, <1>6, <2>1, <2>2
  <2>4. State(t) = "backlog" /\ conns[t].who = p
    BY <1>2 DEF t
  <2>5. \A e \in End : (State(e) = "open" => Firm(e)) /\ (conns[e].up = "closed" => conns'[e].up = "closed")
    BY <2>3, <2>4, Ends DEF Firm, State
  <2>6. \A e \in End : Quiet(conns, conns', e)
    BY <1>6, <2>3, <2>5, Ends, SameQuiet
  <2>7. /\ table' \in [Process -> [Fd -> End \cup {None}]]
        /\ \A q \in Process : q # p => table'[q] = table[q]
    BY <1>1, <1>4, <1>5, <2>1, Types
  <2>8. /\ active' \in [Process -> SUBSET Fd] /\ active'[p] = active[p] \cup {fd}
        /\ \A q \in Process : q # p => active'[q] = active[q]
    BY <1>1, <1>5, <2>1, Types
  <2>9. \A q \in Process : Cardinality(active'[q]) <= MAX_CONNECTIONS
    BY <1>1, <1>5, <1>9, <2>8, ActiveBound DEF TypeOK
  <2>10. LocalTypes'
    BY <1>1, <1>3, <2>7, <2>8, <2>9, TypesApart DEF LocalTypes
  <2>11. ASSUME NEW q \in Process, q # p PROVE Local(q)'
    BY <1>1, <1>3, <1>8, <2>5, <2>7, <2>8, <2>11, LocalSame
  <2>12. Local(p)'
    <3>1. State(t) # "open" /\ conns'[t].up = "open" /\ conns'[t].who = p
      BY <1>4, <2>3, <2>4
    <3>2. sending'[p] # None => slots'[p][sending'[p].pkt.dst] = sending'[p].fd
      BY <1>3, <1>8
    <3>3. /\ active'[p] \in {active[p], active[p] \cup {fd}}
          /\ fd \in active'[p] \/ \E k \in Addresses : slots'[p][k] = fd
      BY <2>8
    <3>4. OpenEndsFirm(p)
      BY <2>5 DEF OpenEndsFirm
    <3>5. \A k \in Addresses :
             \/ slots'[p][k] = slots[p][k]
             \/ slots[p][k] = None /\ slots'[p][k] = fd /\ Address(conns'[Opposite(t)].who) = k
      BY <1>3
    <3>6. TypeOK /\ Local(p) /\ table' = [table EXCEPT ![p][fd] = t]
      BY <1>1, <2>1
    <3>7. SlotsOpened(p, fd, t)
      BY <3>2, <3>3, <3>5 DEF SlotsOpened
    <3>8. QED
      BY <1>4, <1>5, <3>1, <3>3, <3>4, <3>6, <3>7, LocalOpened
  <2>13. QED
    BY <1>7, <2>3, <2>6, <2>10, <2>11, <2>12, QuietStep
<1>10. CASE ~ HasRoom(p)
  <2>1. conns' = CloseEnds(conns, {t}) /\ table' = table /\ active' = active
    BY <1>2, <1>10 DEF t
  <2>2. conns' \in [End -> EndType] /\ {t} \in SUBSET End
    BY <1>4, <1>6, <2>1, CloseType
  <2>3. \A e \in End : Quiet(conns, conns', e)
    BY <1>6, <2>1, <2>2, CloseQuiet
  <2>4. ASSUME NEW e \in End, State(e) = "open" PROVE Firm(e)
    <3>1. e # t /\ conns[e].up = "open"
      BY <1>2, <2>4 DEF State, t
    <3>2. conns'[e] = conns[e] /\ conns'[Opposite(e)].who = conns[Opposite(e)].who
      BY <1>6, <2>1, <2>2, <3>1, CloseOne
    <3>3. QED
      BY <3>1, <3>2 DEF Firm
  <2>5. UNCHANGED <<local, sending, got, sends, crashes>>
    BY <1>3, <2>1 DEF local
  <2>6. QED
    BY <2>2, <2>3, <2>4, <2>5, NetStep
<1>11. QED
  BY <1>9, <1>10

(* The process is not within a send. *)
LEMMA IdleStep ==
    ASSUME TypeOK, NEW p \in Process, sending[p] = None, UNCHANGED <<sending, sends, crashes>>,
           got' \in [Process -> SUBSET Packet]
    PROVE  /\ OtherTypes' /\ sends' >= sends /\ sending' = [sending EXCEPT ![p] = None]
           /\ \A q \in Process : SendStep(q, None)
<1>1. sending' = sending /\ sends' = sends /\ crashes' = crashes
  OBVIOUS
<1>2. sending' = [sending EXCEPT ![p] = None]
  BY <1>1, Types
<1>3. OtherTypes' /\ sends' >= sends
  BY <1>1, Types, TypesApart DEF OtherTypes
<1>4. QED
  BY <1>1, <1>2, <1>3 DEF SendStep

LEMMA RecvErrorInv ==
    ASSUME TransportInv, NEW p \in Process, NEW fd \in Fd, RecvError(p, fd),
           sending[p] = None, UNCHANGED <<sending, sends, crashes>>
    PROVE  TransportInv' /\ WireStep(None)
<1> DEFINE e0 == table[p][fd]
<1>1. TypeOK /\ \A q \in Process : Local(q)
  BY Parts
<1>2. /\ fd \in active[p] /\ conns' = CloseEnds(conns, {e0}) /\ Closed(p, {fd})
      /\ slots' = [slots EXCEPT ![p] = [k \in Addresses |-> IF slots[p][k] = fd THEN None ELSE slots[p][k]]]
      /\ got' = got
  BY DEF RecvError, CloseEnd, SlotsCleared
<1>3. e0 \in End /\ e0 # None
  BY <1>1, <1>2, LocalFacts, NameAssumption
<1>4. conns[e0].who = p
  BY <1>1, <1>3, LocalFacts
<1>5. conns \in [End -> EndType]
  BY <1>1, Types
<1>6. EndsClosed(p, {fd}, conns, {e0})
  BY <1>2, <1>3, <1>4, <1>5 DEF EndsClosed
<1>7. /\ slots' \in [Process -> [Addresses -> Fd \cup {None}]]
      /\ \A k \in Addresses : slots'[p][k] = IF slots[p][k] = fd THEN None ELSE slots[p][k]
      /\ \A q \in Process : q # p => slots'[q] = slots[q]
  BY <1>1, <1>2, Types
<1>8. SlotsAfter(p, {fd})
  <2>1. \A k \in Addresses : slots[p][k] # None =>
           slots[p][k] \in Fd /\ table[p][slots[p][k]] # None /\ FarAddress(table[p][slots[p][k]]) = k
    BY <1>1, Types DEF Local
  <2>2. QED
    BY <1>7, <2>1 DEF SlotsAfter
<1>9. /\ OtherTypes' /\ sends' >= sends /\ sending' = [sending EXCEPT ![p] = None]
      /\ \A q \in Process : SendStep(q, None)
  BY <1>1, <1>2, IdleStep DEF TypeOK
<1>10. conns' \in [End -> EndType] /\ LocalTypes' /\ \A q \in Process : Local(q)'
  BY <1>1, <1>2, <1>6, <1>8, <1>9, ClosingStep
<1>11. \A e \in End : Quiet(conns, conns', e)
  BY <1>2, <1>3, <1>5, CloseQuiet
<1>12. QED
  BY <1>9, <1>10, <1>11, QuietStep

(* What is read, and from whom. *)
LEMMA Received ==
    ASSUME TransportInv, NEW p \in Process, NEW fd \in Fd, fd \in active[p],
           Queue(table[p][fd]) # <<>>
    PROVE  LET e == table[p][fd]
               m == Head(Queue(e))
           IN  /\ e \in End /\ conns[e].up = "open" /\ conns[e].who = p
               /\ conns[e].queue \in Seq(Packet) /\ 1 \in DOMAIN conns[e].queue
               /\ m = conns[e].queue[1] /\ m \in Packet /\ m.src \in Addresses
               /\ m.src = FarAddress(e) /\ m.dst = Address(p)
               /\ m.n = 0 => Len(conns[e].queue) = 1
<1> DEFINE e == table[p][fd]
           q == conns[e].queue
<1>1. TypeOK /\ Local(p) /\ \A x \in End : InOrder(conns, x)
  BY Parts
<1>2. e \in End /\ e # None
  BY <1>1, LocalFacts, NameAssumption
<1>3. conns[e].up = "open" /\ conns[e].who = p
  BY <1>1, <1>2, LocalFacts DEF State
<1>4. q \in Seq(Packet) /\ q # <<>>
  BY <1>1, <1>2, Types DEF Queue
<1>5. 1 \in DOMAIN q /\ Head(q) = q[1] /\ q[1] \in Packet
  BY <1>4
<1>6. q[1].src = FarAddress(e) /\ q[1].dst = Address(p) /\ (q[1].n = 0 => Len(q) = 1)
  BY <1>1, <1>2, <1>3, <1>5 DEF InOrder, FarAddress
<1>7. q[1].src \in Addresses
  BY <1>5 DEF Packet
<1> HIDE DEF e
<1>8. QED
  BY <1>2, <1>3, <1>4, <1>5, <1>6, <1>7 DEF Queue, e

LEMMA ReceivePacketInv ==
    ASSUME TransportInv, NEW p \in Process, NEW fd \in Fd, ReceivePacket(p, fd),
           sending[p] = None, UNCHANGED <<sending, sends, crashes>>
    PROVE  TransportInv' /\ WireStep(None)
<1> DEFINE e0 == table[p][fd]
           m == Head(Queue(e0))
           older == Older(p, fd, m.src)
           r == [conns[e0] EXCEPT !.queue = Tail(conns[e0].queue)]
           mid == [conns EXCEPT ![e0] = r]
           ends == {table[p][old] : old \in older}
<1>1. TypeOK /\ \A q \in Process : Local(q)
  BY Parts
<1>2. /\ fd \in active[p] /\ Queue(e0) # <<>>
      /\ conns' = CloseEnds(mid, ends) /\ Closed(p, older)
      /\ slots' = [slots EXCEPT ![p][m.src] = fd]
      /\ got' = [got EXCEPT ![p] = got[p] \cup {m}]
  BY DEF ReceivePacket
<1>3. /\ e0 \in End /\ conns[e0].up = "open" /\ conns[e0].who = p /\ conns[e0].queue \in Seq(Packet)
      /\ m \in Packet /\ m.src \in Addresses /\ m.src = FarAddress(e0)
  BY <1>2, Received
<1>4. conns[e0].queue # <<>>
  BY <1>2 DEF Queue
<1>5. conns \in [End -> EndType]
  BY <1>1, Types
<1>6. /\ Shrinks(conns[e0].queue, Tail(conns[e0].queue))
      /\ r \in EndType /\ r.who = conns[e0].who /\ r.up = conns[e0].up /\ r.queue = Tail(conns[e0].queue)
  <2>1. Tail(conns[e0].queue) \in Seq(Packet) /\ Shrinks(conns[e0].queue, Tail(conns[e0].queue))
    BY <1>3, <1>4, ShrinkCases
  <2>2. conns[e0] \in EndType
    BY <1>3, <1>5
  <2>3. QED
    BY <2>1, <2>2 DEF EndType
<1> HIDE DEF r, m
<1>7. /\ mid \in [End -> EndType] /\ mid[e0] = r
      /\ \A e \in End : e # e0 => mid[e] = conns[e]
      /\ \A e \in End : mid[e].up = conns[e].up /\ mid[e].who = conns[e].who
  BY <1>3, <1>5, <1>6
<1> HIDE DEF mid
<1>8. older = {slots[p][m.src]} \ {None, fd}
  BY DEF Older
<1>9. \A old \in older : /\ old \in Fd /\ old # fd /\ old = slots[p][m.src]
                         /\ table[p][old] \in End /\ conns[table[p][old]].who = p
  <2>1. slots[p][m.src] # None =>
           slots[p][m.src] \in Fd /\ table[p][slots[p][m.src]] # None
    BY <1>1, <1>3, Types DEF Local
  <2>2. QED
    BY <1>1, <1>8, <2>1, LocalFacts
<1> HIDE DEF older
<1>10. EndsClosed(p, older, mid, ends)
  BY <1>2, <1>7, <1>9 DEF EndsClosed
<1>11. /\ slots' \in [Process -> [Addresses -> Fd \cup {None}]]
       /\ slots'[p][m.src] = fd /\ \A k \in Addresses : k # m.src => slots'[p][k] = slots[p][k]
       /\ \A q \in Process : q # p => slots'[q] = slots[q]
  BY <1>1, <1>2, <1>3, Types
<1>12. SlotsAfter(p, older)
  <2>1. ASSUME NEW k \in Addresses, slots'[p][k] # None
        PROVE  /\ slots'[p][k] \in Fd \ older /\ table[p][slots'[p][k]] # None
               /\ FarAddress(table[p][slots'[p][k]]) = k
    <3>1. CASE k = m.src
      BY <1>3, <1>9, <1>11, <3>1, NameAssumption
    <3>2. CASE k # m.src
      <4>1. slots'[p][k] = slots[p][k]
        BY <1>11, <3>2
      <4>2. slots[p][k] \in Fd /\ table[p][slots[p][k]] # None /\ FarAddress(table[p][slots[p][k]]) = k
        BY <1>1, <2>1, <4>1, Types DEF Local
      <4>3. slots[p][k] \notin older
        <5>1. slots[p][m.src] # None => FarAddress(table[p][slots[p][m.src]]) = m.src
          BY <1>1, <1>3 DEF Local
        <5>2. QED
          BY <1>9, <2>1, <3>2, <4>1, <4>2, <5>1
      <4>4. QED
        BY <4>1, <4>2, <4>3
    <3>3. QED
      BY <3>1, <3>2
  <2>2. ASSUME NEW k \in Addresses, slots[p][k] \in Fd \ older PROVE slots'[p][k] = slots[p][k]
    <3>1. CASE k = m.src
      BY <1>8, <1>11, <2>2, <3>1, NameAssumption
    <3>2. CASE k # m.src
      BY <1>11, <3>2
    <3>3. QED
      BY <3>1, <3>2
  <2>3. QED
    BY <1>11, <2>1, <2>2 DEF SlotsAfter
<1>13. got' \in [Process -> SUBSET Packet]
  BY <1>1, <1>2, <1>3 DEF TypeOK
<1>14. /\ OtherTypes' /\ sends' >= sends /\ sending' = [sending EXCEPT ![p] = None]
       /\ \A q \in Process : SendStep(q, None)
  BY <1>1, <1>13, IdleStep
<1>15. conns' \in [End -> EndType] /\ LocalTypes' /\ \A q \in Process : Local(q)'
  BY <1>1, <1>2, <1>10, <1>12, <1>14, ClosingStep
<1>16. ASSUME NEW e \in End PROVE Quiet(conns, conns', e)
  <2>1. Quiet(conns, mid, e)
    <3>1. CASE e = e0
      BY <1>3, <1>6, <1>7, <3>1, Ends DEF Quiet
    <3>2. CASE e # e0
      BY <1>5, <1>7, <3>2, Ends, SameQuiet
    <3>3. QED
      BY <3>1, <3>2
  <2>2. QED
    BY <1>2, <1>5, <1>7, <1>10, <2>1, ClosedQuiet DEF EndsClosed
<1>17. QED
  BY <1>14, <1>15, <1>16, QuietStep

LEMMA CrashInv ==
    ASSUME TransportInv, NEW p \in Process, Crash(p) PROVE TransportInv' /\ WireStep(None)
<1> DEFINE held == {table[p][fd] : fd \in Fd \ FreeFds(p)}
           ends == held \cup {e \in End : State(e) = "backlog" /\ conns[e].who = p}
<1>1. TypeOK /\ \A q \in Process : Local(q)
  BY Parts
<1>2. /\ crashes < MaxCrashes /\ crashes' = crashes + 1
      /\ conns' = CloseEnds(conns, ends) /\ Closed(p, Fd)
      /\ slots' = [slots EXCEPT ![p] = [k \in Addresses |-> None]]
      /\ sending' = [sending EXCEPT ![p] = None] /\ got' = got /\ sends' = sends
  BY DEF Crash
<1>3. ASSUME NEW e \in held PROVE e \in End /\ conns[e].who = p /\ \E fd \in Fd : table[p][fd] = e
  <2>1. PICK fd \in Fd \ FreeFds(p) : e = table[p][fd]
    OBVIOUS
  <2>2. table[p][fd] # None
    BY DEF FreeFds
  <2>3. QED
    BY <1>1, <2>1, <2>2, LocalFacts
<1> HIDE DEF held
<1>4. conns \in [End -> EndType]
  BY <1>1, Types
<1>5. EndsClosed(p, Fd, conns, ends)
  <2>1. ends \in SUBSET End
    BY <1>3
  <2>2. ASSUME NEW e \in ends, State(e) = "open"
        PROVE  conns[e].who = p /\ \E fd \in Fd : table[p][fd] = e
    BY <1>3, <2>2
  <2>3. QED
    BY <1>2, <1>4, <2>1, <2>2 DEF EndsClosed
<1> HIDE DEF ends
<1>6. /\ slots' \in [Process -> [Addresses -> Fd \cup {None}]]
      /\ \A k \in Addresses : slots'[p][k] = None
      /\ \A q \in Process : q # p => slots'[q] = slots[q]
  BY <1>1, <1>2, Types
<1>7. SlotsAfter(p, Fd)
  BY <1>6 DEF SlotsAfter
<1>8. conns' \in [End -> EndType] /\ LocalTypes' /\ \A q \in Process : Local(q)'
  BY <1>1, <1>2, <1>5, <1>7, ClosingStep
<1>9. \A q \in Process : SendStep(q, None)
  BY <1>1, <1>2, Types DEF SendStep
<1>10. OtherTypes' /\ sends' >= sends
  <2>1. sending' \in [Process -> [fd : Fd, pkt : Packet] \cup {None}]
    BY <1>1, <1>2, Types
  <2>2. crashes' \in 0 .. MaxCrashes
    BY <1>1, <1>2, BoundAssumption DEF TypeOK
  <2>3. QED
    BY <1>1, <1>2, <2>1, <2>2, Types, TypesApart DEF OtherTypes
<1>11. \A e \in End : Quiet(conns, conns', e)
  BY <1>2, <1>4, <1>5, CloseQuiet DEF EndsClosed
<1>12. QED
  BY <1>8, <1>9, <1>10, <1>11, QuietStep

LEMMA InitInv == ASSUME Init PROVE TransportInv
<1>1. /\ conns = [e \in End |-> Unused]
      /\ table = [p \in Process |-> [fd \in Fd |-> None]]
      /\ slots = [p \in Process |-> [k \in Addresses |-> None]]
      /\ active = [p \in Process |-> {}]
      /\ sending = [p \in Process |-> None]
      /\ got = [p \in Process |-> {}]
      /\ sends = 0 /\ crashes = 0
  BY DEF Init
<1>2. /\ \A e \in End : conns[e].queue = <<>> /\ Len(conns[e].queue) = 0 /\ DOMAIN conns[e].queue = {}
      /\ conns \in [End -> EndType]
  BY <1>1, UnusedType DEF Unused
<1>3. TypeOK
  <2>1. Cardinality({}) = 0
    BY FS_EmptySet
  <2>2. LocalTypes /\ OtherTypes
    BY <1>1, <2>1, BoundAssumption DEF LocalTypes, OtherTypes
  <2>3. QED
    BY <1>2, <2>2, BoundAssumption DEF TypeOK, LocalTypes, OtherTypes, EndType, Queue
<1>4. OneCopy
  BY <1>1, <1>2 DEF OneCopy, Queue
<1>5. \A p \in Process : Local(p)
  BY <1>1 DEF Local
<1>6. \A e \in End : InOrder(conns, e)
  BY <1>2 DEF InOrder
<1>7. QED
  BY <1>3, <1>4, <1>5, <1>6, Parts

LEMMA NextInv == ASSUME TransportInv, [Next]_vars PROVE TransportInv'
<1>1. CASE UNCHANGED vars
  <2>1. /\ UNCHANGED <<local, sending, got, sends, crashes>> /\ conns' = conns
    BY <1>1 DEF vars
  <2>2. conns \in [End -> EndType]
    BY Parts, Types
  <2>3. \A e \in End : Quiet(conns, conns', e) /\ (State(e) = "open" => Firm(e))
    BY <2>1, <2>2, SameQuiet DEF Firm, State
  <2>4. QED
    BY <2>1, <2>2, <2>3, NetStep
<1>2. ASSUME NEW p \in Process, NEW dst \in Addresses, StartSend(p, dst) PROVE TransportInv'
  BY <1>2, StartSendInv
<1>3. ASSUME NEW p \in Process, FinishSend(p) PROVE TransportInv'
  BY <1>3, SendTimeoutInv, SendWholeInv, SendBrokenInv DEF FinishSend
<1>4. ASSUME NEW p \in Process, Accept(p) PROVE TransportInv'
  BY <1>4, AcceptInv
<1>5. ASSUME NEW p \in Process, socket_receive(p) PROVE TransportInv'
  <2>1. sending[p] = None /\ UNCHANGED <<sending, sends, crashes>>
    BY <1>5 DEF socket_receive
  <2>2. PICK fd \in Fd : ReceivePacket(p, fd) \/ RecvError(p, fd)
    BY <1>5 DEF socket_receive
  <2>3. QED
    BY <2>1, <2>2, ReceivePacketInv, RecvErrorInv
<1>6. ASSUME NEW p \in Process, Crash(p) PROVE TransportInv'
  BY <1>6, CrashInv
<1>7. ASSUME NEW c \in Connection, Handshake(c) PROVE TransportInv'
  BY <1>7, HandshakeInv
<1>8. ASSUME NEW e \in End, LoseTail(e) PROVE TransportInv'
  BY <1>8, LoseTailInv
<1>9. QED
  BY <1>1, <1>2, <1>3, <1>4, <1>5, <1>6, <1>7, <1>8 DEF Next

(* Each descriptor of transport-socket.c has an open end of its own, slots  *)
(* lead where they should, and each packet is in one place, for any number  *)
(* of processes, descriptors and connections.                               *)
THEOREM TransportInvariant == Spec => []TransportInv
<1>1. Init => TransportInv
  BY InitInv
<1>2. TransportInv /\ [Next]_vars => TransportInv'
  BY NextInv
<1>3. QED
  BY <1>1, <1>2, PTL DEF Spec

(* Every variable of the transport keeps its type; active_fds never holds   *)
(* more than MAX_CONNECTIONS descriptors.                                   *)
THEOREM TransportTyped == Spec => []TypeOK
<1>1. TransportInv => TypeOK
  BY DEF TransportInv
<1>2. QED
  BY <1>1, TransportInvariant, PTL

(* peer_fds, client_fds and active_fds hold no descriptor that was closed,  *)
(* and a slot's connection leads to the process with its address.           *)
THEOREM SlotsLeadHome == Spec => []SlotsPointHome
<1>1. TransportInv => SlotsPointHome
  BY DEF TransportInv
<1>2. QED
  BY <1>1, TransportInvariant, PTL

(* An open descriptor is in active_fds or in a slot: socket_receive and     *)
(* socket_send lose none.                                                   *)
THEOREM DescriptorsAreKept == Spec => []NoDescriptorLeak
<1>1. TransportInv => NoDescriptorLeak
  BY DEF TransportInv
<1>2. QED
  BY <1>1, TransportInvariant, PTL

-----------------------------------------------------------------------------
(* The transport is a lossy network. *)

LEMMA ReceiveWire ==
    ASSUME TransportInv, NEW p \in Process, NEW fd \in Fd, ReceivePacket(p, fd),
           sending' = sending, WireStep(None)
    PROVE  LET m == Head(Queue(table[p][fd]))
           IN  m \in OnWire /\ m \notin OnWire' /\ m.dst = Address(p)
<1> DEFINE e0 == table[p][fd]
           m == Head(Queue(e0))
           older == Older(p, fd, m.src)
           q == Tail(conns[e0].queue)
           r == [conns[e0] EXCEPT !.queue = q]
           mid == [conns EXCEPT ![e0] = r]
           ends == {table[p][old] : old \in older}
<1>1. TypeOK /\ OneCopy /\ (\A x \in Process : Local(x)) /\ conns \in [End -> EndType]
  BY Parts, Types
<1>2. /\ fd \in active[p] /\ Queue(e0) # <<>> /\ (m.n # 0 \/ Len(Queue(e0)) > 1)
      /\ conns' = CloseEnds(mid, ends)
  BY DEF ReceivePacket
<1>3. /\ e0 \in End /\ conns[e0].up = "open" /\ conns[e0].queue \in Seq(Packet)
      /\ 1 \in DOMAIN conns[e0].queue /\ m = conns[e0].queue[1] /\ m.src \in Addresses
      /\ m.dst = Address(p) /\ (m.n = 0 => Len(conns[e0].queue) = 1)
  BY <1>2, Received
<1>4. m.n # 0
  <2>1. m.n # 0 \/ Len(conns[e0].queue) > 1
    BY <1>2 DEF Queue
  <2>2. m.n = 0 => Len(conns[e0].queue) = 1
    BY <1>3
  <2>3. Len(conns[e0].queue) = 1 => ~ (Len(conns[e0].queue) > 1)
    <3>1. SUFFICES ASSUME NEW n, n = 1 PROVE ~ (n > 1)
      BY Zenon
    <3>2. QED
      BY <3>1
  <2>4. QED
    BY <2>1, <2>2, <2>3, Zenon
<1>5. q \in Seq(Packet) /\ DOMAIN q = 1 .. Len(conns[e0].queue) - 1
      /\ \A k \in DOMAIN q : q[k] = conns[e0].queue[k + 1] /\ k + 1 \in DOMAIN conns[e0].queue /\ k + 1 # 1
  <2>1. conns[e0].queue # <<>>
    BY <1>2 DEF Queue
  <2>2. QED
    BY <1>3, <2>1
<1>6. older \subseteq Fd \ {fd} /\ \A old \in older : table[p][old] # None
  <2>1. slots[p][m.src] # None =>
           slots[p][m.src] \in Fd /\ table[p][slots[p][m.src]] # None
    BY <1>1, <1>3, Types DEF Local
  <2>2. QED
    BY <2>1 DEF Older
<1>7. ends \in SUBSET End /\ e0 \notin ends
  <2>1. e0 # None
    BY <1>3, NameAssumption
  <2>2. \A old \in older : table[p][old] \in End /\ table[p][old] # e0
    BY <1>1, <1>6, <2>1, LocalFacts DEF Local
  <2>3. QED
    BY <2>2
<1> HIDE DEF m, q, older, ends
<1>8. r \in EndType /\ r.queue = q /\ r.up = "open"
  <2>1. conns[e0] \in EndType
    BY <1>1, <1>3
  <2>2. QED
    BY <1>3, <1>5, <2>1 DEF EndType
<1> HIDE DEF r
<1>9. mid \in [End -> EndType] /\ mid[e0] = r
  BY <1>1, <1>3, <1>8
<1> HIDE DEF mid
<1>10. conns'[e0] = r
  BY <1>2, <1>3, <1>7, <1>8, <1>9, CloseOne
<1> HIDE DEF e0
<1>11. /\ \A e \in End : \A k \in DOMAIN conns[e].queue : m = conns[e].queue[k] => e = e0 /\ k = 1
       /\ \A x \in Process : sending[x] # None => m # sending[x].pkt
  <2>1. /\ \A e, f \in End : \A j \in DOMAIN conns[e].queue, k \in DOMAIN conns[f].queue :
             conns[e].queue[j].n # 0 /\ conns[e].queue[j].n = conns[f].queue[k].n => e = f /\ j = k
        /\ \A x \in Process : sending[x] # None =>
             \A e \in End : \A k \in DOMAIN conns[e].queue : conns[e].queue[k].n # sending[x].pkt.n
    BY <1>1 DEF OneCopy, Queue
  <2>2. QED
    BY <1>3, <1>4, <2>1
<1>12. m \in OnWire
  BY <1>3, <1>4, WireMembers
<1>13. ASSUME m \in OnWire' PROVE FALSE
  <2>1. ASSUME NEW x \in Process, sending'[x] # None, m = sending'[x].pkt PROVE FALSE
    BY <1>11, <2>1
  <2>2. ASSUME NEW e \in End, NEW k \in DOMAIN conns'[e].queue, m = conns'[e].queue[k] PROVE FALSE
    <3>1. CASE e = e0
      <4>1. k \in DOMAIN q /\ m = conns[e0].queue[k + 1]
        BY <1>5, <1>8, <1>10, <2>2, <3>1
      <4>2. QED
        BY <1>3, <1>5, <1>11, <4>1
    <3>2. CASE e # e0
      <4>1. conns'[e].queue = mid[e].queue \/ conns'[e].queue = <<>>
        BY <1>2, <1>7, <1>9, CloseOne DEF Unused
      <4>2. mid[e] = conns[e]
        BY <1>1, <1>3, <3>2 DEF mid
      <4>3. k \in DOMAIN conns[e].queue /\ m = conns[e].queue[k]
        BY <2>2, <4>1, <4>2
      <4>4. QED
        BY <1>11, <3>2, <4>3
    <3>3. QED
      BY <3>1, <3>2
  <2>3. QED
    BY <1>13, <2>1, <2>2, WireMembersNext
<1>14. QED
  BY <1>3, <1>12, <1>13 DEF m, e0

LEMMA LoseRefines ==
    ASSUME WireStep(None), got' = got, sends' = sends
    PROVE  Net!Next
<1>1. OnWire' \in SUBSET OnWire
  BY DEF WireStep
<1>2. Net!Lose
  BY <1>1 DEF Net!Lose, Net!Keep
<1>3. QED
  BY <1>2 DEF Net!Next

LEMMA StartSendRefines ==
    ASSUME TransportInv, TransportInv', NEW p \in Process, NEW dst \in Addresses, StartSend(p, dst)
    PROVE  Net!Next
<1> DEFINE m == [src |-> Address(p), dst |-> dst, n |-> sends + 1]
<1>1. WireStep(p) /\ TypeOK /\ TypeOK'
  BY StartSendInv DEF TransportInv
<1>2. sends' = sends + 1 /\ got' = got
  BY DEF StartSend
<1>3. PICK fd : sending' = [sending EXCEPT ![p] = [fd |-> fd, pkt |-> m]]
  BY DEF StartSend
<1>4. sending'[p].pkt = m
  BY <1>1, <1>3, Types
<1>5. m.n = sends + 1 /\ m.src = Address(p)
  OBVIOUS
<1>6. m \in Packet
  <2>1. sends + 1 \in 0 .. MaxSends
    BY <1>1, <1>2 DEF TypeOK
  <2>2. QED
    BY <2>1 DEF Packet, Address, Addresses, Process
<1> HIDE DEF m
<1>7. OnWire' \in SUBSET (OnWire \cup {m})
  BY <1>1, <1>4 DEF WireStep
<1>8. Net!Send(p)
  BY <1>2, <1>5, <1>6, <1>7 DEF Net!Send, Net!Keep
<1>9. QED
  BY <1>8 DEF Net!Next

LEMMA ReceiveRefines ==
    ASSUME TransportInv, NEW p \in Process, NEW fd \in Fd, ReceivePacket(p, fd),
           sending[p] = None, UNCHANGED <<sending, sends, crashes>>
    PROVE  Net!Next
<1> DEFINE m == Head(Queue(table[p][fd]))
<1>1. WireStep(None)
  BY ReceivePacketInv
<1>2. m \in OnWire /\ m \notin OnWire' /\ m.dst = Address(p)
  BY <1>1, ReceiveWire
<1>3. got' = [got EXCEPT ![p] = @ \cup {m}] /\ sends' = sends
  BY DEF ReceivePacket
<1> HIDE DEF m
<1>4. OnWire' \in SUBSET (OnWire \ {m})
  BY <1>1, <1>2 DEF WireStep
<1>5. Net!Deliver(p)
  BY <1>2, <1>3, <1>4 DEF Net!Deliver, Net!Keep
<1>6. QED
  BY <1>5 DEF Net!Next

LEMMA NextRefines ==
    ASSUME TransportInv, TransportInv', [Next]_vars
    PROVE  [Net!Next]_<<OnWire, got, sends>>
<1>1. CASE UNCHANGED vars
  <2>1. conns' = conns /\ sending' = sending /\ got' = got /\ sends' = sends
    BY <1>1 DEF vars
  <2>2. OnWire' = OnWire
    BY <2>1 DEF OnWire, Queue
  <2>3. QED
    BY <2>1, <2>2
<1>2. ASSUME NEW p \in Process, NEW dst \in Addresses, StartSend(p, dst) PROVE Net!Next
  BY <1>2, StartSendRefines
<1>3. ASSUME NEW p \in Process, FinishSend(p) PROVE Net!Next
  <2>1. WireStep(None)
    BY <1>3, SendTimeoutInv, SendWholeInv, SendBrokenInv DEF FinishSend
  <2>2. SendDone(p)
    BY <1>3 DEF FinishSend, SendTimeout, SendWhole, SendBroken
  <2>3. QED
    BY <2>1, <2>2, LoseRefines DEF SendDone
<1>4. ASSUME NEW p \in Process, Accept(p) PROVE Net!Next
  BY <1>4, AcceptInv, LoseRefines DEF Accept
<1>5. ASSUME NEW p \in Process, socket_receive(p) PROVE Net!Next
  <2>1. sending[p] = None /\ UNCHANGED <<sending, sends, crashes>> /\ sends' = sends
    BY <1>5 DEF socket_receive
  <2>2. PICK fd \in Fd : ReceivePacket(p, fd) \/ RecvError(p, fd)
    BY <1>5 DEF socket_receive
  <2>3. CASE ReceivePacket(p, fd)
    BY <2>1, <2>3, ReceiveRefines
  <2>4. CASE RecvError(p, fd)
    <3>1. WireStep(None)
      BY <2>1, <2>4, RecvErrorInv
    <3>2. got' = got
      BY <2>4 DEF RecvError
    <3>3. QED
      BY <2>1, <3>1, <3>2, LoseRefines
  <2>5. QED
    BY <2>2, <2>3, <2>4
<1>6. ASSUME NEW p \in Process, Crash(p) PROVE Net!Next
  BY <1>6, CrashInv, LoseRefines DEF Crash
<1>7. ASSUME NEW c \in Connection, Handshake(c) PROVE Net!Next
  BY <1>7, HandshakeInv, LoseRefines DEF Handshake
<1>8. ASSUME NEW e \in End, LoseTail(e) PROVE Net!Next
  BY <1>8, LoseTailInv, LoseRefines DEF LoseTail
<1>9. QED
  BY <1>1, <1>2, <1>3, <1>4, <1>5, <1>6, <1>7, <1>8 DEF Next

LEMMA InitRefines == ASSUME Init PROVE Net!Init
<1>1. /\ conns = [e \in End |-> Unused] /\ sending = [p \in Process |-> None]
      /\ got = [p \in Process |-> {}] /\ sends = 0
  BY DEF Init
<1>2. \A e \in End : DOMAIN conns[e].queue = {}
  BY <1>1 DEF Unused
<1>3. ASSUME NEW m \in OnWire PROVE FALSE
  BY <1>1, <1>2, WireMembers
<1>4. OnWire = {}
  BY <1>3
<1>5. QED
  BY <1>1, <1>4 DEF Net!Init

(* socket_send and socket_receive hand each packet to a process with its    *)
(* address, whole and at most once, through partial writes, crossing and    *)
(* replaced connections, resets and restarts: the network that raft.c and   *)
(* the clients assume.                                                      *)
THEOREM TransportImplementsNetwork == Spec => ImplementsLossyNetwork
<1>1. Init => Net!Init
  BY InitRefines
<1>2. TransportInv /\ TransportInv' /\ [Next]_vars => [Net!Next]_<<OnWire, got, sends>>
  BY NextRefines
<1>3. QED
  BY <1>1, <1>2, TransportInvariant, PTL DEF Spec, Net!Spec, ImplementsLossyNetwork
=============================================================================
