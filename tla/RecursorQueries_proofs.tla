----------------------- MODULE RecursorQueries_proofs -----------------------
(***************************************************************************)
(* The recursor's outgoing queries, for any number of threads, questions,  *)
(* ids and descriptors: one query per question on the wire, the sockets of *)
(* the pool those of the queries that wait, and every chained thread woken *)
(* when the answer has been handed out.                                    *)
(***************************************************************************)
EXTENDS RecursorQueries, TLAPS, FiniteSetTheorems

(***************************************************************************)
(* The types that the steps rely on (the bound on asks is TLC's).          *)
(***************************************************************************)
Entry == [t : Threads, left : Int, chain : SUBSET Ids]
Event == [pc : {"resend", "deliver", "close"}, key : PacketID, last : Ids \cup {-1},
          kind : {"answer", "error"}, chained : SUBSET (Threads \X Nat)]
WaitersTyped == DOMAIN waiters \subseteq PacketID /\ \A p \in DOMAIN waiters : waiters[p] \in Entry
SocksTyped == socks \subseteq Fds
ThreadsTyped ==
  /\ running \in Threads \cup {Kernel}
  /\ thread \in [Threads -> [pc : {"new", "running", "waiting", "ended"}, asks : Nat]]
EventTyped == event = NoEvent \/ event \in Event

(* A waiting thread has one waiter, and the one that runs has none. *)
OneWaitEach ==
  /\ \A p \in DOMAIN waiters : thread[waiters[p].t].pc = "waiting"
  /\ \A p, o \in DOMAIN waiters : waiters[p].t = waiters[o].t => p = o
  /\ running # Kernel => thread[running].pc = "running"

(* What is worked on is still waiting while its chain is gone through. *)
KeyWaits == event.pc = "resend" => event.key \in DOMAIN waiters /\ event.key.fd # Chained

Waits == WaitersTyped /\ ThreadsTyped /\ EventTyped /\ OneWaitEach /\ KeyWaits

(***************************************************************************)
(* While an error is worked on, its query waits without a socket, whose    *)
(* number another query may get; while an answer's query goes on, its      *)
(* socket is still open without a waiter.                                  *)
(***************************************************************************)
Senders == {p \in DOMAIN waiters : p.fd # Chained}
Closed == IF event.pc = "resend" /\ event.kind = "error" THEN {event.key} ELSE {}
Closing == IF event.pc = "close" THEN {event.key.fd} ELSE {}
Holding == Senders \ Closed
SocketsHeld ==
  /\ SocksTyped
  /\ ~badReturn
  /\ socks = {p.fd : p \in Holding} \cup Closing
  /\ \A p, o \in Holding : p.fd = o.fd => p = o
  /\ \A p \in Holding : p.fd \notin Closing

(***************************************************************************)
(* A thread that is still waiting where it was when the packet came in is  *)
(* on the part of the chain that doResends has not come to; what is put on *)
(* or behind it meanwhile are later queries.                               *)
(***************************************************************************)
AsksGrow == event # NoEvent => \A c \in event.chained : thread[c[1]].asks >= c[2]
Awaits(c) ==
  \E w \in DOMAIN waiters :
    /\ waiters[w].t = c[1] /\ w.q = event.key.q /\ w.fd = Chained
    /\ w.id \in waiters[event.key].chain /\ w.id > event.last
ChainWaits ==
  event.pc = "resend" =>
    \A c \in event.chained :
      thread[c[1]].pc = "waiting" /\ thread[c[1]].asks = c[2] => Awaits(c)

-----------------------------------------------------------------------------
(* The constants as numbers. *)
LEMMA Constants ==
  /\ Ids \subseteq Nat /\ Fds \subseteq Nat /\ Chained \notin Fds /\ Kernel \notin Threads
  /\ Timeout \in Nat
BY QueriesAssumption DEF Fds, Chained, Threads, Kernel

(***************************************************************************)
(* Every set of numbers has a least one: otherwise the finite sets of its  *)
(* elements below one of them would have no minimal one.                   *)
(***************************************************************************)
LEMMA MinIsLeast ==
  ASSUME NEW S \in SUBSET Nat, S # {}
  PROVE  Min(S) \in S /\ \A y \in S : Min(S) <= y
<1> DEFINE Below(x) == {y \in S : y <= x}
           Belows == {Below(x) : x \in S}
<1>1. Belows \subseteq FiniteSubsetsOf(Nat) /\ Belows # {}
  <2>1. ASSUME NEW x \in S PROVE Below(x) \in FiniteSubsetsOf(Nat)
    <3>1. Below(x) \in SUBSET Nat /\ x \in Nat /\ \A y \in Below(x) : y <= x
      OBVIOUS
    <3> QED
      BY <3>1, FS_BoundedSetOfNaturals DEF FiniteSubsetsOf
  <2> HIDE DEF Below
  <2> QED
    BY <2>1
<1>2. PICK x \in S : \A y \in S : <<Below(y), Below(x)>> \notin StrictSubsetOrdering(Nat)
  <2>1. PICK B \in Belows : \A C \in Belows : <<C, B>> \notin StrictSubsetOrdering(Nat)
    <3> HIDE DEF Belows
    <3> QED
      BY <1>1, FS_StrictSubsetOrderingWellFounded, WFMin
  <2> QED
    BY <2>1
<1>3. ASSUME NEW y \in S, y < x
      PROVE  FALSE
  <2>1. y \in Nat /\ x \in Nat /\ \A z \in S : z \in Nat
    OBVIOUS
  <2>2. (\A z \in S : z <= y => z <= x) /\ x <= x /\ ~(x <= y)
    BY <1>3, <2>1
  <2>3. Below(y) \subseteq Below(x) /\ x \in Below(x) /\ x \notin Below(y)
    BY <2>2
  <2>4. Below(y) \in SUBSET Nat /\ Below(x) \in SUBSET Nat
    OBVIOUS
  <2> HIDE DEF Below
  <2> QED
    BY <1>2, <2>3, <2>4 DEF StrictSubsetOrdering
<1>4. \A y \in S : x <= y
  BY <1>3
<1> QED
  BY <1>4 DEF Min

(* asendto finds the query to chain onto, and getSocket a descriptor. *)
LEMMA ParentFound ==
  ASSUME WaitersTyped, NEW q, NEW id, Chainable(q, id) # {}
  PROVE  (CHOOSE p \in Chainable(q, id) : \A o \in Chainable(q, id) : p.fd <= o.fd)
           \in Chainable(q, id)
<1> DEFINE fds == {p.fd : p \in Chainable(q, id)}
<1>1. \A p \in Chainable(q, id) : p.fd \in Nat
  BY Constants DEF WaitersTyped, Chainable, PacketID
<1>2. fds \in SUBSET Nat /\ fds # {}
  BY <1>1
<1>3. PICK p \in Chainable(q, id) : p.fd = Min(fds)
  <2> HIDE DEF fds
  <2>1. Min(fds) \in fds
    BY <1>2, MinIsLeast
  <2> QED
    BY <2>1 DEF fds
<1>4. \A o \in Chainable(q, id) : p.fd <= o.fd
  <2>1. \A y \in fds : Min(fds) <= y
    <3> HIDE DEF fds
    <3> QED
      BY <1>2, MinIsLeast
  <2> QED
    BY <1>3, <2>1
<1> QED
  BY <1>3, <1>4

LEMMA DescriptorFound ==
  ASSUME SocksTyped, Fds # socks
  PROVE  Min(Fds \ socks) \in Fds \ socks
<1>1. Fds \ socks \in SUBSET Nat /\ Fds \ socks # {}
  BY Constants DEF SocksTyped
<1> QED
  BY <1>1, MinIsLeast

-----------------------------------------------------------------------------
(* A woken thread loses its one waiter. *)
LEMMA WakeEffect ==
  ASSUME Waits, NEW p \in DOMAIN waiters, Wake(p)
  PROVE  /\ DOMAIN waiters' = DOMAIN waiters \ {p}
         /\ \A k \in DOMAIN waiters' : waiters'[k] = waiters[k]
         /\ waiters[p].t \in Threads
         /\ \A t \in Threads : thread'[t].asks = thread[t].asks
                               /\ (t # waiters[p].t => thread'[t].pc = thread[t].pc)
         /\ thread'[waiters[p].t].pc = "running"
         /\ WaitersTyped' /\ ThreadsTyped' /\ OneWaitEach'
<1> DEFINE t == waiters[p].t
<1>1. t \in Threads
  BY DEF Waits, WaitersTyped, Entry
<1>2. DOMAIN waiters' = DOMAIN waiters \ {p} /\ \A k \in DOMAIN waiters' : waiters'[k] = waiters[k]
  BY DEF Wake, Without
<1>3. running' = t /\ thread' = [thread EXCEPT ![t].pc = "running"]
  BY DEF Wake
<1>4. \A o \in DOMAIN waiters : waiters[o].t = t => o = p
  BY DEF Waits, OneWaitEach
<1> HIDE DEF t
<1>5. WaitersTyped'
  BY <1>2 DEF Waits, WaitersTyped
<1>6. /\ \A u \in Threads : thread'[u].asks = thread[u].asks /\ (u # t => thread'[u].pc = thread[u].pc)
      /\ thread'[t].pc = "running"
      /\ ThreadsTyped'
  BY <1>1, <1>3 DEF Waits, ThreadsTyped
<1>7. OneWaitEach'
  BY <1>1, <1>2, <1>3, <1>4, <1>6 DEF Waits, OneWaitEach, WaitersTyped, Entry
<1> QED
  BY <1>1, <1>2, <1>5, <1>6, <1>7 DEF t

(* waitEvent, with a key that is free, by the thread that runs. *)
LEMMA WaitEventEffect ==
  ASSUME Waits, NEW t \in Threads, running = t,
         NEW p \in PacketID, p \notin DOMAIN waiters,
         NEW ws, DOMAIN ws = DOMAIN waiters,
         \A k \in DOMAIN waiters : ws[k] \in Entry /\ ws[k].t = waiters[k].t,
         WaitEvent(t, p, ws)
  PROVE  /\ DOMAIN waiters' = DOMAIN waiters \cup {p}
         /\ \A k \in DOMAIN waiters : waiters'[k] = ws[k]
         /\ waiters'[p].t = t
         /\ \A u \in Threads : u # t => thread'[u] = thread[u]
         /\ thread'[t].asks = thread[t].asks + 1
         /\ WaitersTyped' /\ ThreadsTyped' /\ OneWaitEach'
<1>1. /\ waiters' = [k \in DOMAIN waiters \cup {p} |->
                       IF k = p THEN [t |-> t, left |-> Timeout, chain |-> {}] ELSE ws[k]]
      /\ thread' = [thread EXCEPT ![t].pc = "waiting", ![t].asks = @ + 1]
      /\ running' = Kernel
  BY DEF WaitEvent
<1>2. thread[t].pc = "running" /\ \A k \in DOMAIN waiters : waiters[k].t # t /\ waiters[k].t \in Threads
  BY Constants DEF Waits, OneWaitEach, WaitersTyped, Entry
<1>3. /\ DOMAIN waiters' = DOMAIN waiters \cup {p}
      /\ \A k \in DOMAIN waiters : waiters'[k] = ws[k]
      /\ waiters'[p] = [t |-> t, left |-> Timeout, chain |-> {}]
  BY <1>1
<1>4. WaitersTyped'
  BY <1>3, Constants DEF Waits, WaitersTyped, Entry
<1>5. /\ \A u \in Threads : u # t => thread'[u] = thread[u]
      /\ thread'[t].asks = thread[t].asks + 1 /\ thread'[t].pc = "waiting"
      /\ ThreadsTyped'
  BY <1>1 DEF Waits, ThreadsTyped
<1>6. OneWaitEach'
  <2>1. /\ \A k \in DOMAIN waiters : waiters'[k].t = waiters[k].t /\ waiters'[k].t # t
                                     /\ thread'[waiters[k].t].pc = "waiting"
        /\ waiters'[p].t = t
    BY <1>2, <1>3, <1>5 DEF Waits, OneWaitEach
  <2>2. \A k \in DOMAIN waiters' : thread'[waiters'[k].t].pc = "waiting"
    BY <1>3, <1>5, <2>1
  <2>3. \A k, o \in DOMAIN waiters' : waiters'[k].t = waiters'[o].t => k = o
    BY <1>3, <2>1 DEF Waits, OneWaitEach
  <2> QED
    BY <1>1, <2>2, <2>3 DEF OneWaitEach
<1> QED
  BY <1>3, <1>4, <1>5, <1>6

(* A query that is chained: the parent's chain grows, and only that. *)
LEMMA AskChainedEffect ==
  ASSUME Waits, NEW t \in Threads, NEW q \in Questions, NEW id \in Ids, AskChained(t, q, id)
  PROVE  /\ running = t /\ UNCHANGED <<socks, event, badReturn>>
         /\ \E own \in PacketID : own.fd = Chained /\ DOMAIN waiters' = DOMAIN waiters \cup {own}
         /\ \A k \in DOMAIN waiters : /\ waiters'[k].t = waiters[k].t
                                      /\ waiters[k].chain \subseteq waiters'[k].chain
         /\ \A u \in Threads : u # t => thread'[u] = thread[u]
         /\ thread'[t].asks = thread[t].asks + 1
         /\ WaitersTyped' /\ ThreadsTyped' /\ OneWaitEach'
<1> DEFINE parent == CHOOSE p \in Chainable(q, id) : \A o \in Chainable(q, id) : p.fd <= o.fd
           ws == [waiters EXCEPT ![parent].chain = @ \cup {id}]
           own == [q |-> q, fd |-> Chained, id |-> id]
<1>1. parent \in DOMAIN waiters
  BY ParentFound DEF AskChained, Waits, Chainable
<1>2. own \in PacketID /\ own.fd = Chained
  BY DEF PacketID
<1>3. running = t
  BY DEF AskChained, MayAsk
<1>4. /\ IF own \in DOMAIN waiters
         THEN /\ waiters' = ws
              /\ thread' = [thread EXCEPT ![t].asks = @ + 1]
              /\ UNCHANGED running
         ELSE WaitEvent(t, own, ws)
      /\ UNCHANGED <<socks, event, badReturn>>
  BY DEF AskChained
<1> HIDE DEF parent, own
<1>5. /\ DOMAIN ws = DOMAIN waiters
      /\ \A k \in DOMAIN waiters :
           ws[k] \in Entry /\ ws[k].t = waiters[k].t /\ waiters[k].chain \subseteq ws[k].chain
  BY <1>1 DEF Waits, WaitersTyped, Entry
<1> HIDE DEF ws
<1>6. CASE own \in DOMAIN waiters
  <2>1. waiters' = ws /\ thread' = [thread EXCEPT ![t].asks = @ + 1] /\ UNCHANGED running
    BY <1>4, <1>6
  <2>2. DOMAIN waiters' = DOMAIN waiters \cup {own}
    BY <1>5, <1>6, <2>1
  <2>3. WaitersTyped'
    BY <1>5, <2>1 DEF Waits, WaitersTyped
  <2>4. /\ \A u \in Threads : (u # t => thread'[u] = thread[u]) /\ thread'[u].pc = thread[u].pc
        /\ thread'[t].asks = thread[t].asks + 1
        /\ ThreadsTyped'
    BY <2>1 DEF Waits, ThreadsTyped
  <2>5. OneWaitEach'
    <3>1. \A k \in DOMAIN waiters : waiters'[k].t = waiters[k].t /\ waiters[k].t \in Threads
      BY <1>5, <2>1 DEF Waits, WaitersTyped, Entry
    <3>2. DOMAIN waiters' = DOMAIN waiters
      BY <1>5, <2>1
    <3> QED
      BY <1>3, <2>1, <2>4, <3>1, <3>2 DEF Waits, OneWaitEach
  <2> QED
    BY <1>2, <1>3, <1>4, <1>5, <2>1, <2>2, <2>3, <2>4, <2>5
<1>7. CASE own \notin DOMAIN waiters
  <2>1. WaitEvent(t, own, ws)
    BY <1>4, <1>7
  <2>2. /\ DOMAIN waiters' = DOMAIN waiters \cup {own}
        /\ \A k \in DOMAIN waiters : waiters'[k] = ws[k]
        /\ \A u \in Threads : u # t => thread'[u] = thread[u]
        /\ thread'[t].asks = thread[t].asks + 1
        /\ WaitersTyped' /\ ThreadsTyped' /\ OneWaitEach'
    BY <1>2, <1>3, <1>5, <1>7, <2>1, WaitEventEffect
  <2> QED
    BY <1>2, <1>3, <1>4, <1>5, <2>2
<1> QED
  BY <1>6, <1>7

(* A query of its own: no other sender has its question, and its socket is new. *)
LEMMA AskAloneEffect ==
  ASSUME Waits, SocksTyped, NEW t \in Threads, NEW q \in Questions, NEW id \in Ids, AskAlone(t, q, id)
  PROVE  /\ running = t /\ UNCHANGED <<event, badReturn>>
         /\ \E p \in PacketID :
              /\ p.q = q /\ p.fd \in Fds \ socks /\ p \notin DOMAIN waiters
              /\ \A o \in Senders : o.q # q
              /\ DOMAIN waiters' = DOMAIN waiters \cup {p} /\ socks' = socks \cup {p.fd}
         /\ \A k \in DOMAIN waiters : waiters'[k] = waiters[k]
         /\ \A u \in Threads : u # t => thread'[u] = thread[u]
         /\ thread'[t].asks = thread[t].asks + 1
         /\ WaitersTyped' /\ ThreadsTyped' /\ OneWaitEach'
<1> DEFINE fd == Min(Fds \ socks)
           p == [q |-> q, fd |-> fd, id |-> id]
<1>1. fd \in Fds \ socks
  BY DescriptorFound DEF AskAlone
<1>2. /\ running = t /\ Chainable(q, id) = {} /\ socks' = socks \cup {fd}
      /\ WaitEvent(t, p, waiters) /\ UNCHANGED <<event, badReturn>>
  BY DEF AskAlone, MayAsk
<1> HIDE DEF fd
<1>3. p \in PacketID /\ p.q = q /\ p.fd = fd
  BY <1>1 DEF PacketID
<1>4. \A o \in Senders : o.q # q
  BY <1>2 DEF Senders, Chainable
<1>5. p \notin DOMAIN waiters
  BY <1>1, <1>3, <1>4, Constants DEF Senders
<1> HIDE DEF p
<1>6. \A k \in DOMAIN waiters : waiters[k] \in Entry
  BY DEF Waits, WaitersTyped
<1>7. /\ DOMAIN waiters' = DOMAIN waiters \cup {p}
      /\ \A k \in DOMAIN waiters : waiters'[k] = waiters[k]
      /\ \A u \in Threads : u # t => thread'[u] = thread[u]
      /\ thread'[t].asks = thread[t].asks + 1
      /\ WaitersTyped' /\ ThreadsTyped' /\ OneWaitEach'
  <2>1. PICK ws : ws = waiters
    OBVIOUS
  <2>2. /\ DOMAIN ws = DOMAIN waiters
        /\ \A k \in DOMAIN waiters : ws[k] \in Entry /\ ws[k].t = waiters[k].t
        /\ WaitEvent(t, p, ws)
    BY <1>2, <1>6, <2>1
  <2>3. /\ DOMAIN waiters' = DOMAIN waiters \cup {p}
        /\ \A k \in DOMAIN waiters : waiters'[k] = ws[k]
        /\ \A u \in Threads : u # t => thread'[u] = thread[u]
        /\ thread'[t].asks = thread[t].asks + 1
        /\ WaitersTyped' /\ ThreadsTyped' /\ OneWaitEach'
    BY <1>2, <1>3, <1>5, <2>2, WaitEventEffect
  <2> QED
    BY <2>1, <2>3
<1> QED
  BY <1>1, <1>2, <1>3, <1>4, <1>5, <1>7

-----------------------------------------------------------------------------
QueriesInv == Waits /\ OneOutstanding /\ SocketsHeld /\ AsksGrow /\ ChainWaits /\ ResentToAll

(* Steps that leave the event alone: nobody's count of queries goes down, and who waits *)
(* for the query he waited for before is still behind it.                               *)
LEMMA ChainKept ==
  ASSUME QueriesInv, UNCHANGED event, ThreadsTyped',
         \A u \in Threads :
           /\ thread'[u].asks >= thread[u].asks
           /\ thread'[u].asks = thread[u].asks /\ thread'[u].pc = "waiting"
                => thread[u].pc = "waiting",
         \A k \in DOMAIN waiters : /\ k \in DOMAIN waiters' /\ waiters'[k].t = waiters[k].t
                                   /\ waiters[k].chain \subseteq waiters'[k].chain
  PROVE  AsksGrow' /\ ChainWaits' /\ ResentToAll'
<1>0. Waits /\ EventTyped /\ ThreadsTyped /\ KeyWaits /\ AsksGrow /\ ChainWaits /\ ResentToAll
  BY DEF QueriesInv, Waits
<1>1. ASSUME event # NoEvent, NEW c \in event.chained
      PROVE  /\ c[1] \in Threads /\ thread'[c[1]].asks >= c[2]
             /\ thread'[c[1]].pc = "waiting" /\ thread'[c[1]].asks = c[2]
                  => thread[c[1]].pc = "waiting" /\ thread[c[1]].asks = c[2]
  <2>1. c[1] \in Threads /\ c[2] \in Nat
    BY <1>0, <1>1 DEF EventTyped, Event
  <2>2. thread[c[1]].asks >= c[2] /\ thread[c[1]].asks \in Nat /\ thread'[c[1]].asks \in Nat
    BY <1>0, <1>1, <2>1 DEF AsksGrow, ThreadsTyped
  <2>3. thread'[c[1]].asks >= thread[c[1]].asks
    BY <2>1
  <2>4. thread'[c[1]].asks >= c[2] /\ (thread'[c[1]].asks = c[2] => thread[c[1]].asks = c[2])
    BY <2>1, <2>2, <2>3
  <2> QED
    BY <2>1, <2>4
<1>2. AsksGrow'
  BY <1>1 DEF AsksGrow
<1>3. event.pc \in {"resend", "close", "deliver"} => event # NoEvent
  BY DEF NoEvent
<1>4. ResentToAll'
  BY <1>0, <1>1, <1>3 DEF ResentToAll
<1>5. ASSUME event.pc = "resend", NEW c \in event.chained, Awaits(c)
      PROVE  Awaits(c)'
  BY <1>0, <1>5 DEF Awaits, KeyWaits
<1>6. ChainWaits'
  BY <1>0, <1>1, <1>3, <1>5 DEF ChainWaits
<1> QED
  BY <1>2, <1>4, <1>6

LEMMA NoEventFacts == NoEvent.pc = "none" /\ NoEvent \notin Event
BY DEF NoEvent, Event

(* Between packets there is no chain to look after. *)
LEMMA NoChain ==
  ASSUME event' = NoEvent
  PROVE  EventTyped' /\ KeyWaits' /\ AsksGrow' /\ ChainWaits' /\ ResentToAll'
BY NoEventFacts DEF EventTyped, KeyWaits, AsksGrow, ChainWaits, ResentToAll

(* Steps that neither send nor close. *)
LEMMA SocketsKept ==
  ASSUME SocketsHeld, UNCHANGED <<event, socks, badReturn>>, Senders' = Senders
  PROVE  SocketsHeld'
<1>1. Holding' = Holding /\ Closing' = Closing
  BY DEF Holding, Closed, Closing
<1> QED
  BY <1>1 DEF SocketsHeld, SocksTyped

LEMMA OutstandingSenders == OneOutstanding <=> \A p, o \in Senders : p.q = o.q => p = o
BY DEF OneOutstanding, Senders

-----------------------------------------------------------------------------
(* A thread starts or ends, or a query of its fails at once. *)
LEMMA ThreadKeeps ==
  ASSUME QueriesInv, NEW t \in Threads,
         \/ Start(t) \/ ThreadEnds(t) \/ \E q \in Questions, id \in Ids : AskFails(t, q, id)
  PROVE  QueriesInv'
<1>0. Waits /\ OneOutstanding /\ SocketsHeld
  BY DEF QueriesInv
<1>1. UNCHANGED <<waiters, socks, event, badReturn>>
  BY DEF Start, ThreadEnds, AskFails
<1>2. \A p \in DOMAIN waiters : waiters[p].t # t
  BY <1>0, Constants DEF Start, ThreadEnds, AskFails, MayAsk, Waits, OneWaitEach
<1>3. /\ ThreadsTyped'
      /\ \A u \in Threads : u # t => thread'[u] = thread[u]
      /\ thread'[t].asks >= thread[t].asks
      /\ thread'[t].pc # "waiting"
      /\ running' # Kernel => running' = t /\ thread'[t].pc = "running"
  <2>0. ThreadsTyped /\ thread[t].asks \in Nat
    BY <1>0 DEF Waits, ThreadsTyped
  <2>1. CASE Start(t)
    BY <2>0, <2>1 DEF ThreadsTyped, Start
  <2>2. CASE ThreadEnds(t)
    BY <2>0, <2>2 DEF ThreadsTyped, ThreadEnds
  <2>3. CASE \E q \in Questions, id \in Ids : AskFails(t, q, id)
    <3>1. running = t /\ running' = t /\ thread' = [thread EXCEPT ![t].asks = @ + 1]
      BY <2>3 DEF AskFails, MayAsk
    <3>2. thread[t].pc = "running"
      BY <1>0, <3>1, Constants DEF Waits, OneWaitEach
    <3> QED
      BY <2>0, <3>1, <3>2 DEF ThreadsTyped
  <2> QED
    BY <2>1, <2>2, <2>3
<1>4. WaitersTyped' /\ EventTyped' /\ KeyWaits'
  BY <1>0, <1>1 DEF Waits, WaitersTyped, EventTyped, KeyWaits
<1>5. OneWaitEach'
  BY <1>0, <1>1, <1>2, <1>3 DEF Waits, OneWaitEach, WaitersTyped, Entry
<1>6. OneOutstanding' /\ SocketsHeld'
  BY <1>0, <1>1, SocketsKept DEF OneOutstanding, Senders
<1>7. AsksGrow' /\ ChainWaits' /\ ResentToAll'
  <2>1. \A u \in Threads : thread'[u].asks >= thread[u].asks
                           /\ (thread'[u].pc = "waiting" => thread[u].pc = "waiting")
    <3>1. \A u \in Threads : thread[u].asks \in Nat
      BY <1>0 DEF Waits, ThreadsTyped
    <3> QED
      BY <1>3, <3>1
  <2> QED
    BY <1>1, <1>3, <2>1, ChainKept
<1> QED
  BY <1>3, <1>4, <1>5, <1>6, <1>7 DEF QueriesInv, Waits

(* A thread asks, chained or alone. *)
LEMMA AskKeeps ==
  ASSUME QueriesInv, NEW t \in Threads, NEW q \in Questions, NEW id \in Ids,
         AskChained(t, q, id) \/ AskAlone(t, q, id)
  PROVE  QueriesInv'
<1>0. Waits /\ OneOutstanding /\ SocketsHeld /\ SocksTyped /\ ThreadsTyped
  BY DEF QueriesInv, Waits, SocketsHeld
<1>1. /\ running = t /\ UNCHANGED <<event, badReturn>>
      /\ \A k \in DOMAIN waiters : /\ k \in DOMAIN waiters' /\ waiters'[k].t = waiters[k].t
                                   /\ waiters[k].chain \subseteq waiters'[k].chain
      /\ \A u \in Threads : u # t => thread'[u] = thread[u]
      /\ thread'[t].asks = thread[t].asks + 1
      /\ WaitersTyped' /\ ThreadsTyped' /\ OneWaitEach'
  <2>1. CASE AskChained(t, q, id)
    BY <1>0, <2>1, AskChainedEffect
  <2>2. CASE AskAlone(t, q, id)
    BY <1>0, <2>2, AskAloneEffect
  <2> QED
    BY <2>1, <2>2
<1>2. EventTyped' /\ KeyWaits'
  BY <1>0, <1>1 DEF Waits, EventTyped, KeyWaits
<1>3. AsksGrow' /\ ChainWaits' /\ ResentToAll'
  <2>1. \A u \in Threads :
          /\ thread'[u].asks >= thread[u].asks
          /\ thread'[u].asks = thread[u].asks /\ thread'[u].pc = "waiting"
               => thread[u].pc = "waiting"
    <3>1. \A u \in Threads : thread[u].asks \in Nat
      BY <1>0 DEF ThreadsTyped
    <3> QED
      BY <1>1, <3>1
  <2> QED
    BY <1>1, <2>1, ChainKept
<1>4. OneOutstanding' /\ SocketsHeld'
  <2>1. CASE AskChained(t, q, id)
    <3>1. PICK own \in PacketID : own.fd = Chained /\ DOMAIN waiters' = DOMAIN waiters \cup {own}
      BY <1>0, <2>1, AskChainedEffect
    <3>2. Senders' = Senders /\ UNCHANGED socks
      BY <1>0, <2>1, <3>1, AskChainedEffect DEF Senders
    <3> QED
      BY <1>0, <1>1, <3>2, SocketsKept, OutstandingSenders DEF OneOutstanding, Senders
  <2>2. CASE AskAlone(t, q, id)
    <3>1. PICK p \in PacketID : /\ p.q = q /\ p.fd \in Fds \ socks /\ p \notin DOMAIN waiters
                                /\ \A o \in Senders : o.q # q
                                /\ DOMAIN waiters' = DOMAIN waiters \cup {p} /\ socks' = socks \cup {p.fd}
      BY <1>0, <2>2, AskAloneEffect
    <3>2. Senders' = Senders \cup {p}
      BY <3>1, Constants DEF Senders
    <3>3. OneOutstanding'
      BY <1>0, <3>1, <3>2 DEF OneOutstanding, Senders
    <3>4. p \notin Closed /\ Closed' = Closed /\ Closing' = Closing
      BY <1>0, <1>1, <3>1 DEF Closed, Closing, Waits, KeyWaits
    <3>5. Holding' = Holding \cup {p}
      BY <3>2, <3>4 DEF Holding
    <3>6. \A o \in Holding : o.fd # p.fd
      BY <1>0, <3>1 DEF SocketsHeld
    <3>7. p.fd \notin Closing
      BY <1>0, <3>1 DEF SocketsHeld
    <3>8. {o.fd : o \in Holding'} = {o.fd : o \in Holding} \cup {p.fd}
      BY <3>5
    <3>9. socks' = {o.fd : o \in Holding'} \cup Closing' /\ SocksTyped'
      BY <1>0, <3>1, <3>4, <3>8 DEF SocketsHeld, SocksTyped
    <3>10. (\A o, r \in Holding' : o.fd = r.fd => o = r) /\ \A o \in Holding' : o.fd \notin Closing'
      BY <1>0, <3>4, <3>5, <3>6, <3>7 DEF SocketsHeld
    <3> QED
      BY <1>0, <1>1, <3>3, <3>9, <3>10 DEF SocketsHeld
  <2> QED
    BY <2>1, <2>2
<1> QED
  BY <1>1, <1>2, <1>3, <1>4 DEF QueriesInv, Waits

-----------------------------------------------------------------------------
(* A woken query is off the list; with a chained one, no sender is. *)
LEMMA WakeSenders ==
  ASSUME Waits, NEW p \in DOMAIN waiters, Wake(p)
  PROVE  Senders' = Senders \ {p} /\ (OneOutstanding => OneOutstanding')
<1>1. DOMAIN waiters' = DOMAIN waiters \ {p}
  BY WakeEffect
<1> QED
  BY <1>1 DEF Senders, OneOutstanding

(* The sockets in hand stay as they are. *)
LEMMA SocketsStay ==
  ASSUME SocketsHeld, UNCHANGED <<socks, badReturn>>, Holding' = Holding, Closing' = Closing
  PROVE  SocketsHeld'
BY DEF SocketsHeld, SocksTyped

(* A query's socket is returned. *)
LEMMA SocketReturned ==
  ASSUME SocketsHeld, NEW p \in Holding, ReturnSocket(p.fd),
         Holding' = Holding \ {p}, Closing' = Closing
  PROVE  SocketsHeld'
<1>1. p.fd \in socks /\ p.fd \notin Closing
  BY DEF SocketsHeld
<1>2. socks' = socks \ {p.fd} /\ ~badReturn' /\ SocksTyped'
  BY <1>1 DEF SocketsHeld, ReturnSocket, SocksTyped
<1>3. \A o \in Holding' : o \in Holding /\ o.fd # p.fd
  BY DEF SocketsHeld
<1>4. \A o \in Holding : o.fd # p.fd => o \in Holding'
  OBVIOUS
<1>5. socks' = {o.fd : o \in Holding'} \cup Closing'
  <2>1. socks = {o.fd : o \in Holding} \cup Closing
    BY DEF SocketsHeld
  <2> QED
    BY <1>1, <1>2, <1>3, <1>4, <2>1
<1> QED
  BY <1>2, <1>3, <1>5 DEF SocketsHeld

(* A query goes on, its socket still open. *)
LEMMA SocketLent ==
  ASSUME SocketsHeld, UNCHANGED <<socks, badReturn>>, NEW p \in Holding,
         Holding' = Holding \ {p}, Closing = {}, Closing' = {p.fd}
  PROVE  SocketsHeld'
<1>1. \A o \in Holding' : o \in Holding /\ o.fd # p.fd
  BY DEF SocketsHeld
<1>2. {o.fd : o \in Holding'} \cup {p.fd} = {o.fd : o \in Holding}
  BY <1>1
<1> QED
  BY <1>1, <1>2 DEF SocketsHeld, SocksTyped

(* Between packets, the sockets are those of the queries that wait. *)
LEMMA Between ==
  ASSUME event = NoEvent
  PROVE  Holding = Senders /\ Closing = {}
BY NoEventFacts DEF Holding, Closed, Closing

LEMMA BetweenNext ==
  ASSUME event' = NoEvent
  PROVE  Holding' = Senders' /\ Closing' = {}
BY NoEventFacts DEF Holding, Closed, Closing

-----------------------------------------------------------------------------
(* The clock. *)
LEMMA TickKeeps ==
  ASSUME QueriesInv, Tick
  PROVE  QueriesInv'
<1>0. Waits /\ WaitersTyped /\ OneOutstanding /\ SocketsHeld
  BY DEF QueriesInv, Waits
<1>1. /\ DOMAIN waiters' = DOMAIN waiters
      /\ UNCHANGED <<socks, running, event, thread, badReturn>>
      /\ \A p \in DOMAIN waiters :
           waiters'[p] = [waiters[p] EXCEPT !.left = IF @ >= 0 THEN @ - 1 ELSE @]
  BY DEF Tick
<1>2. \A p \in DOMAIN waiters : waiters'[p] \in Entry /\ waiters'[p].t = waiters[p].t
                                  /\ waiters'[p].chain = waiters[p].chain
  BY <1>0, <1>1 DEF WaitersTyped, Entry
<1>3. WaitersTyped' /\ ThreadsTyped' /\ EventTyped' /\ KeyWaits'
  BY <1>0, <1>1, <1>2 DEF Waits, WaitersTyped, ThreadsTyped, EventTyped, KeyWaits
<1>4. OneWaitEach'
  BY <1>0, <1>1, <1>2 DEF Waits, OneWaitEach
<1>5. OneOutstanding' /\ SocketsHeld'
  BY <1>0, <1>1, SocketsKept DEF OneOutstanding, Senders
<1>6. AsksGrow' /\ ChainWaits' /\ ResentToAll'
  <2>1. \A u \in Threads : thread'[u].asks >= thread[u].asks
                           /\ (thread'[u].pc = "waiting" => thread[u].pc = "waiting")
    <3>1. \A u \in Threads : thread[u].asks \in Nat
      BY <1>0 DEF Waits, ThreadsTyped
    <3> QED
      BY <1>1, <3>1
  <2> QED
    BY <1>1, <1>2, <1>3, <2>1, ChainKept
<1> QED
  BY <1>3, <1>4, <1>5, <1>6 DEF QueriesInv, Waits

(* A query times out: the thread runs, and a socket of its own goes back. *)
LEMMA TimesOutKeeps ==
  ASSUME QueriesInv, NEW p \in DOMAIN waiters, TimesOut(p)
  PROVE  QueriesInv'
<1>0. Waits /\ OneOutstanding /\ SocketsHeld
  BY DEF QueriesInv
<1>1. event = NoEvent /\ event' = NoEvent /\ Wake(p)
  BY DEF TimesOut, InLoop
<1>2. WaitersTyped' /\ ThreadsTyped' /\ OneWaitEach' /\ Senders' = Senders \ {p} /\ OneOutstanding'
  BY <1>0, <1>1, WakeEffect, WakeSenders
<1>3. EventTyped' /\ KeyWaits' /\ AsksGrow' /\ ChainWaits' /\ ResentToAll'
  BY <1>1, NoChain
<1>4. Holding = Senders /\ Closing = {} /\ Holding' = Senders \ {p} /\ Closing' = {}
  BY <1>1, <1>2, Between, BetweenNext
<1>5. SocketsHeld'
  <2>1. CASE p.fd # Chained
    <3>1. p \in Holding /\ ReturnSocket(p.fd)
      BY <1>4, <2>1 DEF TimesOut, Senders
    <3> QED
      BY <1>0, <1>4, <3>1, SocketReturned
  <2>2. CASE p.fd = Chained
    <3>1. Holding' = Holding /\ UNCHANGED <<socks, badReturn>>
      BY <1>4, <2>2 DEF TimesOut, Senders
    <3> QED
      BY <1>0, <1>4, <3>1, SocketsStay
  <2> QED
    BY <2>1, <2>2
<1> QED
  BY <1>2, <1>3, <1>5 DEF QueriesInv, Waits

(* An answer or an error comes in: all that is chained is still to be gone through. *)
LEMMA BeginEffect ==
  ASSUME QueriesInv, NEW p \in DOMAIN waiters, p.fd # Chained, NEW kind \in {"answer", "error"},
         Begin(p, kind), UNCHANGED <<waiters, running, thread>>
  PROVE  /\ event'.pc = "resend" /\ event'.key = p /\ event'.kind = kind
         /\ Waits' /\ OneOutstanding' /\ AsksGrow' /\ ChainWaits' /\ ResentToAll'
<1>0. Waits /\ WaitersTyped /\ ThreadsTyped /\ OneOutstanding
  BY DEF QueriesInv, Waits
<1> DEFINE chained == {<<waiters[c].t, thread[waiters[c].t].asks>> : c \in ChainOf(p)}
<1>1. \A c \in ChainOf(p) : /\ c \in DOMAIN waiters /\ c.q = p.q /\ c.fd = Chained
                            /\ c.id \in waiters[p].chain /\ c.id \in Ids /\ waiters[c].t \in Threads
  BY <1>0 DEF ChainOf, WaitersTyped, PacketID, Entry
<1>2. chained \subseteq Threads \X Nat
  BY <1>0, <1>1 DEF ThreadsTyped
<1>3. \A d \in chained :
        \E c \in ChainOf(p) : d[1] = waiters[c].t /\ d[2] = thread[waiters[c].t].asks
  OBVIOUS
<1>4. event' = [pc |-> "resend", key |-> p, last |-> -1, kind |-> kind, chained |-> chained]
  BY DEF Begin
<1> HIDE DEF chained
<1>5. /\ event'.pc = "resend" /\ event'.key = p /\ event'.last = -1
      /\ event'.kind = kind /\ event'.chained = chained
  BY <1>4
<1>6. event' \in Event
  BY <1>0, <1>2, <1>4 DEF Event, WaitersTyped
<1>7. Waits'
  BY <1>0, <1>5, <1>6
     DEF Waits, WaitersTyped, ThreadsTyped, EventTyped, OneWaitEach, KeyWaits
<1>8. AsksGrow'
  <2>1. \A d \in chained : thread[d[1]].asks >= d[2]
    BY <1>0, <1>1, <1>3 DEF ThreadsTyped
  <2> QED
    BY <1>5, <2>1 DEF AsksGrow
<1>9. ChainWaits'
  <2>1. ASSUME NEW d \in chained PROVE Awaits(d)'
    <3>1. PICK c \in ChainOf(p) : d[1] = waiters[c].t
      BY <1>3
    <3>2. \A n \in Nat : n > -1
      OBVIOUS
    <3>3. c.id > -1
      <4>1. c.id \in Nat
        BY <1>1, Constants
      <4> QED
        BY <3>2, <4>1
    <3> QED
      BY <1>1, <1>5, <3>1, <3>3 DEF Awaits
  <2> QED
    BY <1>5, <2>1 DEF ChainWaits
<1> QED
  BY <1>0, <1>5, <1>7, <1>8, <1>9 DEF OneOutstanding, ResentToAll

LEMMA BeginKeeps ==
  ASSUME QueriesInv, NEW p \in DOMAIN waiters, ReadError(p) \/ GoodAnswer(p)
  PROVE  QueriesInv'
<1>0. SocketsHeld
  BY DEF QueriesInv
<1>1. /\ event = NoEvent /\ p.fd # Chained /\ UNCHANGED <<waiters, running, thread>>
      /\ p \in Senders
  BY DEF ReadError, GoodAnswer, InLoop, Senders
<1>2. Holding = Senders /\ Closing = {} /\ Senders' = Senders
  BY <1>1, Between DEF Senders
<1>3. CASE ReadError(p)
  <2>1. Begin(p, "error") /\ ReturnSocket(p.fd)
    BY <1>3 DEF ReadError
  <2>2. /\ event'.pc = "resend" /\ event'.key = p /\ event'.kind = "error"
        /\ Waits' /\ OneOutstanding' /\ AsksGrow' /\ ChainWaits' /\ ResentToAll'
    BY <1>1, <2>1, BeginEffect
  <2>3. Holding' = Holding \ {p} /\ Closing' = Closing
    BY <1>2, <2>2 DEF Holding, Closed, Closing
  <2>4. SocketsHeld'
    BY <1>0, <1>1, <1>2, <2>1, <2>3, SocketReturned
  <2> QED
    BY <2>2, <2>4 DEF QueriesInv
<1>4. CASE GoodAnswer(p)
  <2>1. Begin(p, "answer") /\ UNCHANGED <<socks, badReturn>>
    BY <1>4 DEF GoodAnswer
  <2>2. /\ event'.pc = "resend" /\ event'.key = p /\ event'.kind = "answer"
        /\ Waits' /\ OneOutstanding' /\ AsksGrow' /\ ChainWaits' /\ ResentToAll'
    BY <1>1, <2>1, BeginEffect
  <2>3. Holding' = Holding /\ Closing' = Closing
    BY <1>2, <2>2 DEF Holding, Closed, Closing
  <2>4. SocketsHeld'
    BY <1>0, <2>1, <2>3, SocketsStay
  <2> QED
    BY <2>2, <2>4 DEF QueriesInv
<1> QED
  BY <1>3, <1>4

(* A packet without a question: only the query runs, its socket still open. *)
LEMMA NoQuestionKeeps ==
  ASSUME QueriesInv, NEW p \in DOMAIN waiters, NoQuestion(p)
  PROVE  QueriesInv'
<1>0. Waits /\ WaitersTyped /\ OneOutstanding /\ SocketsHeld
  BY DEF QueriesInv, Waits
<1>1. /\ event = NoEvent /\ p \in Senders /\ Wake(p) /\ UNCHANGED <<socks, badReturn>>
      /\ p \in PacketID
  BY <1>0 DEF NoQuestion, InLoop, Senders, WaitersTyped
<1>2. event' = [pc |-> "close", key |-> p, last |-> -1, kind |-> "error", chained |-> {}]
  BY DEF NoQuestion
<1>3. WaitersTyped' /\ ThreadsTyped' /\ OneWaitEach' /\ Senders' = Senders \ {p} /\ OneOutstanding'
  BY <1>0, <1>1, WakeEffect, WakeSenders
<1>4. event'.pc = "close" /\ event'.key = p /\ event'.chained = {} /\ event' \in Event
  BY <1>1, <1>2 DEF Event
<1>5. EventTyped' /\ KeyWaits' /\ AsksGrow' /\ ChainWaits' /\ ResentToAll'
  BY <1>4 DEF EventTyped, KeyWaits, AsksGrow, ChainWaits, ResentToAll
<1>6. Holding = Senders /\ Closing = {} /\ Holding' = Senders \ {p} /\ Closing' = {p.fd}
  BY <1>1, <1>3, <1>4, Between DEF Holding, Closed, Closing
<1>7. SocketsHeld'
  BY <1>0, <1>1, <1>6, SocketLent
<1> QED
  BY <1>3, <1>5, <1>7 DEF QueriesInv, Waits

(* doResends comes to the next id of the chain, and wakes who waits with it. *)
LEMMA DoResendsKeeps ==
  ASSUME QueriesInv, DoResends
  PROVE  QueriesInv'
<1> DEFINE i == Min(NextIds)
           c == [q |-> event.key.q, fd |-> Chained, id |-> i]
<1>0. /\ Waits /\ WaitersTyped /\ ThreadsTyped /\ OneWaitEach /\ OneOutstanding /\ SocketsHeld
      /\ AsksGrow /\ ChainWaits
  BY DEF QueriesInv, Waits
<1>1. /\ event.pc = "resend" /\ NextIds # {} /\ event' = [event EXCEPT !.last = i]
      /\ UNCHANGED <<socks, badReturn>>
      /\ IF c \in DOMAIN waiters THEN Wake(c) ELSE UNCHANGED <<waiters, running, thread>>
  BY DEF DoResends
<1>2. event \in Event /\ event # NoEvent /\ event.key \in DOMAIN waiters /\ event.key.fd # Chained
  BY <1>0, <1>1, NoEventFacts DEF Waits, EventTyped, KeyWaits
<1>3. waiters[event.key].chain \subseteq Ids /\ Ids \subseteq Nat
  BY <1>0, <1>2, Constants DEF WaitersTyped, Entry
<1>4. i \in NextIds /\ \A n \in NextIds : i <= n
  <2>1. NextIds \in SUBSET Nat
    BY <1>3 DEF NextIds
  <2> QED
    BY <1>1, <2>1, MinIsLeast
<1>5. i \in Ids
  BY <1>3, <1>4 DEF NextIds
<1>6. c.q = event.key.q /\ c.fd = Chained /\ c.id = i
  OBVIOUS
<1>7. \A w \in DOMAIN waiters : w.q = event.key.q /\ w.fd = Chained /\ w.id = i => w = c
  BY <1>0 DEF WaitersTyped, PacketID
<1> HIDE DEF i, c
<1>8. /\ event' \in Event /\ event'.pc = "resend" /\ event'.key = event.key /\ event'.last = i
      /\ event'.kind = event.kind /\ event'.chained = event.chained
  BY <1>1, <1>2, <1>5 DEF Event
<1>9. /\ DOMAIN waiters' = DOMAIN waiters \ {c}
      /\ \A k \in DOMAIN waiters' : waiters'[k] = waiters[k]
      /\ \A u \in Threads : thread'[u].asks = thread[u].asks
                            /\ (thread'[u].pc = "waiting" => thread[u].pc = "waiting")
      /\ c \in DOMAIN waiters => thread'[waiters[c].t].pc = "running"
      /\ WaitersTyped' /\ ThreadsTyped' /\ OneWaitEach'
  <2>1. CASE c \in DOMAIN waiters
    <3>1. Wake(c)
      BY <1>1, <2>1
    <3> QED
      BY <1>0, <2>1, <3>1, WakeEffect
  <2>2. CASE c \notin DOMAIN waiters
    <3>1. UNCHANGED <<waiters, running, thread>>
      BY <1>1, <2>2
    <3> QED
      BY <1>0, <2>2, <3>1 DEF WaitersTyped, ThreadsTyped, OneWaitEach
  <2> QED
    BY <2>1, <2>2
<1>10. event.key # c /\ event.key \in DOMAIN waiters'
  BY <1>2, <1>6, <1>9
<1>11. Waits'
  BY <1>2, <1>8, <1>9, <1>10 DEF Waits, EventTyped, KeyWaits
<1>12. Senders' = Senders
  BY <1>6, <1>9 DEF Senders
<1>13. OneOutstanding' /\ SocketsHeld'
  <2>1. Holding' = Holding /\ Closing' = Closing
    BY <1>1, <1>8, <1>12 DEF Holding, Closed, Closing
  <2> QED
    BY <1>0, <1>1, <1>12, <2>1, SocketsStay, OutstandingSenders DEF OneOutstanding, Senders
<1>14. \A d \in event.chained : d[1] \in Threads
  BY <1>2 DEF Event
<1>15. AsksGrow' /\ ResentToAll'
  BY <1>0, <1>2, <1>8, <1>9, <1>14 DEF AsksGrow, ResentToAll
<1>16. ChainWaits'
  <2>1. ASSUME NEW d \in event.chained, thread'[d[1]].pc = "waiting", thread'[d[1]].asks = d[2]
        PROVE  Awaits(d)'
    <3>1. Awaits(d)
      BY <1>0, <1>1, <1>9, <1>14, <2>1 DEF ChainWaits
    <3>2. PICK w \in DOMAIN waiters : /\ waiters[w].t = d[1] /\ w.q = event.key.q /\ w.fd = Chained
                                      /\ w.id \in waiters[event.key].chain /\ w.id > event.last
      BY <3>1 DEF Awaits
    <3>3. w # c
      BY <1>9, <2>1, <3>2
    <3>4. w.id \in Nat /\ i \in Nat /\ w.id # i /\ i <= w.id
      BY <1>3, <1>4, <1>5, <1>7, <3>2, <3>3 DEF NextIds
    <3>5. w.id > i
      BY <3>4
    <3>6. w \in DOMAIN waiters' /\ waiters'[w] = waiters[w] /\ waiters'[event.key] = waiters[event.key]
      BY <1>9, <1>10, <3>2, <3>3
    <3> QED
      BY <1>8, <3>2, <3>5, <3>6 DEF Awaits
  <2> QED
    BY <1>8, <2>1 DEF ChainWaits
<1> QED
  BY <1>11, <1>13, <1>15, <1>16 DEF QueriesInv

(* The query itself is given what came in: by now nobody waits behind it. *)
LEMMA DeliverKeeps ==
  ASSUME QueriesInv, Deliver
  PROVE  QueriesInv'
<1>0. /\ Waits /\ WaitersTyped /\ ThreadsTyped /\ OneOutstanding /\ SocketsHeld
      /\ AsksGrow /\ ChainWaits
  BY DEF QueriesInv, Waits
<1>1. /\ event.pc = "resend" /\ NextIds = {} /\ Wake(event.key) /\ UNCHANGED <<socks, badReturn>>
      /\ event' = [event EXCEPT !.pc = IF event.kind = "answer" THEN "close" ELSE "deliver"]
  BY DEF Deliver
<1>2. event \in Event /\ event # NoEvent /\ event.key \in DOMAIN waiters /\ event.key \in Senders
  BY <1>0, <1>1, NoEventFacts DEF Waits, EventTyped, KeyWaits, Senders
<1>3. /\ event' \in Event /\ event'.pc = (IF event.kind = "answer" THEN "close" ELSE "deliver")
      /\ event'.key = event.key /\ event'.chained = event.chained
  BY <1>1, <1>2 DEF Event
<1>4. /\ \A u \in Threads : thread'[u].asks = thread[u].asks
                            /\ (thread'[u].pc = "waiting" => thread[u].pc = "waiting")
      /\ WaitersTyped' /\ ThreadsTyped' /\ OneWaitEach'
      /\ Senders' = Senders \ {event.key} /\ OneOutstanding'
  <2>1. PICK p \in DOMAIN waiters : p = event.key
    BY <1>2
  <2>2. Wake(p)
    BY <1>1, <2>1
  <2> QED
    BY <1>0, <2>1, <2>2, WakeEffect, WakeSenders
<1>5. Waits'
  BY <1>3, <1>4 DEF Waits, EventTyped, KeyWaits
<1>6. SocketsHeld'
  <2>1. CASE event.kind = "answer"
    <3>1. /\ event.key \in Holding /\ Closing = {}
          /\ Holding' = Holding \ {event.key} /\ Closing' = {event.key.fd}
      BY <1>1, <1>2, <1>3, <1>4, <2>1 DEF Holding, Closed, Closing
    <3>2. PICK p \in Holding : p = event.key
      BY <3>1
    <3> QED
      BY <1>0, <1>1, <3>1, <3>2, SocketLent
  <2>2. CASE event.kind # "answer"
    <3>1. event.kind = "error"
      BY <1>2, <2>2 DEF Event
    <3>2. Holding' = Holding /\ Closing' = Closing
      BY <1>1, <1>3, <1>4, <3>1 DEF Holding, Closed, Closing
    <3> QED
      BY <1>0, <1>1, <3>2, SocketsStay
  <2> QED
    BY <2>1, <2>2
<1>7. \A d \in event.chained : d[1] \in Threads
  BY <1>2 DEF Event
<1>8. AsksGrow' /\ ChainWaits'
  BY <1>0, <1>2, <1>3, <1>4, <1>7 DEF AsksGrow, ChainWaits
<1>9. ResentToAll'
  <2>1. \A d \in event.chained : ~Awaits(d)
    BY <1>1 DEF Awaits, NextIds
  <2> QED
    BY <1>0, <1>1, <1>3, <1>4, <1>7, <2>1 DEF ResentToAll, ChainWaits
<1> QED
  BY <1>4, <1>5, <1>6, <1>8, <1>9 DEF QueriesInv

(* The packet is done with; an answer's socket is returned. *)
LEMMA EndEventKeeps ==
  ASSUME QueriesInv, EndEvent
  PROVE  QueriesInv'
<1>0. Waits /\ OneOutstanding /\ SocketsHeld
  BY DEF QueriesInv
<1>1. event.pc \in {"close", "deliver"} /\ event' = NoEvent /\ UNCHANGED <<waiters, running, thread>>
  BY DEF EndEvent
<1>2. Waits' /\ AsksGrow' /\ ChainWaits' /\ ResentToAll'
  BY <1>0, <1>1, NoChain DEF Waits, WaitersTyped, ThreadsTyped, OneWaitEach
<1>3. Holding' = Holding /\ Closing' = {} /\ Holding = Senders
  BY <1>1, BetweenNext DEF Holding, Closed, Senders
<1>4. SocketsHeld'
  <2>1. CASE event.pc = "close"
    <3>1. Closing = {event.key.fd} /\ ReturnSocket(event.key.fd)
      BY <2>1 DEF Closing, EndEvent
    <3>2. event.key.fd \in socks /\ \A o \in Holding : o.fd # event.key.fd
      BY <1>0, <3>1 DEF SocketsHeld
    <3>3. socks' = socks \ {event.key.fd} /\ ~badReturn' /\ SocksTyped'
      BY <1>0, <3>1, <3>2 DEF SocketsHeld, ReturnSocket, SocksTyped
    <3>4. socks = {o.fd : o \in Holding} \cup {event.key.fd}
      BY <1>0, <3>1 DEF SocketsHeld
    <3>5. socks' = {o.fd : o \in Holding'} \cup Closing'
      BY <1>3, <3>2, <3>3, <3>4
    <3> QED
      BY <1>0, <1>3, <3>3, <3>5 DEF SocketsHeld
  <2>2. CASE event.pc = "deliver"
    <3>1. Closing = {} /\ UNCHANGED <<socks, badReturn>>
      BY <2>2 DEF Closing, EndEvent
    <3> QED
      BY <1>0, <1>3, <3>1, SocketsStay
  <2> QED
    BY <1>1, <2>1, <2>2
<1>5. OneOutstanding'
  BY <1>0, <1>1 DEF OneOutstanding
<1> QED
  BY <1>2, <1>4, <1>5 DEF QueriesInv

-----------------------------------------------------------------------------
LEMMA QueriesInit == Init => QueriesInv
<1> SUFFICES ASSUME Init PROVE QueriesInv
  OBVIOUS
<1>1. DOMAIN waiters = {} /\ socks = {} /\ running = Kernel /\ event = NoEvent /\ ~badReturn
  BY DEF Init
<1>2. ThreadsTyped /\ EventTyped /\ WaitersTyped
  BY <1>1 DEF Init, ThreadsTyped, EventTyped, WaitersTyped
<1>3. Waits
  BY <1>1, <1>2, NoEventFacts DEF Waits, OneWaitEach, KeyWaits
<1>4. SocketsHeld
  BY <1>1, Between DEF SocketsHeld, SocksTyped, Senders
<1> QED
  BY <1>1, <1>3, <1>4, NoEventFacts
     DEF QueriesInv, OneOutstanding, AsksGrow, ChainWaits, ResentToAll

LEMMA QueriesInductive == QueriesInv /\ [Next]_vars => QueriesInv'
<1> SUFFICES ASSUME QueriesInv, [Next]_vars PROVE QueriesInv'
  OBVIOUS
<1>1. ASSUME NEW t \in Threads, Start(t) \/ ThreadEnds(t) PROVE QueriesInv'
  BY <1>1, ThreadKeeps
<1>2. ASSUME NEW t \in Threads, NEW q \in Questions, NEW id \in Ids,
             AskChained(t, q, id) \/ AskAlone(t, q, id) \/ AskFails(t, q, id)
      PROVE  QueriesInv'
  BY <1>2, AskKeeps, ThreadKeeps
<1>3. CASE Tick
  BY <1>3, TickKeeps
<1>4. ASSUME NEW p \in DOMAIN waiters, TimesOut(p) \/ ReadError(p) \/ GoodAnswer(p) \/ NoQuestion(p)
      PROVE  QueriesInv'
  BY <1>4, TimesOutKeeps, BeginKeeps, NoQuestionKeeps
<1>5. CASE DoResends \/ Deliver \/ EndEvent
  BY <1>5, DoResendsKeeps, DeliverKeeps, EndEventKeeps
<1>6. CASE UNCHANGED vars
  <2>1. UNCHANGED <<waiters, socks, running, event, thread, badReturn>>
    BY <1>6 DEF vars
  <2>2. Waits' /\ OneOutstanding' /\ SocketsHeld'
    BY <2>1 DEF QueriesInv, Waits, WaitersTyped, ThreadsTyped, EventTyped, OneWaitEach, KeyWaits,
                OneOutstanding, SocketsHeld, SocksTyped, Holding, Senders, Closed, Closing
  <2>3. AsksGrow' /\ ChainWaits' /\ ResentToAll'
    BY <2>1 DEF QueriesInv, AsksGrow, ChainWaits, Awaits, ResentToAll
  <2> QED
    BY <2>2, <2>3 DEF QueriesInv
<1> QED
  BY <1>1, <1>2, <1>3, <1>4, <1>5, <1>6 DEF Next

LEMMA QueriesInvSafe == Spec => []QueriesInv
BY QueriesInit, QueriesInductive, PTL DEF Spec

(* At most one query per question is on the wire: asendto chains the others onto it. *)
THEOREM OneOutstandingSafe == Spec => []OneOutstanding
<1>1. QueriesInv => OneOutstanding
  BY DEF QueriesInv
<1> QED
  BY <1>1, QueriesInvSafe, PTL

(* Between packets the pool of UDPClientSocks is the sockets of the waiting queries: *)
(* none leaks and returnSocket never throws, whatever packets and timeouts come.     *)
THEOREM SocketsOwnedSafe == Spec => []SocketsOwned
<1>1. QueriesInv => SocketsOwned
  <2> SUFFICES ASSUME QueriesInv PROVE SocketsOwned
    OBVIOUS
  <2>1. SocketsHeld
    BY DEF QueriesInv
  <2>2. InLoop => socks = {p.fd : p \in Senders}
    BY <2>1, Between DEF InLoop, SocketsHeld
  <2> QED
    BY <2>1, <2>2 DEF SocketsOwned, SocketsHeld, Senders
<1> QED
  BY <1>1, QueriesInvSafe, PTL

(* When handleUDPServerResponse is done, everybody who was chained when the packet *)
(* came in has been woken, however the chain grew while doResends went through it. *)
THEOREM ResentSafe == Spec => []ResentToAll
<1>1. QueriesInv => ResentToAll
  BY DEF QueriesInv
<1> QED
  BY <1>1, QueriesInvSafe, PTL
=============================================================================
