-------------------------- MODULE RecursorQueries ---------------------------
(***************************************************************************)
(* The recursor's outgoing UDP queries (asendto, arecvfrom, doResends and  *)
(* handleUDPServerResponse of pdns_recursor.cc, class UDPClientSocks, and  *)
(* PacketID of syncres.hh) on top of MTasker.  A thread that asks what     *)
(* another one is already asking the same server sends nothing: it is      *)
(* chained onto that query and gets a copy of its answer.                  *)
(*                                                                         *)
(* A question stands for server, name and type.  One step is the code      *)
(* between two context switches, as in MTasker.  Whatever packets come in: *)
(* answers, with the right or a wrong id or without a question, errors.    *)
(* Near misses are not counted and TCP is left out.                        *)
(***************************************************************************)
EXTENDS Integers, FiniteSets, FiniteSetsExt

CONSTANTS
  MaxThreads, \* bound on the number of MTasker threads
  Questions,  \* server, name and type
  Ids,        \* DNS ids, drawn at random
  MaxFd,      \* descriptors the process may open
  Timeout,    \* network-timeout
  MaxAsks     \* bound on the number of queries

ASSUME QueriesAssumption ==
  /\ Ids \subseteq Nat /\ MaxThreads \in Nat /\ MaxFd \in Nat /\ Timeout \in Nat \ {0} /\ MaxAsks \in Nat

Threads == 1 .. MaxThreads
Fds == 1 .. MaxFd
Chained == -1    \* fd of a PacketID that has no socket
PacketID == [q : Questions, fd : Fds \cup {Chained}, id : Ids]
Kernel == 0

VARIABLES
  waiters,  \* MT->d_waiters: PacketID -> the thread, its time left, the ids chained
  socks,    \* t_udpclientsocks->d_socks
  running,  \* the thread on the processor, or Kernel
  event,    \* the packet that handleUDPServerResponse is at work on
  thread,   \* per thread: where it is, and how often it asked
  badReturn \* returnSocket was called for a socket that is not in the pool

vars == <<waiters, socks, running, event, thread, badReturn>>

NoEvent == [pc |-> "none"]

(* The type invariant. *)
TypeOK ==
  /\ DOMAIN waiters \subseteq PacketID
  /\ \A p \in DOMAIN waiters :
       waiters[p] \in [t : Threads, left : -1 .. Timeout, chain : SUBSET Ids]
  /\ socks \subseteq Fds
  /\ running \in Threads \cup {Kernel}
  /\ \/ event = NoEvent
     \/ event \in [pc : {"resend", "deliver", "close"}, key : PacketID, last : Ids \cup {-1},
                   kind : {"answer", "error"}, chained : SUBSET (Threads \X (1 .. MaxAsks))]
  /\ thread \in [Threads -> [pc : {"new", "running", "waiting", "ended"}, asks : 0 .. MaxAsks]]
  /\ badReturn \in BOOLEAN

Init ==
  /\ waiters = [p \in {} |-> 0]
  /\ socks = {}
  /\ running = Kernel
  /\ event = NoEvent
  /\ thread = [t \in Threads |-> [pc |-> "new", asks |-> 0]]
  /\ badReturn = FALSE

-----------------------------------------------------------------------------
Without(p) == [k \in DOMAIN waiters \ {p} |-> waiters[k]]

ReturnSocket(fd) ==
  /\ socks' = socks \ {fd}
  /\ badReturn' = (badReturn \/ fd \notin socks)

(* waitEvent with key p, by thread t; the other waiters are ws. *)
WaitEvent(t, p, ws) ==
  /\ waiters' = [k \in DOMAIN ws \cup {p} |->
                   IF k = p THEN [t |-> t, left |-> Timeout, chain |-> {}] ELSE ws[k]]
  /\ thread' = [thread EXCEPT ![t].pc = "waiting", ![t].asks = @ + 1]
  /\ running' = Kernel

(* The waiter of p runs again: sendEvent(p), or its time is over. *)
Wake(p) ==
  LET t == waiters[p].t
  IN /\ waiters' = Without(p)
     /\ running' = t
     /\ thread' = [thread EXCEPT ![t].pc = "running"]

-----------------------------------------------------------------------------
(***************************************************************************)
(* The threads: a thread asks, any question, or ends.                      *)
(***************************************************************************)
Asked == MapThenSumSet(LAMBDA o : thread[o].asks, Threads)
MayAsk(t) == running = t /\ Asked < MaxAsks

Chainable_sameId(q, id) == {p \in DOMAIN waiters : p.q = q /\ p.fd # Chained /\ p.id = id}
Chainable(q, id) == {p \in DOMAIN waiters : p.q = q /\ p.fd # Chained}

(* asendto and arecvfrom, onto an outstanding query.  A key that is taken   *)
(* (the same id was drawn before) makes waitEvent fail.                     *)
AskChained(t, q, id) ==
  LET parent == CHOOSE p \in Chainable(q, id) : \A o \in Chainable(q, id) : p.fd <= o.fd
      ws == [waiters EXCEPT ![parent].chain = @ \cup {id}]
      own == [q |-> q, fd |-> Chained, id |-> id]
  IN /\ MayAsk(t)
     /\ Chainable(q, id) # {}
     /\ IF own \in DOMAIN waiters
        THEN /\ waiters' = ws
             /\ thread' = [thread EXCEPT ![t].asks = @ + 1]
             /\ UNCHANGED running
        ELSE WaitEvent(t, own, ws)
     /\ UNCHANGED <<socks, event, badReturn>>

(* asendto and arecvfrom with a socket of its own. *)
AskAlone(t, q, id) ==
  /\ MayAsk(t)
  /\ Chainable(q, id) = {}
  /\ Fds # socks
  /\ LET fd == Min(Fds \ socks)
     IN /\ socks' = socks \cup {fd}
        /\ WaitEvent(t, [q |-> q, fd |-> fd, id |-> id], waiters)
  /\ UNCHANGED <<event, badReturn>>

(* No descriptor is left, or connect or send fails and the socket goes back. *)
AskFails(t, q, id) ==
  /\ MayAsk(t)
  /\ Chainable(q, id) = {}
  /\ thread' = [thread EXCEPT ![t].asks = @ + 1]
  /\ UNCHANGED <<waiters, socks, running, event, badReturn>>

ThreadEnds(t) ==
  /\ running = t
  /\ thread' = [thread EXCEPT ![t].pc = "ended"]
  /\ running' = Kernel
  /\ UNCHANGED <<waiters, socks, event, badReturn>>

-----------------------------------------------------------------------------
(***************************************************************************)
(* The kernel loop.                                                        *)
(***************************************************************************)
InLoop == running = Kernel /\ event = NoEvent

(* makeThread, for a client's question; tids are given out in order. *)
Start(t) ==
  /\ InLoop
  /\ \A o \in 1 .. t - 1 : thread[o].pc # "new"
  /\ thread[t].pc = "new"
  /\ running' = t
  /\ thread' = [thread EXCEPT ![t].pc = "running"]
  /\ UNCHANGED <<waiters, socks, event, badReturn>>

Tick ==
  /\ InLoop
  /\ \E p \in DOMAIN waiters : waiters[p].left >= 0
  /\ waiters' = [p \in DOMAIN waiters |->
                   [waiters[p] EXCEPT !.left = IF @ >= 0 THEN @ - 1 ELSE @]]
  /\ UNCHANGED <<socks, running, event, thread, badReturn>>

TimesOut_sendersOnly(p) ==
  /\ InLoop
  /\ p \in DOMAIN waiters /\ waiters[p].left = -1
  /\ p.fd # Chained
  /\ Wake(p)
  /\ ReturnSocket(p.fd)
  /\ UNCHANGED event
TimesOut_leak(p) ==
  /\ InLoop
  /\ p \in DOMAIN waiters /\ waiters[p].left = -1
  /\ Wake(p)
  /\ UNCHANGED <<socks, event, badReturn>>
TimesOut(p) ==
  /\ InLoop
  /\ p \in DOMAIN waiters /\ waiters[p].left = -1
  /\ Wake(p)
  /\ IF p.fd # Chained THEN ReturnSocket(p.fd) ELSE UNCHANGED <<socks, badReturn>>
  /\ UNCHANGED event

(***************************************************************************)
(* handleUDPServerResponse.  Its loop over the chain reads the set as it   *)
(* is by then: a thread that was just woken may chain itself on again.     *)
(***************************************************************************)
ChainOf(p) == {c \in DOMAIN waiters : c.q = p.q /\ c.fd = Chained /\ c.id \in waiters[p].chain}

Begin(p, kind) ==
  event' = [pc |-> "resend", key |-> p, last |-> -1, kind |-> kind,
            chained |-> {<<waiters[c].t, thread[waiters[c].t].asks>> : c \in ChainOf(p)}]

(* recvfrom fails: the socket is returned first. *)
ReadError(p) ==
  /\ InLoop
  /\ p \in DOMAIN waiters /\ p.fd # Chained
  /\ ReturnSocket(p.fd)
  /\ Begin(p, "error")
  /\ UNCHANGED <<waiters, running, thread>>

(* A packet with the id and question of the query. *)
GoodAnswer(p) ==
  /\ InLoop
  /\ p \in DOMAIN waiters /\ p.fd # Chained
  /\ Begin(p, "answer")
  /\ UNCHANGED <<waiters, socks, running, thread, badReturn>>

(***************************************************************************)
(* A packet with the id but no question: it matches no waiter, and the     *)
(* first waiter with that id lends it its question.  The query itself gets *)
(* it if that names it; those chained onto it do not.  Anything else is    *)
(* unexpected and discarded.                                               *)
(***************************************************************************)
NoQuestion(p) ==
  /\ InLoop
  /\ p \in DOMAIN waiters /\ p.fd # Chained
  /\ event' = [pc |-> "close", key |-> p, last |-> -1, kind |-> "error", chained |-> {}]
  /\ Wake(p)
  /\ UNCHANGED <<socks, badReturn>>

(* doResends: the next id of the chain. *)
NextIds_onlyFirst == {i \in waiters[event.key].chain : event.last = -1}
NextIds == {i \in waiters[event.key].chain : i > event.last}
DoResends ==
  LET i == Min(NextIds)
      c == [q |-> event.key.q, fd |-> Chained, id |-> i]
  IN /\ running = Kernel
     /\ event.pc = "resend"
     /\ NextIds # {}
     /\ event' = [event EXCEPT !.last = i]
     /\ IF c \in DOMAIN waiters THEN Wake(c)
                                ELSE UNCHANGED <<waiters, running, thread>>
     /\ UNCHANGED <<socks, badReturn>>

(* The query itself. *)
Deliver ==
  /\ running = Kernel
  /\ event.pc = "resend"
  /\ NextIds = {}
  /\ Wake(event.key)
  /\ event' = [event EXCEPT !.pc = IF event.kind = "answer" THEN "close" ELSE "deliver"]
  /\ UNCHANGED <<socks, badReturn>>

(* sendEvent is back; an answer's socket is returned only now. *)
EndEvent_alwaysCloses ==
  /\ running = Kernel
  /\ event.pc \in {"close", "deliver"}
  /\ ReturnSocket(event.key.fd)
  /\ event' = NoEvent
  /\ UNCHANGED <<waiters, running, thread>>
EndEvent ==
  /\ running = Kernel
  /\ event.pc \in {"close", "deliver"}
  /\ IF event.pc = "close" THEN ReturnSocket(event.key.fd) ELSE UNCHANGED <<socks, badReturn>>
  /\ event' = NoEvent
  /\ UNCHANGED <<waiters, running, thread>>

Next ==
  \/ \E t \in Threads : Start(t) \/ ThreadEnds(t)
  \/ \E t \in Threads, q \in Questions, id \in Ids :
       AskChained(t, q, id) \/ AskAlone(t, q, id) \/ AskFails(t, q, id)
  \/ Tick
  \/ \E p \in DOMAIN waiters : TimesOut(p) \/ ReadError(p) \/ GoodAnswer(p) \/ NoQuestion(p)
  \/ DoResends \/ Deliver \/ EndEvent

Spec == Init /\ [][Next]_vars

(* The kernel loop runs, the clock runs, threads give the processor back.   *)
(* No packet ever needs to come.                                            *)
FairSpec ==
  /\ Spec
  /\ WF_vars(DoResends \/ Deliver \/ EndEvent) /\ WF_vars(Tick)
  /\ \A t \in Threads :
       /\ WF_vars(Start(t))
       /\ WF_vars(ThreadEnds(t) \/ \E q \in Questions, id \in Ids :
                    AskChained(t, q, id) \/ AskAlone(t, q, id) \/ AskFails(t, q, id))
  /\ \A p \in PacketID : WF_vars(TimesOut(p))

-----------------------------------------------------------------------------
(***************************************************************************)
(* At most one query per question is on the wire, so that forged answers   *)
(* cannot profit from many open ids (PacketIDBirthdayCompare), also while  *)
(* the answers to a chain are handed out.                                  *)
(***************************************************************************)
OneOutstanding ==
  \A p, o \in DOMAIN waiters : p.q = o.q /\ p.fd # Chained /\ o.fd # Chained => p = o

(***************************************************************************)
(* Between packets, the sockets of the pool are exactly those of the       *)
(* waiting queries: none leaks, and none is returned twice, which would    *)
(* throw out of the kernel loop.                                           *)
(***************************************************************************)
SocketsOwned ==
  /\ ~badReturn
  /\ InLoop => socks = {p.fd : p \in {o \in DOMAIN waiters : o.fd # Chained}}

(***************************************************************************)
(* When handleUDPServerResponse is done with an answer or an error,        *)
(* everybody who was chained onto the query when the packet came in has    *)
(* been woken: doResends gets round the whole chain, while the threads it  *)
(* wakes ask again and add themselves to it.                               *)
(***************************************************************************)
ResentToAll ==
  event.pc \in {"close", "deliver"} =>
    \A c \in event.chained : thread[c[1]].pc = "waiting" => thread[c[1]].asks # c[2]

(* Every query of a thread comes back, whatever the network does. *)
QueriesEnd == \A t \in Threads : (thread[t].pc = "waiting") ~> (thread[t].pc # "waiting")
=============================================================================
