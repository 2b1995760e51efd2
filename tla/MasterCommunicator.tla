------------------------- MODULE MasterCommunicator -------------------------
(***************************************************************************)
(* The master half of the communicator (mastercommunicator.cc, the class   *)
(* NotificationQueue of communicator.hh and the main loop of               *)
(* communicator.cc): one thread finds zones whose serial differs from the  *)
(* one last announced, queues a NOTIFY for each address of their name      *)
(* servers, sends the due ones, retries with growing delays, takes         *)
(* answered ones off the queue and gives up after four.                    *)
(*                                                                         *)
(* Times are kept as the seconds still to go (due for the code's next -    *)
(* time(0)), never below zero, so the clock needs no bound.  A NOTIFY or   *)
(* its answer may be lost, late or duplicated, and the process may be      *)
(* restarted: the database keeps serial and notified, the queue is lost.   *)
(*                                                                         *)
(* The field serial of a queue entry and the variables settled and dropped *)
(* are history: no guard reads them.                                       *)
(***************************************************************************)
EXTENDS Integers, Sequences, SequencesExt, FiniteSetsExt

CONSTANTS
  MasterZones,   \* zones of kind MASTER in the database
  SlaveZones,    \* zones of kind SLAVE, announced again after a transfer
  OperatorZones, \* zones the operator runs "pdns_control notify" on
  V4, V6,        \* name server addresses, as written in the zone
  NameServers,   \* those of each zone, by its NS records and also-notify
  Ids,           \* DNS ids: Utility::random() % 0xffff
  CycleInterval, \* slave-cycle-interval
  Delay,         \* seconds from attempt n to the next: 1 + 2^n in the code
  MaxChanges,    \* bound on the changes of each zone
  MaxEvents      \* bound on restarts and on requests of other threads

Zones == MasterZones \cup SlaveZones
Slaves == V4 \cup V6
Serials == 0 .. Max({MaxChanges[z] : z \in Zones})
Pairs == Zones \X Slaves

ASSUME MasterAssumption ==
  /\ MasterZones \cap SlaveZones = {}
  /\ V4 \cap V6 = {} /\ IsFiniteSet(Slaves)
  /\ NameServers \in [Zones -> SUBSET Slaves]
  /\ CycleInterval \in Nat \ {0}
  /\ MaxChanges \in [Zones -> Nat]
  /\ Delay \in [1 .. 4 -> Nat \ {0}]

VARIABLES
  serial,    \* serial of the zone in the database
  notified,  \* notified_serial in the database
  nqueue,    \* d_nqueue
  network,   \* NOTIFYs sent and not answered yet; the retries make for late and double answers
  answers,   \* NOTIFY answers in the sockets' buffers
  anySem,    \* d_any_sem
  pc,        \* where the communicator thread is; "drain1" and "send1" are
             \* doNotifications called from the waiting loop
  cmdomains, \* what getUpdatedMasters returned and is still to be announced
  storing,   \* announcements whose NOTIFYs are queued and whose serial setNotified
             \* has not stored yet: by the communicator (0) or for another thread's request
  left,      \* seconds until next
  events,    \* restarts and requests so far
  settled,   \* newest serial whose NOTIFY was answered, or given up after its retries
  dropped    \* pairs whose last NOTIFY was never queued (address not found)
             \* or was lost in a restart

db == <<serial, notified>>
thread == <<pc, cmdomains, left>>
history == <<settled, dropped>>
vars == <<db, nqueue, network, answers, anySem, thread, storing, events, history>>

Notification == [domain : Zones, ip : Slaves, id : Ids]
NotificationRequest == [domain : Zones, ip : Slaves, id : Ids, serial : Serials,
                        attempts : 0 .. 4, due : Nat]
Announcement == [by : 0 .. MaxEvents, domain : Zones, serial : Serials]

(* The type invariant. *)
TypeOK ==
  /\ serial \in [Zones -> Serials]
  /\ notified \in [Zones -> Serials]
  /\ nqueue \in Seq(NotificationRequest)
  /\ network \subseteq Notification
  /\ answers \subseteq Notification
  /\ anySem \in 0 .. MaxEvents
  /\ pc \in {"update", "announce", "store", "drain", "send", "wait", "drain1", "send1"}
  /\ cmdomains \subseteq Zones \X Serials
  /\ storing \subseteq Announcement
  /\ left \in 0 .. CycleInterval
  /\ events \in 0 .. MaxEvents
  /\ settled \in [Pairs -> Serials]
  /\ dropped \subseteq Pairs

Init ==
  /\ serial = [z \in Zones |-> 0]
  /\ notified = [z \in Zones |-> 0]
  /\ nqueue = <<>>
  /\ network = {}
  /\ answers = {}
  /\ anySem = 0
  /\ pc = "update"
  /\ cmdomains = {}
  /\ storing = {}
  /\ left = 0
  /\ events = 0
  /\ settled = [p \in Pairs |-> 0]
  /\ dropped = {}

-----------------------------------------------------------------------------
(***************************************************************************)
(* NotificationQueue.  removeIf compares what precedes the first ':' of    *)
(* two addresses: the answer's is written "ip:port", or "[ip]:port" for    *)
(* IPv6, the queue's is the bare address, so for IPv6 a group of digits    *)
(* is compared with "[" and that group.                                    *)
(***************************************************************************)
HostPart(ip) == IF ip \in V6 THEN <<"group", ip>> ELSE <<"ip", ip>>
RemoteHostPart(ip) == IF ip \in V6 THEN <<"[group", ip>> ELSE <<"ip", ip>>

Matches_anyId(nr, a) ==
  HostPart(nr.ip) = RemoteHostPart(a.ip) /\ nr.domain = a.domain
Matches(nr, a) ==
  /\ nr.id = a.id
  /\ HostPart(nr.ip) = RemoteHostPart(a.ip)
  /\ nr.domain = a.domain

(* add, for each of a set of addresses. *)
Requests(z, ips, id, s) ==
  SetToSeq({[domain |-> z, ip |-> ip, id |-> id[ip], serial |-> s,
             attempts |-> 0, due |-> 0] : ip \in ips})
Add_unlessQueued(z, ips, id, s) ==
  nqueue \o Requests(z, {ip \in ips : \A nr \in ToSet(nqueue) :
                                        nr.domain # z \/ nr.ip # ip}, id, s)
Add(z, ips, id, s) == nqueue \o Requests(z, ips, id, s)

(* getOne on the request at position i: the queue afterwards. *)
GiveUpAfter == 4
GetOne_forever(i) ==
  LET n == Min({nqueue[i].attempts + 1, GiveUpAfter})
  IN [nqueue EXCEPT ![i].attempts = n, ![i].due = Delay[n]]
GetOne(i) ==
  LET n == nqueue[i].attempts + 1
  IN IF n > GiveUpAfter
     THEN RemoveAt(nqueue, i)
     ELSE [nqueue EXCEPT ![i].attempts = n, ![i].due = Delay[n]]

FirstDue == SelectInSeq(nqueue, LAMBDA nr : nr.due = 0)
Earliest == Min({nr.due : nr \in ToSet(nqueue)} \cup {CycleInterval})
Sub(a, b) == IF a > b THEN a - b ELSE 0

Settle(nr) ==
  settled' = [settled EXCEPT ![<<nr.domain, nr.ip>>] = Max({@, nr.serial})]

-----------------------------------------------------------------------------
(***************************************************************************)
(* The communicator thread: masterUpdateCheck, then doNotifications, then  *)
(* doNotifications every second until next or until d_any_sem is posted.   *)
(***************************************************************************)
NeedsNotification_new(z) == notified[z] = 0 /\ serial[z] # 0
NeedsNotification(z) == notified[z] # serial[z]
GetUpdatedMasters ==
  /\ pc = "update"
  /\ cmdomains' = {<<z, serial[z]>> : z \in {z \in MasterZones : NeedsNotification(z)}}
  /\ pc' = "announce"
  /\ UNCHANGED <<db, nqueue, network, answers, anySem, left, storing, events, history>>

(***************************************************************************)
(* queueNotifyDomain, with s to be stored by setNotified afterwards;       *)
(* addresses that are not found are skipped.                               *)
(***************************************************************************)
QueueNotifyDomain(by, z, s, ips, id) ==
  /\ nqueue' = Add(z, ips, id, serial[z])
  /\ storing' = storing \cup {[by |-> by, domain |-> z, serial |-> s]}
  /\ dropped' = (dropped \ ({z} \X ips)) \cup ({z} \X (NameServers[z] \ ips))
  /\ UNCHANGED <<db, network, answers, settled>>

SetNotified(r) ==
  /\ notified' = [notified EXCEPT ![r.domain] = r.serial]
  /\ storing' = storing \ {r}
  /\ UNCHANGED <<serial, nqueue, network, answers, anySem, cmdomains, left, events, history>>

Announce(z, s, ips, id) ==
  /\ pc = "announce"
  /\ <<z, s>> \in cmdomains
  /\ QueueNotifyDomain(0, z, s, ips, id)
  /\ cmdomains' = cmdomains \ {<<z, s>>}
  /\ pc' = "store"
  /\ UNCHANGED <<anySem, left, events>>

StoreNotified(r) ==
  /\ pc = "store"
  /\ r.by = 0
  /\ SetNotified(r)
  /\ pc' = "announce"

StartNotifications ==
  /\ pc = "announce"
  /\ cmdomains = {}
  /\ pc' = "drain"
  /\ UNCHANGED <<db, nqueue, network, answers, anySem, cmdomains, left, storing, events, history>>

(* doNotifications, first loop: one answer from the socket. *)
Drain(a) ==
  LET i == SelectInSeq(nqueue, LAMBDA nr : Matches(nr, a))
  IN /\ pc \in {"drain", "drain1"}
     /\ a \in answers
     /\ answers' = answers \ {a}
     /\ IF i = 0 THEN UNCHANGED <<nqueue, settled>>     \* spurious
                 ELSE /\ nqueue' = RemoveAt(nqueue, i)
                      /\ Settle(nqueue[i])
     /\ UNCHANGED <<db, network, anySem, thread, storing, events, dropped>>

EndDrain ==
  /\ pc \in {"drain", "drain1"}
  /\ answers = {}
  /\ pc' = IF pc = "drain" THEN "send" ELSE "send1"
  /\ UNCHANGED <<db, nqueue, network, answers, anySem, cmdomains, left, storing, events, history>>

(* doNotifications, second loop: getOne, and sendNotification unless purged. *)
Send ==
  LET i == FirstDue
      nr == nqueue[i]
      notification == [domain |-> nr.domain, ip |-> nr.ip, id |-> nr.id]
  IN /\ pc \in {"send", "send1"}
     /\ i # 0
     /\ nqueue' = GetOne(i)
     /\ IF nr.attempts = GiveUpAfter
        THEN Settle(nr) /\ UNCHANGED network
        ELSE /\ \/ /\ network' = network \cup {notification}
                \/ UNCHANGED network                    \* sending may fail
             /\ UNCHANGED settled
     /\ UNCHANGED <<db, answers, anySem, thread, storing, events, dropped>>

EndSend ==
  /\ pc \in {"send", "send1"}
  /\ FirstDue = 0
  /\ left' = IF pc = "send" THEN Earliest ELSE left
  /\ pc' = "wait"
  /\ UNCHANGED <<db, nqueue, network, answers, anySem, cmdomains, storing, events, history>>

TimePasses ==
  /\ nqueue' = [i \in DOMAIN nqueue |-> [nqueue[i] EXCEPT !.due = Sub(@, 1)]]
  /\ left' = Sub(left, 1)

(* The waiting loop: tryWait failed, sleep a second, doNotifications. *)
Sleep ==
  /\ pc = "wait"
  /\ left > 0
  /\ anySem = 0
  /\ TimePasses
  /\ pc' = "drain1"
  /\ UNCHANGED <<db, network, answers, anySem, cmdomains, storing, events, history>>

Awake ==
  /\ pc = "wait"
  /\ \/ left = 0 /\ UNCHANGED anySem
     \/ left > 0 /\ anySem > 0 /\ anySem' = anySem - 1
  /\ pc' = "update"
  /\ UNCHANGED <<db, nqueue, network, answers, cmdomains, left, storing, events, history>>

-----------------------------------------------------------------------------
(***************************************************************************)
(* The rest of the program and the world.                                  *)
(***************************************************************************)
(* The zone's data changes: in the database, or by a transfer. *)
Change(z) ==
  /\ serial[z] < MaxChanges[z]
  /\ serial' = [serial EXCEPT ![z] = @ + 1]
  /\ UNCHANGED <<notified, nqueue, network, answers, anySem, thread, storing, events, history>>

(***************************************************************************)
(* notifyDomain, from a retrieval thread (slave-renotify) or for           *)
(* "pdns_control notify".  getDomainInfo of the SQL backends fills in      *)
(* di.serial for a slave zone only: for any other zone setNotified stores  *)
(* what happened to be in memory.                                          *)
(***************************************************************************)
DomainInfoSerial(z) == IF z \in SlaveZones THEN {serial[z]} ELSE Serials
NotifyDomain(z, ips, id) ==
  /\ events < MaxEvents
  /\ z \in SlaveZones \cup OperatorZones
  /\ \E s \in DomainInfoSerial(z) : QueueNotifyDomain(events + 1, z, s, ips, id)
  /\ events' = events + 1
  /\ UNCHANGED <<anySem, thread>>

(* notifyDomain's setNotified, "even though that is premature". *)
StoreRequested(r) ==
  /\ r.by # 0
  /\ SetNotified(r)
  /\ UNCHANGED pc

(* notify, for "pdns_control notify-host": IPv4 only. *)
NotifyHost(z, ip, id) ==
  /\ events < MaxEvents
  /\ nqueue' = Add(z, {ip}, id, serial[z])
  /\ anySem' = anySem + 1
  /\ events' = events + 1
  /\ UNCHANGED <<db, network, answers, thread, storing, history>>

(* The answer of a slave arrives. *)
Answer(n) ==
  /\ network' = network \ {n}
  /\ answers' = answers \cup {n}
  /\ UNCHANGED <<db, nqueue, anySem, thread, storing, events, history>>

Restart ==
  /\ events < MaxEvents
  /\ nqueue' = <<>>
  /\ answers' = {}
  /\ anySem' = 0
  /\ pc' = "update"
  /\ cmdomains' = {}
  /\ storing' = {}
  /\ left' = 0
  /\ events' = events + 1
  /\ dropped' = dropped \cup {<<nr.domain, nr.ip>> : nr \in ToSet(nqueue)}
  /\ UNCHANGED <<db, network, settled>>

Communicator ==
  \/ GetUpdatedMasters
  \/ \E z \in MasterZones, s \in Serials, id \in [Slaves -> Ids] :
       \E ips \in SUBSET NameServers[z] : Announce(z, s, ips, id)
  \/ \E r \in storing : StoreNotified(r)
  \/ StartNotifications
  \/ \E a \in answers : Drain(a)
  \/ EndDrain
  \/ Send
  \/ EndSend
  \/ Sleep
  \/ Awake

Next ==
  \/ Communicator
  \/ \E z \in Zones : Change(z)
  \/ \E z \in Zones, id \in [Slaves -> Ids] :
       \E ips \in SUBSET NameServers[z] : NotifyDomain(z, ips, id)
  \/ \E r \in storing : StoreRequested(r)
  \/ \E z \in Zones, ip \in V4, id \in [Slaves -> Ids] : NotifyHost(z, ip, id)
  \/ \E n \in network : Answer(n)
  \/ Restart

Spec == Init /\ [][Next]_vars

(* The communicator is a thread of its own: it runs when it can. *)
FairSpec == Spec /\ WF_vars(Communicator)

-----------------------------------------------------------------------------
Queued(z, ip) == {nr \in ToSet(nqueue) : nr.domain = z /\ nr.ip = ip}

(***************************************************************************)
(* No announcement is forgotten.  Once the database says that serial s of  *)
(* a zone was announced, every address of its name servers has answered a  *)
(* NOTIFY for s or later, or had all its retries, or has one queued; the   *)
(* exceptions are addresses that did not resolve, a restart, and zones     *)
(* whose serial setNotified may take from uninitialised memory.            *)
(***************************************************************************)
SerialRead == {z \in Zones : z \in OperatorZones => z \in SlaveZones}
AnnouncedOrQueued ==
  \A z \in SerialRead : \A ip \in NameServers[z] :
    \/ settled[<<z, ip>>] >= notified[z]
    \/ \E nr \in Queued(z, ip) : nr.serial >= notified[z]
    \/ <<z, ip>> \in dropped

(***************************************************************************)
(* A request leaves the queue before its four attempts only for an answer  *)
(* from its own address to a NOTIFY that carried its id and zone, unless   *)
(* the process restarts.                                                   *)
(***************************************************************************)
LeavesQueue(nr) == nr \in ToSet(nqueue) /\ Len(nqueue') < Len(nqueue) /\ nr \notin ToSet(nqueue')
RetriedUntilAnswered ==
  [][\A nr \in ToSet(nqueue) :
       LeavesQueue(nr) /\ nr.attempts < 4 /\ nqueue' # <<>> =>
         [domain |-> nr.domain, ip |-> nr.ip, id |-> nr.id] \in answers]_vars

(***************************************************************************)
(* A serial that differs from the announced one is announced, or the zone  *)
(* goes on changing: getUpdatedMasters is not confused by changes made     *)
(* while it announces.                                                     *)
(***************************************************************************)
ChangesAnnounced == <>[](\A z \in MasterZones : notified[z] = serial[z])

(* Every request leaves the queue in the end, answered or not. *)
QueueEmpties == <>[](nqueue = <<>>)
=============================================================================
