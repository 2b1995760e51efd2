------------------------ MODULE Communicator_proofs -------------------------
(***************************************************************************)
(* Both halves of the communicator, which share no state. The notification *)
(* queue, for any zones, addresses, ids, delays and bounds: no             *)
(* announcement is forgotten, and a request leaves the queue before its    *)
(* fourth attempt for its own answer only. The queue of transfers, for any *)
(* zones, masters and retrieval threads: every request has its wake-up.    *)
(***************************************************************************)
EXTENDS MasterCommunicator, SlaveCommunicator, TLAPS, SequenceTheorems, FiniteSetTheorems,
        WellFoundedInduction

(* What the proofs need of the types. *)
Request == [domain : Zones, ip : Slaves, id : Ids, serial : Nat, attempts : 0 .. 4, due : Nat]
Typed ==
  /\ serial \in [Zones -> Nat]
  /\ DOMAIN notified = Zones
  /\ nqueue \in Seq(Request)
  /\ network \subseteq Notification
  /\ answers \subseteq Notification
  /\ settled \in [Pairs -> Nat]
  /\ dropped \subseteq Pairs

(* Serial s of z is stored as announced, or is about to be. *)
Promise(z, s) == s = notified[z] \/ \E r \in storing : r.domain = z /\ r.serial = s

(* What getUpdatedMasters returned, and what is promised, is at most the   *)
(* serial the zone has now.                                                *)
ReadEarlier ==
  /\ cmdomains \subseteq Zones \X Nat /\ \A c \in cmdomains : c[2] <= serial[c[1]]
  /\ \A z \in SerialRead : \A s : Promise(z, s) => s \in Nat /\ s <= serial[z]

(* A request for serial s or later waits in queue q. *)
Waits(q, z, ip, s) ==
  \E i \in 1 .. Len(q) : q[i].domain = z /\ q[i].ip = ip /\ q[i].serial >= s

(* Serial s of z is settled with ip, queued for it or known to be lost. *)
Announced(z, ip, s) ==
  \/ settled[<<z, ip>>] >= s
  \/ Waits(nqueue, z, ip, s)
  \/ <<z, ip>> \in dropped

(* The inductive invariant: a promise is kept from the moment the requests *)
(* are queued, before setNotified stores it.                               *)
Kept == \A z \in SerialRead : \A ip \in NameServers[z] : \A s : Promise(z, s) => Announced(z, ip, s)
QueueInv == Typed /\ ReadEarlier /\ Kept

-----------------------------------------------------------------------------
(***************************************************************************)
(* Every set of numbers has a least one: otherwise the finite sets of its  *)
(* elements below one of them would have no minimal one.                   *)
(***************************************************************************)
LEMMA LeastNumber ==
  ASSUME NEW T \in SUBSET Nat, T # {}
  PROVE  \E x \in T : \A y \in T : x <= y
<1> DEFINE UpTo(x) == {y \in T : y <= x}
           AllUpTo == {UpTo(x) : x \in T}
<1>1. AllUpTo \subseteq FiniteSubsetsOf(Nat) /\ AllUpTo # {}
  <2>1. ASSUME NEW x \in T PROVE UpTo(x) \in FiniteSubsetsOf(Nat)
    <3>1. UpTo(x) \in SUBSET Nat /\ x \in Nat /\ \A y \in UpTo(x) : y <= x
      OBVIOUS
    <3> QED
      BY <3>1, FS_BoundedSetOfNaturals DEF FiniteSubsetsOf
  <2> HIDE DEF UpTo
  <2> QED
    BY <2>1
<1>2. PICK x \in T : \A y \in T : <<UpTo(y), UpTo(x)>> \notin StrictSubsetOrdering(Nat)
  <2>1. PICK B \in AllUpTo : \A C \in AllUpTo : <<C, B>> \notin StrictSubsetOrdering(Nat)
    <3> HIDE DEF AllUpTo
    <3> QED
      BY <1>1, FS_StrictSubsetOrderingWellFounded, WFMin
  <2> QED
    BY <2>1
<1>3. ASSUME NEW y \in T, y < x
      PROVE  FALSE
  <2>1. UpTo(y) \subseteq UpTo(x) /\ x \in UpTo(x) /\ x \notin UpTo(y)
    <3>1. (\A u \in T : u <= y => u <= x) /\ x <= x /\ ~(x <= y)
      BY <1>3
    <3> QED
      BY <3>1
  <2>2. UpTo(y) \in SUBSET Nat /\ UpTo(x) \in SUBSET Nat
    OBVIOUS
  <2> HIDE DEF UpTo
  <2> QED
    BY <1>2, <2>1, <2>2 DEF StrictSubsetOrdering
<1>4. \A y \in T : x <= y
  BY <1>3
<1> QED
  BY <1>4

(* Min is the least of a set of numbers. *)
LEMMA MinFound ==
  ASSUME NEW T \in SUBSET Nat, T # {}
  PROVE  Min(T) \in T
BY LeastNumber DEF Min

(* Max of two numbers is one of them and below neither. *)
LEMMA MaxOfTwo ==
  ASSUME NEW a \in Nat, NEW b \in Nat
  PROVE  Max({a, b}) \in Nat /\ Max({a, b}) >= a /\ Max({a, b}) >= b
<1>1. \E x \in {a, b} : \A y \in {a, b} : x >= y
  OBVIOUS
<1>2. Max({a, b}) \in {a, b} /\ \A y \in {a, b} : Max({a, b}) >= y
  BY <1>1 DEF Max
<1> QED
  BY <1>2

(* SetToSeq lists the elements of a finite set and nothing else. *)
LEMMA ListOfSet ==
  ASSUME NEW S, IsFiniteSet(S)
  PROVE  /\ SetToSeq(S) \in Seq(S)
         /\ \A x \in S : \E i \in 1 .. Len(SetToSeq(S)) : SetToSeq(S)[i] = x
<1> DEFINE n == Cardinality(S)
           f == SetToSeq(S)
<1>1. n \in Nat /\ ExistsBijection(1 .. n, S)
  BY FS_CardinalityType
<1>2. \E g \in [1 .. n -> S] : IsInjective(g)
  BY <1>1 DEF ExistsBijection, Bijection, Injection
<1>3. f \in [1 .. n -> S] /\ IsInjective(f)
  BY <1>2 DEF SetToSeq
<1> HIDE DEF f
<1>4. f \in Injection(1 .. n, S) /\ Cardinality(1 .. n) = n
  BY <1>1, <1>3, FS_Interval DEF Injection
<1>5. f \in Surjection(1 .. n, S)
  BY <1>4, FS_Injection
<1>6. f \in Seq(S) /\ Len(f) = n
  BY <1>1, <1>3
<1> QED
  BY <1>5, <1>6 DEF Surjection, f

(* RemoveAt leaves a sequence of the other elements, one shorter. *)
LEMMA RemovedOne ==
  ASSUME NEW S, NEW q \in Seq(S), NEW i \in 1 .. Len(q)
  PROVE  /\ RemoveAt(q, i) \in Seq(S) /\ Len(RemoveAt(q, i)) = Len(q) - 1
         /\ \A j \in 1 .. Len(q) \ {i} : \E k \in 1 .. Len(q) - 1 : RemoveAt(q, i)[k] = q[j]
<1> DEFINE a == SubSeq(q, 1, i - 1)
           b == SubSeq(q, i + 1, Len(q))
<1>1. i \in Nat /\ Len(q) \in Nat /\ 1 <= i /\ i <= Len(q)
  OBVIOUS
<1>2. \A j \in 1 .. Len(q) : q[j] \in S
  BY ElementOfSeq
<1>3. a \in Seq(S) /\ Len(a) = i - 1 /\ \A j \in 1 .. i - 1 : a[j] = q[j]
  <2>1. \A j \in 1 .. i - 1 : q[j] \in S
    BY <1>1, <1>2
  <2>2. /\ a \in Seq(S) /\ Len(a) = IF 1 <= i - 1 THEN i - 1 - 1 + 1 ELSE 0
        /\ \A j \in 1 .. i - 1 - 1 + 1 : a[j] = q[1 + j - 1]
    BY <1>1, <2>1, SubSeqProperties
  <2> QED
    BY <1>1, <2>2
<1>4. b \in Seq(S) /\ Len(b) = Len(q) - i /\ \A j \in 1 .. Len(q) - i : b[j] = q[i + j]
  <2>1. \A j \in i + 1 .. Len(q) : q[j] \in S
    BY <1>1, <1>2
  <2>2. /\ b \in Seq(S) /\ Len(b) = IF i + 1 <= Len(q) THEN Len(q) - (i + 1) + 1 ELSE 0
        /\ \A j \in 1 .. Len(q) - (i + 1) + 1 : b[j] = q[(i + 1) + j - 1]
    BY <1>1, <2>1, SubSeqProperties
  <2> QED
    BY <1>1, <2>2
<1> HIDE DEF a, b
<1>5. /\ a \o b \in Seq(S) /\ Len(a \o b) = Len(q) - 1
      /\ \A k \in 1 .. Len(q) - 1 : (a \o b)[k] = IF k <= i - 1 THEN a[k] ELSE b[k - (i - 1)]
  <2>1. /\ a \o b \in Seq(S) /\ Len(a \o b) = Len(a) + Len(b)
        /\ \A k \in 1 .. Len(a) + Len(b) :
             (a \o b)[k] = IF k <= Len(a) THEN a[k] ELSE b[k - Len(a)]
    BY <1>3, <1>4, ConcatProperties
  <2> QED
    BY <1>1, <1>3, <1>4, <2>1
<1>6. RemoveAt(q, i) = a \o b
  BY DEF RemoveAt, a, b
<1>7. ASSUME NEW j \in 1 .. Len(q) \ {i}
      PROVE  \E k \in 1 .. Len(q) - 1 : (a \o b)[k] = q[j]
  <2>1. CASE j < i
    BY <1>1, <1>3, <1>5, <2>1
  <2>2. CASE j > i
    <3>1. j - 1 \in 1 .. Len(q) - 1 /\ ~(j - 1 <= i - 1) /\ j - 1 - (i - 1) = j - i
      BY <1>1, <2>2
    <3>2. j - i \in 1 .. Len(q) - i /\ i + (j - i) = j
      BY <1>1, <2>2
    <3>3. (a \o b)[j - 1] = b[j - i]
      BY <1>5, <3>1
    <3>4. b[j - i] = q[j]
      BY <1>4, <3>2
    <3> QED
      BY <3>1, <3>3, <3>4
  <2>3. j < i \/ j > i
    BY <1>1
  <2> QED
    BY <2>1, <2>2, <2>3
<1> QED
  BY <1>5, <1>6, <1>7

-----------------------------------------------------------------------------
LEMMA RequestFields ==
  ASSUME NEW q \in Seq(Request), NEW i \in 1 .. Len(q)
  PROVE  /\ q[i] \in Request /\ q[i].domain \in Zones /\ q[i].ip \in Slaves /\ q[i].id \in Ids
         /\ q[i].serial \in Nat /\ q[i].attempts \in 0 .. 4 /\ q[i].due \in Nat
<1>1. q[i] \in Request
  BY ElementOfSeq
<1> QED
  BY <1>1 DEF Request

LEMMA AnnouncedEach == QueueInv => AnnouncedOrQueued
<1> SUFFICES ASSUME QueueInv, NEW z \in SerialRead, NEW ip \in NameServers[z]
             PROVE  \/ settled[<<z, ip>>] >= notified[z]
                    \/ \E nr \in Queued(z, ip) : nr.serial >= notified[z]
                    \/ <<z, ip>> \in dropped
  BY DEF AnnouncedOrQueued
<1>1. Announced(z, ip, notified[z])
  BY DEF QueueInv, Kept, Promise
<1>2. Waits(nqueue, z, ip, notified[z]) => \E nr \in Queued(z, ip) : nr.serial >= notified[z]
  BY DEF Queued, ToSet, Waits, QueueInv, Typed
<1> QED
  BY <1>1, <1>2 DEF Announced

(* Zones whose serial is read are zones, and their name servers addresses. *)
LEMMA ReadZone ==
  ASSUME NEW z \in SerialRead, NEW ip \in NameServers[z]
  PROVE  z \in Zones /\ ip \in Slaves /\ <<z, ip>> \in Pairs
BY MasterAssumption DEF SerialRead, Pairs

(***************************************************************************)
(* A step that announces nothing preserves the invariant when each request *)
(* that was queued still is, is settled, or is recorded as lost.           *)
(***************************************************************************)
FewerPromises == \A z \in SerialRead : \A s : Promise(z, s)' => Promise(z, s)

LEMMA SamePromises == UNCHANGED <<notified, storing>> => FewerPromises
BY DEF FewerPromises, Promise

LEMMA EarlierKept ==
  ASSUME ReadEarlier, UNCHANGED serial, cmdomains' \subseteq cmdomains, FewerPromises
  PROVE  ReadEarlier'
BY DEF ReadEarlier, FewerPromises

LEMMA Steady ==
  ASSUME QueueInv, UNCHANGED <<db, storing>>, cmdomains' \subseteq cmdomains
  PROVE  FewerPromises /\ ReadEarlier'
BY SamePromises, EarlierKept DEF QueueInv, db

Accounted(nr, q, set, drop) ==
  \/ Waits(q, nr.domain, nr.ip, nr.serial)
  \/ set[<<nr.domain, nr.ip>>] >= nr.serial
  \/ <<nr.domain, nr.ip>> \in drop

(* One promise stays kept. *)
LEMMA KeptOne ==
  ASSUME Typed, Typed', NEW z \in SerialRead, NEW ip \in NameServers[z], NEW s \in Nat,
         Announced(z, ip, s), <<z, ip>> \in dropped => Announced(z, ip, s)',
         \A p \in Pairs : settled'[p] >= settled[p],
         \A i \in 1 .. Len(nqueue) : Accounted(nqueue[i], nqueue', settled', dropped')
  PROVE  Announced(z, ip, s)'
<1>1. <<z, ip>> \in Pairs /\ settled[<<z, ip>>] \in Nat /\ settled'[<<z, ip>>] \in Nat
  BY ReadZone DEF Typed
<1>2. CASE settled[<<z, ip>>] >= s
  BY <1>1, <1>2 DEF Announced
<1>3. CASE Waits(nqueue, z, ip, s)
  <2>1. PICK i \in 1 .. Len(nqueue) :
          nqueue[i].domain = z /\ nqueue[i].ip = ip /\ nqueue[i].serial >= s
    BY <1>3 DEF Waits
  <2>2. nqueue[i].serial \in Nat
    BY RequestFields DEF Typed
  <2>3. Accounted(nqueue[i], nqueue', settled', dropped')
    OBVIOUS
  <2>4. CASE Waits(nqueue', z, ip, nqueue[i].serial)
    <3>1. PICK j \in 1 .. Len(nqueue') : /\ nqueue'[j].domain = z /\ nqueue'[j].ip = ip
                                         /\ nqueue'[j].serial >= nqueue[i].serial
      BY <2>4 DEF Waits
    <3>2. nqueue'[j].serial \in Nat
      BY RequestFields DEF Typed
    <3> QED
      BY <2>1, <2>2, <3>1, <3>2 DEF Announced, Waits
  <2>5. CASE settled'[<<z, ip>>] >= nqueue[i].serial
    BY <1>1, <2>1, <2>2, <2>5 DEF Announced
  <2> QED
    BY <2>1, <2>3, <2>4, <2>5 DEF Accounted, Announced
<1> QED
  BY <1>2, <1>3 DEF Announced

LEMMA NothingForgotten ==
  ASSUME QueueInv, Typed', ReadEarlier', FewerPromises, dropped \subseteq dropped',
         \A p \in Pairs : settled'[p] >= settled[p],
         \A i \in 1 .. Len(nqueue) : Accounted(nqueue[i], nqueue', settled', dropped')
  PROVE  QueueInv'
<1>1. ASSUME NEW z \in SerialRead, NEW ip \in NameServers[z], NEW s, Promise(z, s)'
      PROVE  Announced(z, ip, s)'
  <2>1. Promise(z, s) /\ s \in Nat /\ Announced(z, ip, s)
    BY <1>1 DEF FewerPromises, QueueInv, ReadEarlier, Kept
  <2>2. <<z, ip>> \in dropped => Announced(z, ip, s)'
    BY DEF Announced
  <2> QED
    BY <2>1, <2>2, KeptOne DEF QueueInv
<1> QED
  BY <1>1 DEF QueueInv, Kept

LEMMA StillWaits ==
  ASSUME NEW q \in Seq(Request), NEW i \in 1 .. Len(q)
  PROVE  Waits(q, q[i].domain, q[i].ip, q[i].serial)
BY RequestFields DEF Waits

-----------------------------------------------------------------------------
(* What add and getOne do with the queue. *)
LEMMA AddedWait ==
  ASSUME nqueue \in Seq(Request), NEW z \in Zones, NEW ips \in SUBSET Slaves,
         NEW id \in [Slaves -> Ids], NEW s \in Nat
  PROVE  /\ Add(z, ips, id, s) \in Seq(Request)
         /\ Len(Add(z, ips, id, s)) >= Len(nqueue)
         /\ \A i \in 1 .. Len(nqueue) :
              Waits(Add(z, ips, id, s), nqueue[i].domain, nqueue[i].ip, nqueue[i].serial)
         /\ \A ip \in ips : Waits(Add(z, ips, id, s), z, ip, s)
<1> DEFINE R == {[domain |-> z, ip |-> ip, id |-> id[ip], serial |-> s,
                  attempts |-> 0, due |-> 0] : ip \in ips}
           new == SetToSeq(R)
           q == nqueue \o new
<1>1. R \subseteq Request /\ \A ip \in ips : \E r \in R : r.domain = z /\ r.ip = ip /\ r.serial = s
  <2>1. ASSUME NEW ip \in ips
        PROVE  [domain |-> z, ip |-> ip, id |-> id[ip], serial |-> s,
                attempts |-> 0, due |-> 0] \in Request
    <3>1. ip \in Slaves /\ id[ip] \in Ids /\ 0 \in 0 .. 4 /\ 0 \in Nat
      OBVIOUS
    <3> QED
      BY <3>1 DEF Request
  <2>2. R \subseteq Request
    BY <2>1
  <2>3. ASSUME NEW ip \in ips
        PROVE  \E r \in R : r.domain = z /\ r.ip = ip /\ r.serial = s
    <3> DEFINE r == [domain |-> z, ip |-> ip, id |-> id[ip], serial |-> s,
                     attempts |-> 0, due |-> 0]
    <3>1. r \in R
      OBVIOUS
    <3>2. r.domain = z /\ r.ip = ip /\ r.serial = s
      OBVIOUS
    <3> HIDE DEF r, R
    <3> QED
      BY <3>1, <3>2
  <2> QED
    BY <2>2, <2>3
<1>2. IsFiniteSet(R)
  <2> DEFINE f == [ip \in ips |-> [domain |-> z, ip |-> ip, id |-> id[ip], serial |-> s,
                                   attempts |-> 0, due |-> 0]]
  <2>1. f \in Surjection(ips, R)
    BY DEF Surjection
  <2>2. IsFiniteSet(ips)
    BY MasterAssumption, FS_Subset
  <2> QED
    BY <2>1, <2>2, FS_Surjection
<1> HIDE DEF R
<1>3. new \in Seq(R) /\ \A r \in R : \E i \in 1 .. Len(new) : new[i] = r
  BY <1>2, ListOfSet
<1> HIDE DEF new
<1>4. new \in Seq(Request) /\ Len(new) \in Nat /\ Len(nqueue) \in Nat
  BY <1>1, <1>3, SeqMonotonic
<1>5. /\ q \in Seq(Request) /\ Len(q) = Len(nqueue) + Len(new)
      /\ \A i \in 1 .. Len(nqueue) + Len(new) :
           q[i] = IF i <= Len(nqueue) THEN nqueue[i] ELSE new[i - Len(nqueue)]
  BY <1>4, ConcatProperties
<1> HIDE DEF q
<1>6. \A i \in 1 .. Len(nqueue) : i \in 1 .. Len(q) /\ q[i] = nqueue[i]
  BY <1>4, <1>5
<1>7. ASSUME NEW i \in 1 .. Len(new)
      PROVE  Len(nqueue) + i \in 1 .. Len(q) /\ q[Len(nqueue) + i] = new[i]
  <2>1. Len(nqueue) + i \in 1 .. Len(nqueue) + Len(new) /\ ~(Len(nqueue) + i <= Len(nqueue))
        /\ Len(nqueue) + i - Len(nqueue) = i
    BY <1>4
  <2> QED
    BY <1>5, <2>1
<1>8. ASSUME NEW i \in 1 .. Len(nqueue)
      PROVE  Waits(q, nqueue[i].domain, nqueue[i].ip, nqueue[i].serial)
  BY <1>5, <1>6, StillWaits
<1>9. ASSUME NEW ip \in ips
      PROVE  Waits(q, z, ip, s)
  <2>1. PICK r \in R : r.domain = z /\ r.ip = ip /\ r.serial = s
    BY <1>1
  <2>2. PICK i \in 1 .. Len(new) : new[i] = r
    BY <1>3
  <2>3. Len(nqueue) + i \in 1 .. Len(q) /\ q[Len(nqueue) + i] = r
    BY <1>7, <2>2
  <2> QED
    BY <1>5, <2>1, <2>3, StillWaits
<1>10. Add(z, ips, id, s) = q
  BY DEF Add, Requests, q, new, R
<1>11. Len(q) >= Len(nqueue)
  BY <1>4, <1>5
<1> QED
  BY <1>5, <1>8, <1>9, <1>10, <1>11

(* The same with one request at position i changed in its attempts and due time. *)
LEMMA RetriedWait ==
  ASSUME nqueue \in Seq(Request), NEW i \in 1 .. Len(nqueue), nqueue[i].attempts < 4
  PROVE  /\ GetOne(i) \in Seq(Request) /\ Len(GetOne(i)) = Len(nqueue)
         /\ \A j \in 1 .. Len(nqueue) :
              Waits(GetOne(i), nqueue[j].domain, nqueue[j].ip, nqueue[j].serial)
<1> DEFINE n == nqueue[i].attempts + 1
           r == [nqueue[i] EXCEPT !.attempts = n, !.due = Delay[n]]
           q == [nqueue EXCEPT ![i] = r]
<1>1. nqueue[i].attempts \in 0 .. 4
  BY RequestFields
<1>2. n \in 1 .. 4 /\ ~(n > GiveUpAfter)
  BY <1>1 DEF GiveUpAfter
<1>3. Delay[n] \in Nat
  BY <1>2, MasterAssumption
<1>4. nqueue[i] \in Request
  BY RequestFields
<1>5. r \in Request /\ r.domain = nqueue[i].domain /\ r.ip = nqueue[i].ip
      /\ r.serial = nqueue[i].serial
  <2>1. n \in 0 .. 4
    BY <1>2
  <2> HIDE DEF n
  <2> QED
    BY <1>3, <1>4, <2>1 DEF Request
<1>6. GetOne(i) = q
  BY <1>2 DEF GetOne
<1> HIDE DEF r
<1>7. q \in Seq(Request) /\ Len(q) = Len(nqueue)
      /\ \A j \in 1 .. Len(nqueue) : q[j] = IF j = i THEN r ELSE nqueue[j]
  BY <1>5, ExceptSeq
<1> HIDE DEF q
<1>8. ASSUME NEW j \in 1 .. Len(nqueue)
      PROVE  Waits(q, nqueue[j].domain, nqueue[j].ip, nqueue[j].serial)
  <2>1. q[j].domain = nqueue[j].domain /\ q[j].ip = nqueue[j].ip /\ q[j].serial = nqueue[j].serial
    BY <1>5, <1>7
  <2> QED
    BY <1>7, <2>1, StillWaits
<1> QED
  BY <1>6, <1>7, <1>8

(* RemoveAt takes one request off the queue. *)
LEMMA OthersWait ==
  ASSUME nqueue \in Seq(Request), NEW i \in 1 .. Len(nqueue)
  PROVE  /\ RemoveAt(nqueue, i) \in Seq(Request) /\ Len(RemoveAt(nqueue, i)) = Len(nqueue) - 1
         /\ \A j \in 1 .. Len(nqueue) : j # i =>
              Waits(RemoveAt(nqueue, i), nqueue[j].domain, nqueue[j].ip, nqueue[j].serial)
<1>1. /\ RemoveAt(nqueue, i) \in Seq(Request) /\ Len(RemoveAt(nqueue, i)) = Len(nqueue) - 1
      /\ \A j \in 1 .. Len(nqueue) \ {i} :
           \E k \in 1 .. Len(nqueue) - 1 : RemoveAt(nqueue, i)[k] = nqueue[j]
  BY RemovedOne
<1>2. ASSUME NEW j \in 1 .. Len(nqueue), j # i
      PROVE  Waits(RemoveAt(nqueue, i), nqueue[j].domain, nqueue[j].ip, nqueue[j].serial)
  <2>1. PICK k \in 1 .. Len(nqueue) - 1 : RemoveAt(nqueue, i)[k] = nqueue[j]
    BY <1>1, <1>2
  <2> QED
    BY <1>1, <2>1, StillWaits
<1> QED
  BY <1>1, <1>2

(* What leaves the queue is settled: its pair has a serial at least as new. *)
LEMMA SettleGrows ==
  ASSUME Typed, NEW i \in 1 .. Len(nqueue), Settle(nqueue[i])
  PROVE  /\ settled' \in [Pairs -> Nat]
         /\ \A p \in Pairs : settled'[p] >= settled[p]
         /\ settled'[<<nqueue[i].domain, nqueue[i].ip>>] >= nqueue[i].serial
<1> DEFINE p == <<nqueue[i].domain, nqueue[i].ip>>
           s == Max({settled[p], nqueue[i].serial})
<1>1. p \in Pairs /\ nqueue[i].serial \in Nat
  BY RequestFields DEF Typed, Pairs
<1>2. settled \in [Pairs -> Nat] /\ settled[p] \in Nat
  BY <1>1 DEF Typed
<1>3. s \in Nat /\ s >= settled[p] /\ s >= nqueue[i].serial
  BY <1>1, <1>2, MaxOfTwo
<1>4. settled' = [settled EXCEPT ![p] = s]
  BY DEF Settle
<1> HIDE DEF p, s
<1>5. settled' \in [Pairs -> Nat] /\ settled'[p] >= nqueue[i].serial
  BY <1>1, <1>2, <1>3, <1>4
<1>6. ASSUME NEW o \in Pairs
      PROVE  settled'[o] >= settled[o]
  <2>1. settled[o] \in Nat
    BY <1>2
  <2>2. CASE o = p
    BY <1>1, <1>2, <1>3, <1>4, <2>2
  <2>3. CASE o # p
    BY <1>2, <1>4, <2>1, <2>3
  <2> QED
    BY <2>2, <2>3
<1> QED
  BY <1>5, <1>6 DEF p

(* The first position where a test holds is one, and there is none when it is 0. *)
LEMMA FirstPosition ==
  ASSUME NEW q \in Seq(Request), NEW T \in SUBSET (1 .. Len(q))
  PROVE  LET i == IF T # {} THEN Min(T) ELSE 0
         IN  (i # 0 => i \in T) /\ (i = 0 => T = {})
<1>1. T \in SUBSET Nat /\ 0 \notin T
  OBVIOUS
<1>2. CASE T # {}
  <2>1. Min(T) \in T
    BY <1>1, <1>2, MinFound
  <2> QED
    BY <1>1, <1>2, <2>1
<1>3. CASE T = {}
  BY <1>3
<1> QED
  BY <1>2, <1>3

LEMMA DueFound ==
  ASSUME Typed
  PROVE  FirstDue # 0 => FirstDue \in 1 .. Len(nqueue)
<1> DEFINE T == {i \in 1 .. Len(nqueue) : nqueue[i].due = 0}
<1>1. FirstDue = IF T # {} THEN Min(T) ELSE 0
  BY DEF FirstDue, SelectInSeq
<1>2. T \in SUBSET (1 .. Len(nqueue))
  OBVIOUS
<1> HIDE DEF T
<1> QED
  BY <1>1, <1>2, FirstPosition DEF Typed

MatchAt(a) == SelectInSeq(nqueue, LAMBDA nr : Matches(nr, a))
LEMMA MatchFound ==
  ASSUME Typed, NEW a
  PROVE  /\ MatchAt(a) # 0 => MatchAt(a) \in 1 .. Len(nqueue) /\ Matches(nqueue[MatchAt(a)], a)
         /\ MatchAt(a) = 0 => \A i \in 1 .. Len(nqueue) : ~Matches(nqueue[i], a)
<1> DEFINE T == {i \in 1 .. Len(nqueue) : Matches(nqueue[i], a)}
<1>1. MatchAt(a) = IF T # {} THEN Min(T) ELSE 0
  BY DEF MatchAt, SelectInSeq
<1>2. T \in SUBSET (1 .. Len(nqueue))
  OBVIOUS
<1>3. (MatchAt(a) # 0 => MatchAt(a) \in T) /\ (MatchAt(a) = 0 => T = {})
  <2> HIDE DEF T
  <2> QED
    BY <1>1, <1>2, FirstPosition DEF Typed
<1> QED
  BY <1>3

-----------------------------------------------------------------------------
(* The actions, one by one, preserve the invariant. *)
LEMMA SameQueue ==
  ASSUME QueueInv, UNCHANGED <<nqueue, settled, dropped>>, FewerPromises, Typed', ReadEarlier'
  PROVE  QueueInv'
<1>1. ASSUME NEW i \in 1 .. Len(nqueue)
      PROVE  Accounted(nqueue[i], nqueue', settled', dropped')
  BY StillWaits DEF QueueInv, Typed, Accounted
<1>2. \A p \in Pairs : settled'[p] >= settled[p]
  BY DEF QueueInv, Typed
<1> QED
  BY <1>1, <1>2, NothingForgotten

LEMMA UpdateInv ==
  ASSUME QueueInv, GetUpdatedMasters
  PROVE  QueueInv'
<1>1. Typed' /\ UNCHANGED <<db, nqueue, storing, history>>
  BY DEF QueueInv, Typed, GetUpdatedMasters, db, history
<1>2. FewerPromises
  BY <1>1, SamePromises DEF db
<1>3. ReadEarlier'
  <2>1. serial' = serial /\ serial \in [Zones -> Nat]
    BY <1>1 DEF QueueInv, Typed, db
  <2>2. ASSUME NEW c \in cmdomains'
        PROVE  c \in Zones \X Nat /\ c[2] <= serial'[c[1]]
    <3>1. PICK z \in MasterZones : c = <<z, serial[z]>>
      BY DEF GetUpdatedMasters
    <3>2. z \in Zones /\ serial[z] \in Nat
      BY <2>1 DEF Zones
    <3> QED
      BY <2>1, <3>1, <3>2
  <2> QED
    BY <1>2, <2>1, <2>2 DEF QueueInv, ReadEarlier, FewerPromises
<1> QED
  BY <1>1, <1>2, <1>3, SameQueue DEF history

LEMMA StartInv ==
  ASSUME QueueInv, StartNotifications \/ EndDrain \/ EndSend \/ Awake
  PROVE  QueueInv'
<1>1. UNCHANGED <<db, nqueue, network, answers, cmdomains, storing, history>>
  BY DEF StartNotifications, EndDrain, EndSend, Awake
<1>2. FewerPromises /\ ReadEarlier'
  BY <1>1, Steady
<1>3. Typed'
  BY <1>1 DEF QueueInv, Typed, db, history
<1> QED
  BY <1>1, <1>2, <1>3, SameQueue DEF history

LEMMA AnswerInv ==
  ASSUME QueueInv, NEW n \in network, Answer(n)
  PROVE  QueueInv'
<1>1. UNCHANGED <<db, nqueue, thread, storing, history>>
  BY DEF Answer
<1>2. FewerPromises /\ ReadEarlier'
  BY <1>1, Steady DEF thread
<1>3. Typed'
  BY <1>1 DEF QueueInv, Typed, db, history, Answer
<1> QED
  BY <1>1, <1>2, <1>3, SameQueue DEF history

LEMMA ChangeInv ==
  ASSUME QueueInv, NEW z \in Zones, Change(z)
  PROVE  QueueInv'
<1>1. /\ serial \in [Zones -> Nat] /\ serial' = [serial EXCEPT ![z] = serial[z] + 1]
      /\ UNCHANGED <<notified, nqueue, network, answers, cmdomains, storing, history>>
  BY DEF QueueInv, Typed, Change, thread
<1>2. /\ serial' \in [Zones -> Nat]
      /\ \A y \in Zones : serial[y] \in Nat /\ serial'[y] \in Nat /\ serial[y] <= serial'[y]
  BY <1>1
<1>3. Typed' /\ FewerPromises
  BY <1>1, <1>2, SamePromises DEF QueueInv, Typed, history
<1>4. ReadEarlier'
  <2>1. ASSUME NEW c \in cmdomains
        PROVE  c[2] <= serial'[c[1]]
    <3>1. c[1] \in Zones /\ c[2] \in Nat /\ c[2] <= serial[c[1]]
      BY DEF QueueInv, ReadEarlier
    <3> QED
      BY <1>2, <3>1
  <2>2. ASSUME NEW y \in SerialRead, NEW s, Promise(y, s)'
        PROVE  s \in Nat /\ s <= serial'[y]
    <3>1. s \in Nat /\ s <= serial[y] /\ y \in Zones
      BY <1>3, <2>2 DEF FewerPromises, QueueInv, ReadEarlier, SerialRead
    <3> QED
      BY <1>2, <3>1
  <2> QED
    BY <1>1, <2>1, <2>2 DEF QueueInv, ReadEarlier
<1> QED
  BY <1>1, <1>3, <1>4, SameQueue DEF history

(* An announcement of a serial that the zone has reached. *)
LEMMA NotifyInv ==
  ASSUME QueueInv, NEW by, NEW z \in Zones, NEW s, NEW ips \in SUBSET NameServers[z],
         NEW id \in [Slaves -> Ids], QueueNotifyDomain(by, z, s, ips, id),
         z \in SerialRead => s \in Nat /\ s <= serial[z], cmdomains' \subseteq cmdomains
  PROVE  QueueInv'
<1>1. /\ serial \in [Zones -> Nat] /\ nqueue \in Seq(Request) /\ serial[z] \in Nat
      /\ NameServers[z] \in SUBSET Slaves /\ ips \in SUBSET Slaves
  BY MasterAssumption DEF QueueInv, Typed
<1>2. /\ nqueue' \in Seq(Request)
      /\ \A i \in 1 .. Len(nqueue) :
           Waits(nqueue', nqueue[i].domain, nqueue[i].ip, nqueue[i].serial)
      /\ \A ip \in ips : Waits(nqueue', z, ip, serial[z])
  BY <1>1, AddedWait DEF QueueNotifyDomain
<1>3. /\ dropped' = (dropped \ ({z} \X ips)) \cup ({z} \X (NameServers[z] \ ips))
      /\ dropped \subseteq Pairs /\ UNCHANGED <<db, network, answers, settled>>
  BY DEF QueueInv, Typed, QueueNotifyDomain
<1>4. dropped' \subseteq Pairs
  BY <1>1, <1>3 DEF Pairs
<1>5. Typed'
  BY <1>2, <1>3, <1>4 DEF QueueInv, Typed, db
<1>6. ASSUME NEW y \in SerialRead, NEW t, Promise(y, t)'
      PROVE  Promise(y, t) \/ (y = z /\ t = s)
  <2>1. CASE t = notified'[y]
    BY <1>3, <2>1 DEF Promise, db
  <2>2. CASE \E r \in storing' : r.domain = y /\ r.serial = t
    <3>1. PICK r \in storing' : r.domain = y /\ r.serial = t
      BY <2>2
    <3>2. r \in storing \/ r = [by |-> by, domain |-> z, serial |-> s]
      BY DEF QueueNotifyDomain
    <3> QED
      BY <3>1, <3>2 DEF Promise
  <2> QED
    BY <1>6, <2>1, <2>2 DEF Promise
<1>7. ASSUME NEW y \in SerialRead, NEW t, Promise(y, t)'
      PROVE  t \in Nat /\ t <= serial[y]
  BY <1>6, <1>7 DEF QueueInv, ReadEarlier
<1>8. ReadEarlier'
  BY <1>3, <1>7 DEF QueueInv, ReadEarlier, db
<1>9. ASSUME NEW y \in SerialRead, NEW ip \in NameServers[y], NEW t, Promise(y, t)'
      PROVE  Announced(y, ip, t)'
  <2>1. t \in Nat /\ t <= serial[y]
    BY <1>7, <1>9
  <2>2. CASE y = z /\ ip \in ips
    <3>1. PICK i \in 1 .. Len(nqueue') :
            nqueue'[i].domain = z /\ nqueue'[i].ip = ip /\ nqueue'[i].serial >= serial[z]
      BY <1>2, <2>2 DEF Waits
    <3>2. nqueue'[i].serial \in Nat
      BY <1>2, RequestFields
    <3>3. nqueue'[i].serial >= t
      BY <1>1, <2>1, <2>2, <3>1, <3>2
    <3> QED
      BY <2>2, <3>1, <3>3 DEF Announced, Waits
  <2>3. CASE y = z /\ ip \notin ips
    BY <1>3, <2>3 DEF Announced
  <2>4. CASE y # z
    <3>1. Announced(y, ip, t)
      BY <1>6, <1>9, <2>4 DEF QueueInv, Kept
    <3>2. <<y, ip>> \in dropped => Announced(y, ip, t)'
      BY <1>3, <2>4 DEF Announced
    <3>3. \A p \in Pairs : settled'[p] >= settled[p]
      BY <1>3 DEF QueueInv, Typed
    <3>4. \A i \in 1 .. Len(nqueue) : Accounted(nqueue[i], nqueue', settled', dropped')
      BY <1>2 DEF Accounted
    <3> QED
      BY <1>5, <2>1, <3>1, <3>2, <3>3, <3>4, KeptOne DEF QueueInv
  <2> QED
    BY <2>2, <2>3, <2>4
<1> QED
  BY <1>5, <1>8, <1>9 DEF QueueInv, Kept

LEMMA AnnounceInv ==
  ASSUME QueueInv, NEW z \in MasterZones, NEW s, NEW ips \in SUBSET NameServers[z],
         NEW id \in [Slaves -> Ids], Announce(z, s, ips, id)
  PROVE  QueueInv'
<1>1. z \in Zones /\ <<z, s>> \in cmdomains /\ cmdomains' \subseteq cmdomains
      /\ QueueNotifyDomain(0, z, s, ips, id)
  BY DEF Announce, Zones
<1>2. s \in Nat /\ s <= serial[z]
  <2>1. cmdomains \subseteq Zones \X Nat /\ \A c \in cmdomains : c[2] <= serial[c[1]]
    BY DEF QueueInv, ReadEarlier
  <2>2. <<z, s>> \in Zones \X Nat /\ <<z, s>>[2] <= serial[<<z, s>>[1]]
    BY <1>1, <2>1
  <2> QED
    BY <2>2
<1> QED
  BY <1>1, <1>2, NotifyInv

LEMMA NotifyDomainInv ==
  ASSUME QueueInv, NEW z \in Zones, NEW ips \in SUBSET NameServers[z],
         NEW id \in [Slaves -> Ids], NotifyDomain(z, ips, id)
  PROVE  QueueInv'
<1>1. PICK s \in DomainInfoSerial(z) : QueueNotifyDomain(events + 1, z, s, ips, id)
  BY DEF NotifyDomain
<1>2. cmdomains' \subseteq cmdomains /\ z \in SlaveZones \cup OperatorZones
  BY DEF NotifyDomain, thread
<1>3. serial[z] \in Nat
  BY DEF QueueInv, Typed
<1>4. z \in SerialRead => s \in Nat /\ s <= serial[z]
  BY <1>1, <1>2, <1>3 DEF SerialRead, DomainInfoSerial
<1> QED
  BY <1>1, <1>2, <1>4, NotifyInv

(* setNotified stores a promise that was made when the requests were queued. *)
LEMMA StoreInv ==
  ASSUME QueueInv, NEW r \in storing, SetNotified(r)
  PROVE  QueueInv'
<1>1. /\ notified' = [notified EXCEPT ![r.domain] = r.serial] /\ storing' = storing \ {r}
      /\ UNCHANGED <<serial, nqueue, network, answers, cmdomains, history>>
  BY DEF SetNotified
<1>2. DOMAIN notified = Zones /\ DOMAIN notified' = Zones
  BY <1>1 DEF QueueInv, Typed
<1>3. FewerPromises
  <2> SUFFICES ASSUME NEW z \in SerialRead, NEW s, Promise(z, s)'
               PROVE  Promise(z, s)
    BY DEF FewerPromises
  <2>1. CASE s = notified'[z]
    <3>1. notified'[z] = notified[z] \/ (z = r.domain /\ notified'[z] = r.serial)
      BY <1>1, <1>2 DEF SerialRead
    <3> QED
      BY <2>1, <3>1 DEF Promise
  <2>2. CASE \E o \in storing' : o.domain = z /\ o.serial = s
    BY <1>1, <2>2 DEF Promise
  <2> QED
    BY <2>1, <2>2 DEF Promise
<1>4. Typed' /\ ReadEarlier'
  BY <1>1, <1>2, <1>3, EarlierKept DEF QueueInv, Typed, history
<1> QED
  BY <1>1, <1>3, <1>4, SameQueue DEF history

LEMMA NotifyHostInv ==
  ASSUME QueueInv, NEW z \in Zones, NEW ip \in V4, NEW id \in [Slaves -> Ids],
         NotifyHost(z, ip, id)
  PROVE  QueueInv'
<1>1. serial[z] \in Nat /\ nqueue \in Seq(Request) /\ {ip} \in SUBSET Slaves
  BY DEF QueueInv, Typed, Slaves
<1>2. /\ nqueue' \in Seq(Request)
      /\ \A i \in 1 .. Len(nqueue) :
           Waits(nqueue', nqueue[i].domain, nqueue[i].ip, nqueue[i].serial)
  BY <1>1, AddedWait DEF NotifyHost
<1>3. UNCHANGED <<db, network, answers, cmdomains, storing, settled, dropped>>
  BY DEF NotifyHost, thread, history
<1>4. Typed' /\ ReadEarlier' /\ FewerPromises
  BY <1>2, <1>3, Steady DEF QueueInv, Typed, db
<1>5. \A i \in 1 .. Len(nqueue) : Accounted(nqueue[i], nqueue', settled', dropped')
  BY <1>2 DEF Accounted
<1>6. \A p \in Pairs : settled'[p] >= settled[p]
  BY <1>3 DEF QueueInv, Typed
<1> QED
  BY <1>3, <1>4, <1>5, <1>6, NothingForgotten

(* A request is taken off the queue and settled. *)
LEMMA TakenOff ==
  ASSUME QueueInv, NEW i \in 1 .. Len(nqueue), nqueue' = RemoveAt(nqueue, i), Settle(nqueue[i]),
         UNCHANGED <<db, network, cmdomains, storing, dropped>>, answers' \subseteq answers
  PROVE  QueueInv'
<1>1. Typed /\ nqueue \in Seq(Request)
  BY DEF QueueInv, Typed
<1>2. /\ settled' \in [Pairs -> Nat]
      /\ \A p \in Pairs : settled'[p] >= settled[p]
      /\ settled'[<<nqueue[i].domain, nqueue[i].ip>>] >= nqueue[i].serial
  BY <1>1, SettleGrows
<1>3. /\ nqueue' \in Seq(Request)
      /\ \A j \in 1 .. Len(nqueue) : j # i =>
           Waits(nqueue', nqueue[j].domain, nqueue[j].ip, nqueue[j].serial)
  BY <1>1, OthersWait
<1>4. Typed' /\ ReadEarlier' /\ FewerPromises
  BY <1>2, <1>3, Steady DEF QueueInv, Typed, db
<1>5. \A j \in 1 .. Len(nqueue) : Accounted(nqueue[j], nqueue', settled', dropped')
  BY <1>2, <1>3 DEF Accounted
<1> QED
  BY <1>2, <1>4, <1>5, NothingForgotten

LEMMA DrainInv ==
  ASSUME QueueInv, NEW a \in answers, Drain(a)
  PROVE  QueueInv'
<1>1. answers' = answers \ {a} /\ UNCHANGED <<db, network, cmdomains, storing, dropped>>
  BY DEF Drain, thread
<1>2. CASE MatchAt(a) = 0
  <2>1. UNCHANGED <<nqueue, settled>>
    BY <1>2 DEF Drain, MatchAt
  <2>2. Typed' /\ ReadEarlier' /\ FewerPromises
    BY <1>1, <2>1, Steady DEF QueueInv, Typed, db
  <2> QED
    BY <1>1, <2>1, <2>2, SameQueue
<1>3. CASE MatchAt(a) # 0
  <2>1. nqueue' = RemoveAt(nqueue, MatchAt(a)) /\ Settle(nqueue[MatchAt(a)])
    BY <1>3 DEF Drain, MatchAt
  <2>2. MatchAt(a) \in 1 .. Len(nqueue)
    BY <1>3, MatchFound DEF QueueInv
  <2> QED
    BY <1>1, <2>1, <2>2, TakenOff
<1> QED
  BY <1>2, <1>3

LEMMA SendInv ==
  ASSUME QueueInv, Send
  PROVE  QueueInv'
<1> DEFINE i == FirstDue
           nr == nqueue[i]
           notification == [domain |-> nr.domain, ip |-> nr.ip, id |-> nr.id]
<1>1. /\ i # 0 /\ nqueue' = GetOne(i)
      /\ UNCHANGED <<db, answers, cmdomains, storing, dropped>>
  BY DEF Send, thread
<1>2. i \in 1 .. Len(nqueue) /\ nqueue \in Seq(Request)
  BY <1>1, DueFound DEF QueueInv, Typed
<1>3. nr.attempts \in 0 .. 4 /\ nr.domain \in Zones /\ nr.ip \in Slaves /\ nr.id \in Ids
  BY <1>2, RequestFields
<1>4. CASE nr.attempts = 4
  <2>1. Settle(nr) /\ UNCHANGED network
    BY <1>4 DEF Send, GiveUpAfter
  <2>2. nr.attempts + 1 > GiveUpAfter
    BY <1>4 DEF GiveUpAfter
  <2>3. nqueue' = RemoveAt(nqueue, i)
    BY <1>1, <2>2 DEF GetOne
  <2> QED
    BY <1>1, <1>2, <2>1, <2>3, TakenOff
<1>5. CASE nr.attempts # 4
  <2>1. nr.attempts < 4
    BY <1>3, <1>5
  <2>2. network' \subseteq network \cup {notification} /\ UNCHANGED settled
    BY <1>5 DEF Send, GiveUpAfter
  <2>3. notification \in Notification
    BY <1>3 DEF Notification
  <2>4. /\ nqueue' \in Seq(Request)
        /\ \A j \in 1 .. Len(nqueue) :
             Waits(nqueue', nqueue[j].domain, nqueue[j].ip, nqueue[j].serial)
    BY <1>1, <1>2, <2>1, RetriedWait
  <2>5. Typed' /\ ReadEarlier' /\ FewerPromises
    BY <1>1, <2>2, <2>3, <2>4, Steady DEF QueueInv, Typed, db
  <2>6. \A j \in 1 .. Len(nqueue) : Accounted(nqueue[j], nqueue', settled', dropped')
    BY <2>4 DEF Accounted
  <2>7. \A p \in Pairs : settled'[p] >= settled[p]
    BY <2>2 DEF QueueInv, Typed
  <2> QED
    BY <1>1, <2>5, <2>6, <2>7, NothingForgotten
<1> QED
  BY <1>4, <1>5

LEMMA SleepInv ==
  ASSUME QueueInv, Sleep
  PROVE  QueueInv'
<1>1. UNCHANGED <<db, network, answers, cmdomains, storing, settled, dropped>>
  BY DEF Sleep, history
<1>2. /\ nqueue' = [i \in 1 .. Len(nqueue) |-> [nqueue[i] EXCEPT !.due = Sub(nqueue[i].due, 1)]]
      /\ nqueue \in Seq(Request) /\ Len(nqueue) \in Nat
  BY DEF Sleep, TimePasses, QueueInv, Typed
<1>3. ASSUME NEW i \in 1 .. Len(nqueue)
      PROVE  /\ nqueue'[i] \in Request /\ nqueue'[i].domain = nqueue[i].domain
             /\ nqueue'[i].ip = nqueue[i].ip /\ nqueue'[i].serial = nqueue[i].serial
  <2>1. nqueue[i] \in Request /\ nqueue[i].due \in Nat
    BY <1>2, RequestFields
  <2>2. Sub(nqueue[i].due, 1) \in Nat
    BY <2>1 DEF Sub
  <2>3. nqueue'[i] = [nqueue[i] EXCEPT !.due = Sub(nqueue[i].due, 1)]
    BY <1>2
  <2> QED
    BY <2>1, <2>2, <2>3 DEF Request
<1>4. nqueue' \in Seq(Request) /\ Len(nqueue') = Len(nqueue)
  <2>1. nqueue' \in [1 .. Len(nqueue) -> Request]
    BY <1>2, <1>3
  <2> QED
    BY <1>2, <2>1
<1>5. Typed' /\ ReadEarlier' /\ FewerPromises
  BY <1>1, <1>4, Steady DEF QueueInv, Typed, db
<1>6. ASSUME NEW i \in 1 .. Len(nqueue)
      PROVE  Accounted(nqueue[i], nqueue', settled', dropped')
  <2>1. Waits(nqueue', nqueue'[i].domain, nqueue'[i].ip, nqueue'[i].serial)
    BY <1>4, StillWaits
  <2> QED
    BY <1>3, <2>1 DEF Accounted
<1>7. \A p \in Pairs : settled'[p] >= settled[p]
  BY <1>1 DEF QueueInv, Typed
<1> QED
  BY <1>1, <1>5, <1>6, <1>7, NothingForgotten

LEMMA RestartInv ==
  ASSUME QueueInv, Restart
  PROVE  QueueInv'
<1>1. /\ nqueue' = <<>> /\ answers' = {} /\ cmdomains' = {} /\ storing' = {}
      /\ dropped' = dropped \cup {<<nr.domain, nr.ip>> : nr \in ToSet(nqueue)}
      /\ UNCHANGED <<db, network, settled>>
  BY DEF Restart
<1>2. ASSUME NEW i \in 1 .. Len(nqueue)
      PROVE  <<nqueue[i].domain, nqueue[i].ip>> \in dropped'
  <2>1. nqueue[i] \in ToSet(nqueue)
    BY DEF ToSet, QueueInv, Typed
  <2> QED
    BY <1>1, <2>1
<1>3. ASSUME NEW nr \in ToSet(nqueue)
      PROVE  <<nr.domain, nr.ip>> \in Pairs
  <2>1. PICK i \in 1 .. Len(nqueue) : nr = nqueue[i]
    BY DEF ToSet, QueueInv, Typed
  <2>2. nqueue[i].domain \in Zones /\ nqueue[i].ip \in Slaves
    BY RequestFields DEF QueueInv, Typed
  <2> QED
    BY <2>1, <2>2 DEF Pairs
<1>4. dropped \subseteq dropped' /\ dropped' \subseteq Pairs
  BY <1>1, <1>3 DEF QueueInv, Typed
<1>5. nqueue' \in Seq(Request)
  BY <1>1, EmptySeq
<1>6. FewerPromises
  BY <1>1 DEF FewerPromises, Promise, db
<1>8. Typed' /\ ReadEarlier'
  BY <1>1, <1>4, <1>5, <1>6, EarlierKept DEF QueueInv, Typed, db
<1>7. \A p \in Pairs : settled'[p] >= settled[p]
  BY <1>1 DEF QueueInv, Typed
<1> QED
  BY <1>2, <1>4, <1>6, <1>7, <1>8, NothingForgotten DEF Accounted

LEMMA InitInv == Init => QueueInv
<1> SUFFICES ASSUME Init PROVE QueueInv
  OBVIOUS
<1>1. Typed
  <2>1. nqueue \in Seq(Request)
    BY EmptySeq DEF Init
  <2>2. SerialRead \subseteq Zones
    BY DEF SerialRead
  <2> QED
    BY <2>1, <2>2 DEF Init, Typed
<1>2. \A z \in SerialRead : z \in Zones /\ \A s : Promise(z, s) => s = 0
  BY DEF Init, Promise, SerialRead
<1>3. ReadEarlier
  BY <1>2 DEF Init, ReadEarlier
<1>4. \A z \in SerialRead : \A ip \in NameServers[z] : settled[<<z, ip>>] = 0
  BY ReadZone DEF Init
<1>5. Kept
  BY <1>2, <1>4 DEF Kept, Announced
<1> QED
  BY <1>1, <1>3, <1>5 DEF QueueInv

LEMMA QueueInductive == QueueInv /\ [Next]_vars => QueueInv'
<1> SUFFICES ASSUME QueueInv, [Next]_vars PROVE QueueInv'
  OBVIOUS
<1>1. CASE UNCHANGED vars
  <2>1. Typed' /\ ReadEarlier' /\ FewerPromises
    BY <1>1, Steady DEF vars, db, history, thread, QueueInv, Typed
  <2> QED
    BY <1>1, <2>1, SameQueue DEF vars, history
<1>2. CASE Communicator
  BY <1>2, UpdateInv, AnnounceInv, StoreInv, StartInv, DrainInv, SendInv, SleepInv
  DEF Communicator, StoreNotified
<1>3. CASE \E z \in Zones : Change(z)
  BY <1>3, ChangeInv
<1>4. CASE \E z \in Zones, id \in [Slaves -> Ids] :
             \E ips \in SUBSET NameServers[z] : NotifyDomain(z, ips, id)
  BY <1>4, NotifyDomainInv
<1>8. CASE \E r \in storing : StoreRequested(r)
  BY <1>8, StoreInv DEF StoreRequested
<1>5. CASE \E z \in Zones, ip \in V4, id \in [Slaves -> Ids] : NotifyHost(z, ip, id)
  BY <1>5, NotifyHostInv
<1>6. CASE \E n \in network : Answer(n)
  BY <1>6, AnswerInv
<1>7. CASE Restart
  BY <1>7, RestartInv
<1> QED
  BY <1>1, <1>2, <1>3, <1>4, <1>5, <1>6, <1>7, <1>8 DEF Next

(***************************************************************************)
(* No announcement is forgotten, in any run, with any number of zones and  *)
(* addresses: what setNotified stored is at most the serial the requests   *)
(* were queued for, although the zone may change between getUpdatedMasters *)
(* and setNotified, and add, getOne and removeIf lose no request.  The     *)
(* invariant has it from the moment the requests are queued: whoever       *)
(* stores the serial later finds them there, or settled since.             *)
(***************************************************************************)
THEOREM AnnouncedSafe == Spec => []AnnouncedOrQueued
BY AnnouncedEach, InitInv, QueueInductive, PTL DEF Spec

-----------------------------------------------------------------------------
(***************************************************************************)
(* What removeIf compares: a request that matches an answer has the id,    *)
(* the zone and the address of the NOTIFY that was answered.               *)
(***************************************************************************)
LEMMA SameHost ==
  ASSUME NEW a \in Slaves, NEW b \in Slaves
  PROVE  HostPart(a) = RemoteHostPart(b) => a = b
BY DEF HostPart, RemoteHostPart

(* Steps that make the queue no shorter: all but those that take a request off it. *)
LEMMA OnlyShorter ==
  ASSUME QueueInv, [Next]_vars, ~(\E a \in answers : Drain(a)), ~Send, ~Restart
  PROVE  Len(nqueue') >= Len(nqueue)
<1>1. nqueue \in Seq(Request) /\ Len(nqueue) \in Nat
  BY DEF QueueInv, Typed
<1>2. CASE UNCHANGED nqueue
  BY <1>1, <1>2
<1>3. ASSUME NEW z \in Zones, NEW ips \in SUBSET Slaves, NEW id \in [Slaves -> Ids],
             nqueue' = Add(z, ips, id, serial[z])
      PROVE  Len(nqueue') >= Len(nqueue)
  BY <1>1, <1>3, AddedWait DEF QueueInv, Typed
<1>9. NameServers \in [Zones -> SUBSET Slaves]
  BY MasterAssumption
<1>4. CASE \E z \in MasterZones, s \in Serials, id \in [Slaves -> Ids] :
             \E ips \in SUBSET NameServers[z] : Announce(z, s, ips, id)
  <2>1. PICK z \in MasterZones, s \in Serials, id \in [Slaves -> Ids] :
               \E ips \in SUBSET NameServers[z] : Announce(z, s, ips, id)
    BY <1>4
  <2>2. PICK ips \in SUBSET NameServers[z] : Announce(z, s, ips, id)
    BY <2>1
  <2>3. z \in Zones /\ ips \in SUBSET Slaves /\ nqueue' = Add(z, ips, id, serial[z])
    BY <1>9, <2>2 DEF Announce, QueueNotifyDomain, Zones
  <2> QED
    BY <1>3, <2>3
<1>5. CASE \E z \in Zones, id \in [Slaves -> Ids] :
             \E ips \in SUBSET NameServers[z] : NotifyDomain(z, ips, id)
  BY <1>3, <1>5, <1>9 DEF NotifyDomain, QueueNotifyDomain
<1>6. CASE \E z \in Zones, ip \in V4, id \in [Slaves -> Ids] : NotifyHost(z, ip, id)
  <2>1. PICK z \in Zones, ip \in V4, id \in [Slaves -> Ids] : NotifyHost(z, ip, id)
    BY <1>6
  <2>2. {ip} \in SUBSET Slaves /\ nqueue' = Add(z, {ip}, id, serial[z])
    BY <2>1 DEF NotifyHost, Slaves
  <2> QED
    BY <1>3, <2>2
<1>7. CASE Sleep
  <2>1. nqueue' = [i \in 1 .. Len(nqueue) |-> [nqueue[i] EXCEPT !.due = Sub(nqueue[i].due, 1)]]
    BY <1>1, <1>7 DEF Sleep, TimePasses
  <2>2. Len(nqueue') = Len(nqueue)
    BY <1>1, <2>1
  <2> QED
    BY <1>1, <2>2
<1>8. CASE \/ GetUpdatedMasters \/ StartNotifications \/ EndDrain \/ EndSend \/ Awake
           \/ (\E z \in Zones : Change(z)) \/ (\E n \in network : Answer(n))
           \/ (\E r \in storing : StoreNotified(r) \/ StoreRequested(r)) \/ UNCHANGED vars
  BY <1>2, <1>8 DEF GetUpdatedMasters, StartNotifications, EndDrain, EndSend, Awake, Change,
                    Answer, StoreNotified, StoreRequested, SetNotified, vars
<1> QED
  BY <1>4, <1>5, <1>6, <1>7, <1>8 DEF Next, Communicator

(* The one request that left the queue, when it is one shorter. *)
LEMMA TheOneTaken ==
  ASSUME QueueInv, NEW i \in 1 .. Len(nqueue), nqueue' = RemoveAt(nqueue, i),
         NEW nr \in ToSet(nqueue), nr \notin ToSet(nqueue')
  PROVE  nr = nqueue[i]
<1>1. nqueue \in Seq(Request)
  BY DEF QueueInv, Typed
<1>2. /\ nqueue' \in Seq(Request) /\ Len(nqueue') = Len(nqueue) - 1
      /\ \A j \in 1 .. Len(nqueue) \ {i} : \E k \in 1 .. Len(nqueue) - 1 : nqueue'[k] = nqueue[j]
  BY <1>1, RemovedOne
<1>3. PICK j \in 1 .. Len(nqueue) : nr = nqueue[j]
  BY <1>1 DEF ToSet
<1>4. ASSUME j # i PROVE FALSE
  <2>1. PICK k \in 1 .. Len(nqueue) - 1 : nqueue'[k] = nqueue[j]
    BY <1>2, <1>4
  <2>2. k \in DOMAIN nqueue'
    BY <1>2, <2>1
  <2> QED
    BY <1>3, <2>1, <2>2 DEF ToSet
<1> QED
  BY <1>3, <1>4

(***************************************************************************)
(* A request leaves the queue for its own answer or after four attempts,   *)
(* with any number of requests that agree in zone, address or id: of what  *)
(* removeIf compares the text before the first ':' of the address decides, *)
(* and getOne gives up after the fourth attempt only.                      *)
(***************************************************************************)
TakenForCause ==
  \A nr \in ToSet(nqueue) :
    LeavesQueue(nr) /\ nr.attempts < 4 /\ nqueue' # <<>> =>
      [domain |-> nr.domain, ip |-> nr.ip, id |-> nr.id] \in answers
THEOREM RetriedSafe == Spec => RetriedUntilAnswered
<1>1. ASSUME QueueInv, [Next]_vars PROVE [TakenForCause]_vars
  <2> SUFFICES ASSUME NEW nr \in ToSet(nqueue), LeavesQueue(nr), nr.attempts < 4, nqueue' # <<>>
               PROVE  [domain |-> nr.domain, ip |-> nr.ip, id |-> nr.id] \in answers
    BY DEF TakenForCause
  <2>1. Typed /\ nqueue \in Seq(Request) /\ Len(nqueue) \in Nat
    BY <1>1 DEF QueueInv, Typed
  <2>2. Len(nqueue') < Len(nqueue) /\ nr \notin ToSet(nqueue')
    BY DEF LeavesQueue
  <2>3. ~Restart
    BY DEF Restart
  <2>4. ASSUME NEW a \in answers, Drain(a)
        PROVE  [domain |-> nr.domain, ip |-> nr.ip, id |-> nr.id] \in answers
    <3> DEFINE i == MatchAt(a)
    <3>1. i # 0
      <4>1. ASSUME i = 0 PROVE nqueue' = nqueue
        BY <2>4, <4>1 DEF Drain, MatchAt
      <4> QED
        BY <2>1, <2>2, <4>1
    <3>2. i \in 1 .. Len(nqueue) /\ Matches(nqueue[i], a)
      BY <2>1, <3>1, MatchFound
    <3>3. nqueue' = RemoveAt(nqueue, i)
      BY <2>4, <3>1 DEF Drain, MatchAt
    <3>4. nr = nqueue[i]
      BY <1>1, <2>2, <3>2, <3>3, TheOneTaken
    <3>5. a \in Notification /\ nr.ip \in Slaves
      BY <2>1, <3>2, <3>4, RequestFields DEF Typed
    <3>6. a.ip \in Slaves /\ a = [domain |-> a.domain, ip |-> a.ip, id |-> a.id]
      BY <3>5 DEF Notification
    <3>7. nr.id = a.id /\ nr.domain = a.domain /\ HostPart(nr.ip) = RemoteHostPart(a.ip)
      BY <3>2, <3>4 DEF Matches
    <3>8. nr.ip = a.ip
      BY <3>5, <3>6, <3>7, SameHost
    <3> QED
      BY <2>4, <3>6, <3>7, <3>8
  <2>5. ASSUME Send PROVE FALSE
    <3> DEFINE i == FirstDue
    <3>1. i # 0 /\ nqueue' = GetOne(i)
      BY <2>5 DEF Send
    <3>2. i \in 1 .. Len(nqueue)
      BY <2>1, <3>1, DueFound
    <3>3. nqueue[i].attempts \in 0 .. 4
      BY <2>1, <3>2, RequestFields
    <3>4. CASE nqueue[i].attempts < 4
      <4>1. Len(nqueue') = Len(nqueue)
        BY <2>1, <3>1, <3>2, <3>4, RetriedWait
      <4> QED
        BY <2>1, <2>2, <4>1
    <3>5. CASE nqueue[i].attempts = 4
      <4>1. nqueue[i].attempts + 1 > GiveUpAfter
        BY <3>5 DEF GiveUpAfter
      <4>2. nqueue' = RemoveAt(nqueue, i)
        BY <3>1, <4>1 DEF GetOne
      <4>3. nr = nqueue[i]
        BY <1>1, <2>2, <3>2, <4>2, TheOneTaken
      <4> QED
        BY <3>5, <4>3
    <3> QED
      BY <3>3, <3>4, <3>5
  <2>6. ASSUME ~(\E a \in answers : Drain(a)), ~Send
        PROVE  FALSE
    <3>1. Len(nqueue') >= Len(nqueue)
      BY <1>1, <2>3, <2>6, OnlyShorter
    <3>2. Len(nqueue') \in Nat
      BY <1>1, QueueInductive DEF QueueInv, Typed
    <3> QED
      BY <2>1, <2>2, <3>1, <3>2
  <2> QED
    BY <2>4, <2>5, <2>6
<1> QED
  BY <1>1, InitInv, QueueInductive, PTL DEF Spec, RetriedUntilAnswered, TakenForCause

-----------------------------------------------------------------------------
(***************************************************************************)
(* The other half of the class: the queue of transfers, its semaphore and  *)
(* the retrieval threads, in variables of their own.                       *)
(***************************************************************************)
Woken == {t \in Threads : retrieval[t].pc = "woken"}

(* What the counting needs of the types: a queue, a number, a state for every thread. *)
IsQueue(q) == \E S : q \in Seq(S)
AreThreads(f) == DOMAIN f = Threads /\ \A t \in Threads : "pc" \in DOMAIN f[t]

(* The inductive invariant. *)
SuckInv ==
  /\ IsQueue(suckdomains)
  /\ suckSem \in Nat
  /\ AreThreads(retrieval)
  /\ suckSem + Cardinality(Woken) = Len(suckdomains)

LEMMA AppendQueue ==
  ASSUME NEW q, IsQueue(q), NEW e
  PROVE  IsQueue(Append(q, e)) /\ Len(Append(q, e)) = Len(q) + 1 /\ Len(q) \in Nat
<1>1. PICK S : q \in Seq(S)
  BY DEF IsQueue
<1>2. q \in Seq(S \cup {e}) /\ e \in S \cup {e}
  BY <1>1, SeqMonotonic
<1>3. Append(q, e) \in Seq(S \cup {e}) /\ Len(Append(q, e)) = Len(q) + 1
  BY <1>2, AppendProperties
<1>4. Len(q) \in Nat
  BY <1>1, LenProperties
<1> QED
  BY <1>3, <1>4 DEF IsQueue

LEMMA TailQueue ==
  ASSUME NEW q, IsQueue(q), q # <<>>
  PROVE  IsQueue(Tail(q)) /\ Len(Tail(q)) = Len(q) - 1 /\ Len(q) \in Nat
<1>1. PICK S : q \in Seq(S)
  BY DEF IsQueue
<1>2. Tail(q) \in Seq(S) /\ Len(Tail(q)) = Len(q) - 1
  BY <1>1, HeadTailProperties
<1>3. Len(q) \in Nat
  BY <1>1, LenProperties
<1> QED
  BY <1>2, <1>3 DEF IsQueue

LEMMA EmptyQueue == IsQueue(<<>>) /\ Len(<<>>) = 0
<1>1. <<>> \in Seq({})
  OBVIOUS
<1> QED
  BY <1>1 DEF IsQueue

(* A thread that has just been, or is no longer, woken changes their number. *)
LEMMA SuckWoken ==
  ASSUME AreThreads(retrieval), NEW t \in Threads, NEW new,
         "pc" \in DOMAIN new, retrieval' = [retrieval EXCEPT ![t] = new]
  PROVE  /\ AreThreads(retrieval')
         /\ Cardinality(Woken) \in Nat
         /\ retrieval[t].pc # "woken" /\ new.pc # "woken" => Cardinality(Woken') = Cardinality(Woken)
         /\ retrieval[t].pc # "woken" /\ new.pc = "woken" => Cardinality(Woken') = Cardinality(Woken) + 1
         /\ retrieval[t].pc = "woken" /\ new.pc # "woken" => Cardinality(Woken') = Cardinality(Woken) - 1
                                                          /\ Cardinality(Woken) > 0
<1>1. IsFiniteSet(Woken) /\ Cardinality(Woken) \in Nat
  BY SlaveAssumption, FS_Subset, FS_CardinalityType DEF Woken
<1>2. AreThreads(retrieval') /\ \A u \in Threads : retrieval'[u] = IF u = t THEN new ELSE retrieval[u]
  BY DEF AreThreads
<1>3. CASE retrieval[t].pc # "woken" /\ new.pc # "woken"
  <2>1. Woken' = Woken
    BY <1>2, <1>3 DEF Woken
  <2> QED
    BY <1>1, <1>2, <1>3, <2>1
<1>4. CASE retrieval[t].pc # "woken" /\ new.pc = "woken"
  <2>1. Woken' = Woken \cup {t} /\ t \notin Woken
    BY <1>2, <1>4 DEF Woken
  <2> QED
    BY <1>1, <1>2, <1>4, <2>1, FS_AddElement
<1>5. CASE retrieval[t].pc = "woken" /\ new.pc # "woken"
  <2>1. Woken' = Woken \ {t} /\ t \in Woken
    BY <1>2, <1>5 DEF Woken
  <2>2. Cardinality(Woken') = Cardinality(Woken) - 1
    BY <1>1, <2>1, FS_RemoveElement
  <2>3. Cardinality(Woken) # 0
    BY <1>1, <2>1, FS_EmptySet
  <2> QED
    BY <1>1, <1>2, <1>5, <2>2, <2>3
<1> QED
  BY <1>1, <1>2, <1>3, <1>4, <1>5

(* A new request comes with a wake-up; one that is queued already does not. *)
LEMMA SuckRequested ==
  ASSUME SuckInv, NEW z, NEW m, AddSuckRequest(z, m),
         retrieval' = retrieval
  PROVE  SuckInv'
<1>1. Cardinality(Woken) \in Nat /\ Woken' = Woken
  BY SlaveAssumption, FS_Subset, FS_CardinalityType DEF Woken
<1>2. CASE UNCHANGED queue
  BY <1>1, <1>2 DEF SuckInv, queue
<1>3. CASE suckdomains' = Append(suckdomains, <<z, m>>) /\ suckSem' = suckSem + 1
  <2>1. IsQueue(suckdomains') /\ Len(suckdomains') = Len(suckdomains) + 1
    BY <1>3, AppendQueue DEF SuckInv
  <2>2. PICK n \in Nat : n = Cardinality(Woken)
    BY <1>1
  <2>3. suckSem \in Nat /\ suckSem + n = Len(suckdomains)
    BY <2>2 DEF SuckInv
  <2>4. suckSem' \in Nat /\ suckSem' + n = Len(suckdomains')
    BY <1>3, <2>1, <2>3
  <2> QED
    BY <1>1, <2>1, <2>2, <2>4 DEF SuckInv
<1> QED
  BY <1>2, <1>3 DEF AddSuckRequest

(* A thread that neither wakes up nor goes to the queue. *)
LEMMA SuckElsewhere ==
  ASSUME SuckInv, NEW t \in Threads, NEW new,
         "pc" \in DOMAIN new, retrieval' = [retrieval EXCEPT ![t] = new],
         retrieval[t].pc # "woken", new.pc # "woken", UNCHANGED queue
  PROVE  SuckInv'
<1>1. AreThreads(retrieval') /\ Cardinality(Woken') = Cardinality(Woken)
  BY SuckWoken DEF SuckInv
<1> QED
  BY <1>1 DEF SuckInv, queue

LEMMA SuckWait ==
  ASSUME SuckInv, NEW t \in Threads, Wait(t)
  PROVE  SuckInv'
<1>1. PICK new : new = [retrieval[t] EXCEPT !.pc = "woken"]
  OBVIOUS
<1>2. "pc" \in DOMAIN new /\ new.pc = "woken"
  BY <1>1 DEF SuckInv, AreThreads
<1>3. retrieval' = [retrieval EXCEPT ![t] = new] /\ retrieval[t].pc # "woken"
  BY <1>1 DEF Wait
<1>4. /\ AreThreads(retrieval') /\ Cardinality(Woken) \in Nat
      /\ Cardinality(Woken') = Cardinality(Woken) + 1
  BY <1>2, <1>3, SuckWoken DEF SuckInv
<1>5. suckSem' \in Nat /\ suckSem' = suckSem - 1 /\ suckdomains' = suckdomains
  BY DEF Wait, SuckInv
<1>6. suckSem' + Cardinality(Woken') = Len(suckdomains')
  BY <1>4, <1>5 DEF SuckInv
<1> QED
  BY <1>4, <1>5, <1>6 DEF SuckInv

(* A woken thread finds a request: their number says that the queue is not empty. *)
LEMMA SuckPop ==
  ASSUME SuckInv, NEW t \in Threads, Pop(t)
  PROVE  SuckInv'
<1>1. Cardinality(Woken) \in Nat /\ Cardinality(Woken) > 0
  <2>1. IsFiniteSet(Woken) /\ t \in Woken
    BY SlaveAssumption, FS_Subset DEF Woken, Pop
  <2> QED
    BY <2>1, FS_CardinalityType, FS_EmptySet
<1>2. suckdomains # <<>>
  <2>1. suckSem \in Nat /\ suckSem + Cardinality(Woken) = Len(suckdomains)
    BY DEF SuckInv
  <2>2. Len(suckdomains) # 0
    BY <1>1, <2>1
  <2> QED
    BY <2>2, EmptyQueue
<1>3. PICK new : new = [Idle EXCEPT !.pc = "suck",
                          !.zone = suckdomains[1][1], !.master = suckdomains[1][2],
                          !.had = presigned[suckdomains[1][1]]]
  OBVIOUS
<1>4. retrieval' = [retrieval EXCEPT ![t] = new] /\ suckdomains' = Tail(suckdomains)
      /\ suckSem' = suckSem
  BY <1>2, <1>3 DEF Pop
<1>5. "pc" \in DOMAIN new /\ new.pc # "woken" /\ retrieval[t].pc = "woken"
  BY <1>3 DEF Idle, Pop
<1>6. AreThreads(retrieval') /\ Cardinality(Woken') = Cardinality(Woken) - 1
  BY <1>4, <1>5, SuckWoken DEF SuckInv
<1>7. IsQueue(suckdomains') /\ Len(suckdomains') = Len(suckdomains) - 1 /\ Len(suckdomains) \in Nat
  BY <1>2, <1>4, TailQueue DEF SuckInv
<1>8. suckSem' \in Nat /\ suckSem' + Cardinality(Woken') = Len(suckdomains')
  BY <1>1, <1>4, <1>6, <1>7 DEF SuckInv
<1> QED
  BY <1>6, <1>7, <1>8 DEF SuckInv

LEMMA SuckInductive == SuckInv /\ [SlaveNext]_slaveVars => SuckInv'
<1> SUFFICES ASSUME SuckInv, [SlaveNext]_slaveVars PROVE SuckInv'
  OBVIOUS
<1> DEFINE Same == UNCHANGED <<suckdomains, suckSem, retrieval>>
<1>1. CASE Same
  BY <1>1 DEF SuckInv, Woken
<1>2. ASSUME NEW t \in Threads,
             StartAXFR(t) \/ FailAXFR(t) \/ Commit(t)
               \/ SetFresh(t) \/ FailStore(t) \/ SetFlags(t)
      PROVE  SuckInv'
  <2>1. retrieval[t].pc # "woken" /\ UNCHANGED queue
    BY <1>2 DEF StartAXFR, FailAXFR, Commit, SetFresh, FailStore,
                SetFlags
  <2>2. CASE StartAXFR(t)
    <3>1. PICK new : new = [retrieval[t] EXCEPT !.pc = "axfr",
                              !.got = mserial[retrieval[t].master][retrieval[t].zone]]
      OBVIOUS
    <3>2. "pc" \in DOMAIN new /\ new.pc = "axfr"
      BY <3>1 DEF SuckInv, AreThreads
    <3>3. retrieval' = [retrieval EXCEPT ![t] = new]
      BY <2>2, <3>1 DEF StartAXFR
    <3> QED
      BY <2>1, <3>2, <3>3, SuckElsewhere
  <2>3. ASSUME NEW at \in {"setfresh", "flags"}, retrieval' = [retrieval EXCEPT ![t].pc = at]
        PROVE  SuckInv'
    <3>1. PICK new : new = [retrieval[t] EXCEPT !.pc = at]
      OBVIOUS
    <3>2. "pc" \in DOMAIN new /\ new.pc # "woken"
      BY <2>3, <3>1 DEF SuckInv, AreThreads
    <3>3. retrieval' = [retrieval EXCEPT ![t] = new]
      BY <2>3, <3>1
    <3> QED
      BY <2>1, <3>2, <3>3, SuckElsewhere
  <2>4. CASE retrieval' = [retrieval EXCEPT ![t] = Idle]
    <3>1. "pc" \in DOMAIN Idle /\ Idle.pc # "woken"
      BY DEF Idle
    <3> QED
      BY <2>1, <2>4, <3>1, SuckElsewhere
  <2> QED
    BY <1>2, <2>2, <2>3, <2>4
    DEF FailAXFR, Commit, SetFresh, FailStore, SetFlags
<1>3. ASSUME NEW z, NEW sigsDiffer, Apply(z, sigsDiffer)
      PROVE  SuckInv'
  <2>1. retrieval' = retrieval
    BY <1>3 DEF Apply
  <2>2. UNCHANGED queue \/ \E m : AddSuckRequest(z, m)
    BY <1>3 DEF Apply
  <2>3. CASE UNCHANGED queue
    BY <1>1, <2>1, <2>3 DEF queue
  <2> QED
    BY <2>1, <2>2, <2>3, SuckRequested
<1>4. ASSUME NEW m, NEW z, Retrieve(z, m)
      PROVE  SuckInv'
  BY <1>4, SuckRequested DEF Retrieve
<1>5. ASSUME NEW z, NEW m, NEW answered, Poll(z, m, answered)
      PROVE  Same
  BY <1>5 DEF Poll, queue
<1>6. ASSUME NEW z, NEW m, Update(m, z) \/ Notify(z) \/ Expire(z)
      PROVE  Same
  BY <1>6 DEF Update, Notify, Expire, queue
<1>7. CASE Collect \/ EndPoll \/ EndCycle \/ UNCHANGED slaveVars
  BY <1>1, <1>7 DEF Collect, EndPoll, EndCycle, slaveVars, queue
<1> QED
  BY <1>1, <1>2, <1>3, <1>4, <1>5, <1>6, <1>7, SuckWait, SuckPop DEF SlaveNext

(***************************************************************************)
(* addSuckRequest posts d_suck_sem for a request that is new to the queue  *)
(* and for no other, whoever adds it: however many zones, masters and      *)
(* retrieval threads there are, each queued request has a wake-up or an    *)
(* awake thread of its own, and no thread wakes up to an empty queue.      *)
(***************************************************************************)
THEOREM WakeupPerRequestSafe == SlaveSpec => []WakeupPerRequest
<1>1. SlaveInit => SuckInv
  <2> SUFFICES ASSUME SlaveInit PROVE SuckInv
    OBVIOUS
  <2>1. suckdomains = <<>> /\ suckSem = 0 /\ retrieval = [t \in Threads |-> Idle]
    BY DEF SlaveInit
  <2>2. "pc" \in DOMAIN Idle /\ Idle.pc = "wait"
    BY DEF Idle
  <2>3. AreThreads(retrieval) /\ Woken = {}
    BY <2>1, <2>2 DEF AreThreads, Woken
  <2> QED
    BY <2>1, <2>3, EmptyQueue, FS_EmptySet DEF SuckInv
<1>2. SuckInv /\ [SlaveNext]_slaveVars => SuckInv'
  BY SuckInductive
<1>3. SuckInv => WakeupPerRequest
  BY DEF SuckInv, WakeupPerRequest, Woken
<1> QED
  BY <1>1, <1>2, <1>3, PTL DEF SlaveSpec
=============================================================================
