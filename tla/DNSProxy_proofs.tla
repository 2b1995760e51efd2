-------------------------- MODULE DNSProxy_proofs --------------------------
(* The safety of DNSProxy for every number of ids, clients, questions and  *)
(* any masking of the ids.                                                 *)
EXTENDS DNSProxy, WellFoundedInduction, FiniteSetTheorems,
        FunctionTheorems, TLAPS

(***************************************************************************)
(* getID_locked always finds an id, the first reusable one: N itself is    *)
(* never in the map.                                                       *)
(***************************************************************************)
LEMMA GetIDIsFirst ==
  ASSUME TypeOK
  PROVE  /\ GetID_locked \in 0 .. N
         /\ Reusable(GetID_locked)
         /\ \A m \in 0 .. GetID_locked - 1 : ~Reusable(m)
<1> DEFINE Free == {n \in 0 .. N : Reusable(n)}
<1>1. N \in Free
  BY ProxyAssumption DEF TypeOK, Reusable, Ids
<1>2. IsWellFoundedOn(OpToRel(<, Nat), Nat)
  BY NatLessThanWellFounded
<1>3. Free \subseteq Nat
  BY ProxyAssumption
<1>4. PICK n \in Free : \A m \in Free : ~(<<m, n>> \in OpToRel(<, Nat))
  BY <1>1, <1>2, <1>3, WFMin
<1>5. \A m \in Free : ~(m < n)
  BY <1>3, <1>4 DEF OpToRel
<1>6. /\ n \in 0 .. N
      /\ Reusable(n)
      /\ \A m \in 0 .. n-1 : ~Reusable(m)
  BY <1>5, ProxyAssumption
<1> QED
  BY <1>6 DEF GetID_locked

LEMMA NewIDInIds ==
  ASSUME TypeOK
  PROVE  NewID \in Ids
BY GetIDIsFirst, ProxyAssumption, SMT DEF NewID, Ids

(* One step of sendPacket or mainloop keeps the types. *)
LEMMA TypeStep == TypeOK /\ [Next]_vars => TypeOK'
<1> SUFFICES ASSUME TypeOK, [Next]_vars PROVE TypeOK'
  OBVIOUS
<1> USE ProxyAssumption
<1>1. ASSUME NEW client \in Clients, NEW cid \in ClientIds, NEW q \in Questions,
             SendPacket(client, cid, q)
      PROVE  TypeOK'
  BY <1>1, NewIDInIds DEF SendPacket, TypeOK, ConntrackEntry, Ask
<1>2. ASSUME NEW p \in Packet, RelayAnswer(p)
      PROVE  TypeOK'
  <2>1. Mask[p.id] \in Ids /\ p.q \in Questions
    BY DEF Packet
  <2>2. conntrack[Mask[p.id]] \in ConntrackEntry
    BY <1>2 DEF RelayAnswer, Tracked, TypeOK
  <2>3. conntrack' \in [DOMAIN conntrack -> ConntrackEntry]
    BY <1>2, <2>1 DEF RelayAnswer, Tracked, TypeOK, ConntrackEntry
  <2>4. relayed' \in Seq(Relay)
    BY <1>2, <2>1, <2>2 DEF RelayAnswer, TypeOK, Relay, ConntrackEntry
  <2> QED
    BY <1>2, <2>1, <2>3, <2>4 DEF RelayAnswer, TypeOK
<1>3. CASE Tick
  BY <1>3 DEF Tick, TypeOK
<1>4. CASE UNCHANGED vars
  BY <1>4 DEF vars, TypeOK
<1>5. ASSUME NEW client \in Clients, Refuse(client) PROVE TypeOK'
  BY <1>4, <1>5 DEF Refuse
<1>6. ASSUME NEW p \in Packet, Discard(p) PROVE TypeOK'
  BY <1>4, <1>6 DEF Discard
<1> QED
  BY <1>1, <1>2, <1>3, <1>4, <1>5, <1>6 DEF Next

LEMMA InitProxyInv == Init => ProxyInv
BY ProxyAssumption DEF Init, ProxyInv, TypeOK, TicketsTrue, TicketsDistinct,
   UnansweredNotRelayed, AnsweredAsAsked, AnsweredOnce

(* sendPacket writes one entry, under a ticket nobody has seen before. *)
LEMMA SendPacketStep ==
  ASSUME ProxyInv, TypeOK',
         NEW client \in Clients, NEW cid \in ClientIds, NEW q \in Questions,
         SendPacket(client, cid, q)
  PROVE  ProxyInv'
<1> DEFINE ask == [client |-> client, cid |-> cid, q |-> q]
<1>1. /\ TypeOK
      /\ asked \in Seq(Ask)
      /\ relayed \in Seq(Relay)
      /\ ask \in Ask
  BY DEF ProxyInv, TypeOK, Ask
<1>2. /\ Len(asked') = Len(asked) + 1
      /\ \A t \in 1 .. Len(asked) : asked'[t] = asked[t]
      /\ asked'[Len(asked) + 1] = ask
      /\ Len(asked) \in Nat
  BY <1>1 DEF SendPacket
<1>3. relayed' = relayed
  BY DEF SendPacket
<1>4. /\ NewID \in DOMAIN conntrack'
      /\ DOMAIN conntrack' = DOMAIN conntrack \cup {NewID}
      /\ conntrack'[NewID] = [client |-> client, cid |-> cid, q |-> q,
                              created |-> now, ticket |-> Len(asked) + 1]
      /\ \A i \in DOMAIN conntrack' : i # NewID => conntrack'[i] = conntrack[i]
  BY DEF SendPacket
<1>5. TicketsTrue'
  BY <1>2, <1>4 DEF ProxyInv, TicketsTrue
<1>6. TicketsDistinct'
  <2>1. \A i \in DOMAIN conntrack : conntrack[i].ticket \in 1 .. Len(asked)
    BY DEF ProxyInv, TicketsTrue
  <2>2. \A i \in DOMAIN conntrack : conntrack[i].ticket # Len(asked) + 1
    BY <1>2, <2>1
  <2> QED
    BY <1>4, <2>2 DEF ProxyInv, TicketsDistinct
<1>7. AnsweredAsAsked'
  BY <1>2, <1>3 DEF ProxyInv, AnsweredAsAsked
<1>8. UnansweredNotRelayed'
  <2>1. \A n \in 1 .. Len(relayed) : relayed[n].ticket \in 1 .. Len(asked)
    BY DEF ProxyInv, AnsweredAsAsked
  <2>2. \A n \in 1 .. Len(relayed) : relayed[n].ticket # Len(asked) + 1
    BY <1>2, <2>1
  <2> QED
    BY <1>3, <1>4, <2>2 DEF ProxyInv, UnansweredNotRelayed
<1>9. AnsweredOnce'
  BY <1>3 DEF ProxyInv, AnsweredOnce
<1> QED
  BY <1>5, <1>6, <1>7, <1>8, <1>9 DEF ProxyInv

(* mainloop relays to the entry's client and marks the entry answered. *)
LEMMA RelayAnswerStep ==
  ASSUME ProxyInv, TypeOK', NEW p \in Packet, RelayAnswer(p)
  PROVE  ProxyInv'
<1> DEFINE id == Mask[p.id]
           ce == conntrack[id]
           r == [client |-> ce.client, cid |-> ce.cid, q |-> p.q,
                 ticket |-> ce.ticket]
<1>1. /\ id \in DOMAIN conntrack
      /\ ce \in ConntrackEntry
      /\ ce.created # 0
      /\ ce.q = p.q
      /\ p.q \in Questions
  BY DEF RelayAnswer, Tracked, Unanswered, SameQuestion, ProxyInv, TypeOK, Packet
<1>2. r \in Relay /\ relayed \in Seq(Relay)
  BY <1>1 DEF ConntrackEntry, Relay, ProxyInv, TypeOK
<1>3. /\ Len(relayed') = Len(relayed) + 1
      /\ \A n \in 1 .. Len(relayed) : relayed'[n] = relayed[n]
      /\ relayed'[Len(relayed) + 1] = r
      /\ Len(relayed) \in Nat
  BY <1>2 DEF RelayAnswer
<1>4. asked' = asked
  BY DEF RelayAnswer
<1>5. /\ DOMAIN conntrack' = DOMAIN conntrack
      /\ \A i \in DOMAIN conntrack :
           /\ conntrack'[i].client = conntrack[i].client
           /\ conntrack'[i].cid = conntrack[i].cid
           /\ conntrack'[i].q = conntrack[i].q
           /\ conntrack'[i].ticket = conntrack[i].ticket
           /\ i # id => conntrack'[i] = conntrack[i]
      /\ conntrack'[id].created = 0
  BY <1>1 DEF RelayAnswer, ConntrackEntry, ProxyInv, TypeOK
<1>6. TicketsTrue'
  BY <1>4, <1>5 DEF ProxyInv, TicketsTrue
<1>7. TicketsDistinct'
  BY <1>5 DEF ProxyInv, TicketsDistinct
<1>8. AnsweredAsAsked'
  <2>1. /\ r.ticket \in 1 .. Len(asked)
        /\ asked[r.ticket] = [client |-> r.client, cid |-> r.cid, q |-> r.q]
    BY <1>1 DEF ProxyInv, TicketsTrue
  <2> QED
    BY <1>3, <1>4, <2>1 DEF ProxyInv, AnsweredAsAsked
<1>9. UnansweredNotRelayed'
  <2>1. \A i \in DOMAIN conntrack : i # id => conntrack[i].ticket # r.ticket
    BY <1>1 DEF ProxyInv, TicketsDistinct
  <2> QED
    BY <1>3, <1>5, <2>1 DEF ProxyInv, UnansweredNotRelayed
<1>10. AnsweredOnce'
  <2>1. \A n \in 1 .. Len(relayed) : relayed[n].ticket # r.ticket
    BY <1>1 DEF ProxyInv, UnansweredNotRelayed
  <2> QED
    BY <1>3, <2>1 DEF ProxyInv, AnsweredOnce
<1> QED
  BY <1>6, <1>7, <1>8, <1>9, <1>10 DEF ProxyInv

LEMMA ProxyInvStep == ProxyInv /\ [Next]_vars => ProxyInv'
<1> SUFFICES ASSUME ProxyInv, [Next]_vars PROVE ProxyInv'
  OBVIOUS
<1>1. TypeOK'
  BY TypeStep DEF ProxyInv
<1>2. CASE UNCHANGED <<conntrack, asked, relayed>>
  BY <1>1, <1>2 DEF ProxyInv, TicketsTrue, TicketsDistinct,
     UnansweredNotRelayed, AnsweredAsAsked, AnsweredOnce
<1>3. CASE Tick
  BY <1>2, <1>3 DEF Tick
<1>4. ASSUME NEW client \in Clients, Refuse(client) PROVE ProxyInv'
  BY <1>2, <1>4 DEF Refuse, vars
<1>5. ASSUME NEW p \in Packet, Discard(p) PROVE ProxyInv'
  BY <1>2, <1>5 DEF Discard, vars
<1>6. CASE UNCHANGED vars
  BY <1>2, <1>6 DEF vars
<1> QED
  BY <1>1, <1>3, <1>4, <1>5, <1>6, SendPacketStep, RelayAnswerStep DEF Next

(* The types hold, for every number of ids. *)
THEOREM TypeCorrect == Spec => []TypeOK
<1>1. Init => TypeOK
  BY InitProxyInv DEF ProxyInv
<1> QED
  BY <1>1, TypeStep, PTL DEF Spec

(***************************************************************************)
(* Whatever arrives from the recursor, mainloop answers a client only what *)
(* it asked, under the id it used, and at most once per question.          *)
(***************************************************************************)
THEOREM RelaysCorrect == Spec => [](AnsweredAsAsked /\ AnsweredOnce)
<1>1. ProxyInv => AnsweredAsAsked /\ AnsweredOnce
  BY DEF ProxyInv
<1> QED
  BY <1>1, InitProxyInv, ProxyInvStep, PTL DEF Spec

(***************************************************************************)
(* While an id is unused or stale, getID_locked never gives away the id of *)
(* a question that waits.                                                  *)
(***************************************************************************)
THEOREM WaitingSafe == Spec => WaitingQuestionsKept
<1>1. ASSUME TypeOK, [Next]_vars PROVE WaitingKept
  <2> SUFFICES ASSUME NEW j \in Ids, ~Waiting(j), NEW i \in Ids, Waiting(i)
               PROVE  conntrack'[i].ticket = conntrack[i].ticket
    BY DEF WaitingKept
  <2>1. ASSUME NEW client \in Clients, NEW cid \in ClientIds, NEW q \in Questions,
               SendPacket(client, cid, q)
        PROVE  conntrack'[i].ticket = conntrack[i].ticket
    <3>1. Reusable(j)
      BY DEF Waiting, Reusable
    <3>2. GetID_locked \in 0 .. N-1 /\ Reusable(GetID_locked)
      BY <1>1, <3>1, GetIDIsFirst, ProxyAssumption DEF Ids
    <3>3. NewID = GetID_locked
      BY <3>2, ProxyAssumption, SMT DEF NewID
    <3>4. NewID # i
      BY <3>2, <3>3 DEF Waiting, Reusable
    <3> QED
      BY <2>1, <3>4 DEF SendPacket, Waiting
  <2>2. ASSUME NEW p \in Packet, RelayAnswer(p)
        PROVE  conntrack'[i].ticket = conntrack[i].ticket
    BY <1>1, <2>2 DEF RelayAnswer, Tracked, TypeOK, ConntrackEntry, Waiting
  <2>3. CASE UNCHANGED conntrack
    BY <2>3
  <2> QED
    BY <1>1, <2>1, <2>2, <2>3 DEF Next, Refuse, Discard, Tick, vars
<1> QED
  BY <1>1, TypeCorrect, PTL DEF Spec, WaitingQuestionsKept

-----------------------------------------------------------------------------
(* The clock never comes back under Timeout, so created = 0 is stale. *)
Started == now > Timeout

LEMMA StartedStep == TypeOK /\ Started /\ [Next]_vars => Started'
<1> SUFFICES ASSUME TypeOK, Started, [Next]_vars PROVE Started'
  OBVIOUS
<1>1. now' = now \/ now' = now + 1
  BY DEF Next, SendPacket, Refuse, Discard, RelayAnswer, Tick, vars
<1>2. now \in Nat /\ Timeout \in Nat
  BY ProxyAssumption DEF TypeOK
<1> QED
  BY <1>1, <1>2 DEF Started

(* A ticket leads back to the one entry that holds it. *)
LEMMA EntryOfTicket ==
  ASSUME TicketsDistinct, NEW i \in DOMAIN conntrack
  PROVE  EntryOf(conntrack[i].ticket) = i
BY DEF TicketsDistinct, EntryOf

LEMMA PendingSinceEntry ==
  ASSUME TicketsDistinct, NEW i \in DOMAIN conntrack, conntrack[i].created # 0
  PROVE  /\ conntrack[i].ticket \in Pending
         /\ PendingSince[conntrack[i].ticket] = conntrack[i].created
BY EntryOfTicket DEF Pending, PendingSince

(* When every id waits, there are as many pending tickets as ids. *)
LEMMA AllWaitingCount ==
  ASSUME TypeOK, TicketsDistinct, Started,
         \A i \in Ids : ~Reusable(i)
  PROVE  Cardinality(Pending) = N
<1> DEFINE f == [i \in Ids |-> conntrack[i].ticket]
<1>1. \A i \in Ids : i \in DOMAIN conntrack /\ conntrack[i].created # 0
  BY ProxyAssumption DEF Reusable, Stale, Started, TypeOK, ConntrackEntry
<1>2. f \in [Ids -> Pending]
  BY <1>1 DEF Pending
<1>3. \A a, b \in Ids : f[a] = f[b] => a = b
  BY <1>1 DEF TicketsDistinct
<1>4. \A t \in Pending : \E i \in Ids : f[i] = t
  BY DEF Pending, TypeOK
<1>5. f \in Bijection(Ids, Pending)
  BY <1>2, <1>3, <1>4, Fun_IsBij
<1>6. ExistsBijection(Ids, Pending)
  BY <1>5 DEF ExistsBijection
<1>7. IsFiniteSet(Ids) /\ Cardinality(Ids) = N
  BY ProxyAssumption, FS_Interval DEF Ids
<1> QED
  BY <1>6, <1>7, FS_Bijection

(* sendPacket is an Accept of the Forwarder that loses at most the entry it overwrites. *)
LEMMA SendPacketAccepts ==
  ASSUME ProxyInv, ProxyInv', Started,
         NEW client \in Clients, NEW cid \in ClientIds, NEW q \in Questions,
         SendPacket(client, cid, q)
  PROVE  \E ask \in Ask, lost \in Fwd!Lost : Fwd!Accept(ask, lost)
<1> DEFINE ask == [client |-> client, cid |-> cid, q |-> q]
           ticket == Len(asked) + 1
           overwritten == {i \in DOMAIN conntrack : i = NewID /\ conntrack[i].created # 0}
           lost == {conntrack[i].ticket : i \in overwritten}
           kept == (Pending \ lost) \cup {ticket}
<1>1. /\ TypeOK /\ TicketsDistinct /\ TicketsTrue /\ TicketsDistinct'
      /\ Len(asked) \in Nat /\ ask \in Ask
      /\ now # 0
  BY ProxyAssumption DEF ProxyInv, TypeOK, Ask, Started
<1>2. /\ DOMAIN conntrack' = DOMAIN conntrack \cup {NewID}
      /\ conntrack'[NewID].created = now
      /\ conntrack'[NewID].ticket = ticket
      /\ \A i \in DOMAIN conntrack : i # NewID => conntrack'[i] = conntrack[i]
      /\ UNCHANGED <<now, relayed>>
      /\ asked' = Append(asked, ask)
  BY DEF SendPacket
<1>3. \A i \in DOMAIN conntrack : conntrack[i].ticket # ticket
  <2>1. \A i \in DOMAIN conntrack : conntrack[i].ticket \in 1 .. Len(asked)
    BY <1>1 DEF TicketsTrue
  <2> QED
    BY <1>1, <2>1
<1>4. Pending' = kept
  <2>1. ASSUME NEW t \in Pending' PROVE t \in kept
    <3>1. PICK i \in DOMAIN conntrack' : conntrack'[i].created # 0 /\ t = conntrack'[i].ticket
      BY <2>1 DEF Pending
    <3>2. CASE i = NewID
      BY <1>2, <3>1, <3>2
    <3>3. CASE i # NewID
      <4>1. i \in DOMAIN conntrack /\ conntrack'[i] = conntrack[i]
        BY <1>2, <3>1, <3>3
      <4>2. t \in Pending
        BY <3>1, <4>1 DEF Pending
      <4>3. t \notin lost
        BY <1>1, <3>1, <3>3, <4>1 DEF TicketsDistinct
      <4> QED
        BY <4>2, <4>3
    <3> QED
      BY <3>2, <3>3
  <2>2. ASSUME NEW t \in kept PROVE t \in Pending'
    <3>1. CASE t = ticket
      BY <1>1, <1>2, <3>1 DEF Pending
    <3>2. CASE t # ticket
      <4>1. PICK i \in DOMAIN conntrack : conntrack[i].created # 0 /\ t = conntrack[i].ticket
        BY <2>2, <3>2 DEF Pending
      <4>2. i # NewID
        BY <2>2, <3>2, <4>1
      <4> QED
        BY <1>2, <4>1, <4>2 DEF Pending
    <3> QED
      BY <3>1, <3>2
  <2> QED
    BY <2>1, <2>2
<1>5. PendingSince' = [t \in kept |-> IF t = ticket THEN now ELSE PendingSince[t]]
  <2>1. ASSUME NEW t \in kept
        PROVE  conntrack'[EntryOf(t)'].created = IF t = ticket THEN now ELSE PendingSince[t]
    <3>1. CASE t = ticket
      <4>1. EntryOf(t)' = NewID
        BY <1>1, <1>2, <3>1 DEF EntryOf, TicketsDistinct
      <4> QED
        BY <1>2, <3>1, <4>1
    <3>2. CASE t # ticket
      <4>1. PICK i \in DOMAIN conntrack : conntrack[i].created # 0 /\ t = conntrack[i].ticket
        BY <2>1, <3>2 DEF Pending
      <4>2. i # NewID
        BY <2>1, <3>2, <4>1
      <4>3. EntryOf(t)' = i
        BY <1>1, <1>2, <4>1, <4>2 DEF EntryOf, TicketsDistinct
      <4>4. PendingSince[t] = conntrack[i].created
        BY <1>1, <4>1, PendingSinceEntry
      <4> QED
        BY <1>2, <3>2, <4>1, <4>2, <4>3, <4>4
    <3> QED
      BY <3>1, <3>2
  <2> QED
    BY <1>4, <2>1 DEF PendingSince
<1>6. lost \in Fwd!Lost
  <2>1. CASE overwritten = {}
    BY <2>1 DEF Fwd!Lost
  <2>2. CASE overwritten # {}
    <3>1. /\ NewID \in DOMAIN conntrack /\ conntrack[NewID].created # 0
          /\ lost = {conntrack[NewID].ticket}
      BY <2>2
    <3>2. /\ conntrack[NewID].ticket \in Pending
          /\ PendingSince[conntrack[NewID].ticket] = conntrack[NewID].created
      BY <1>1, <3>1, PendingSinceEntry
    <3>3. Fwd!Droppable(conntrack[NewID].ticket)
      <4>1. CASE GetID_locked \in Ids
        <5>1. NewID = GetID_locked
          BY <4>1, ProxyAssumption, SMT DEF NewID, Ids
        <5>2. Stale(conntrack[NewID])
          BY <1>1, <3>1, <5>1, GetIDIsFirst DEF Reusable
        <5> QED
          BY <3>2, <5>2 DEF Fwd!Droppable, Stale
      <4>2. CASE GetID_locked \notin Ids
        <5>1. GetID_locked = N
          BY <1>1, <4>2, GetIDIsFirst, ProxyAssumption DEF Ids
        <5>2. \A i \in Ids : ~Reusable(i)
          BY <1>1, <5>1, GetIDIsFirst DEF Ids
        <5>3. Cardinality(Pending) = N
          BY <1>1, <5>2, AllWaitingCount
        <5>4. DOMAIN PendingSince = Pending
          BY DEF PendingSince
        <5>5. Cardinality(DOMAIN PendingSince) >= N
          BY <5>3, <5>4, ProxyAssumption
        <5> QED
          BY <5>5, Zenon DEF Fwd!Droppable, Cardinality, Fwd!Cardinality
      <4> QED
        BY <4>1, <4>2
    <3> QED
      BY <3>1, <3>2, <3>3 DEF Fwd!Lost, PendingSince
  <2> QED
    BY <2>1, <2>2
<1>7. Fwd!Accept(ask, lost)
  BY <1>2, <1>5 DEF Fwd!Accept, PendingSince
<1> QED
  BY <1>1, <1>6, <1>7

(* mainloop's relay is an Answer of the Forwarder. *)
LEMMA RelayAnswers ==
  ASSUME ProxyInv, ProxyInv', NEW p \in Packet, RelayAnswer(p)
  PROVE  \E t \in DOMAIN PendingSince : Fwd!Answer(t)
<1> DEFINE id == Mask[p.id]
           ce == conntrack[id]
           t == ce.ticket
<1>1. /\ id \in DOMAIN conntrack /\ ce \in ConntrackEntry
      /\ ce.created # 0 /\ ce.q = p.q
      /\ TypeOK /\ TicketsDistinct /\ TicketsTrue /\ TicketsDistinct'
  BY DEF RelayAnswer, Tracked, Unanswered, SameQuestion, ProxyInv, TypeOK
<1>2. /\ DOMAIN conntrack' = DOMAIN conntrack
      /\ conntrack'[id].created = 0
      /\ \A i \in DOMAIN conntrack : /\ conntrack'[i].ticket = conntrack[i].ticket
                                     /\ i # id => conntrack'[i] = conntrack[i]
      /\ UNCHANGED <<now, asked>>
  BY <1>1 DEF RelayAnswer, ConntrackEntry, TypeOK
<1>3. t \in Pending
  BY <1>1 DEF Pending
<1>4. Pending' = Pending \ {t}
  BY <1>1, <1>2 DEF Pending, TicketsDistinct
<1>5. \A u \in Pending' : EntryOf(u)' = EntryOf(u) /\ EntryOf(u) \in DOMAIN conntrack /\ EntryOf(u) # id
  <2>1. SUFFICES ASSUME NEW u \in Pending'
                 PROVE  EntryOf(u)' = EntryOf(u) /\ EntryOf(u) \in DOMAIN conntrack /\ EntryOf(u) # id
    OBVIOUS
  <2>2. PICK i \in DOMAIN conntrack : conntrack[i].created # 0 /\ u = conntrack[i].ticket
    BY <1>4, <2>1 DEF Pending
  <2>3. i # id
    BY <1>4, <2>1, <2>2
  <2>4. EntryOf(u) = i
    BY <1>1, <2>2, EntryOfTicket
  <2>5. EntryOf(u)' = i
    BY <1>1, <1>2, <2>2 DEF EntryOf, TicketsDistinct
  <2> QED
    BY <2>2, <2>3, <2>4, <2>5
<1>6. PendingSince' = [u \in DOMAIN PendingSince \ {t} |-> PendingSince[u]]
  BY <1>2, <1>4, <1>5 DEF PendingSince
<1>7. relayed' = Append(relayed, [client |-> asked[t].client, cid |-> asked[t].cid,
                                  q |-> asked[t].q, ticket |-> t])
  <2>1. asked[t] = [client |-> ce.client, cid |-> ce.cid, q |-> ce.q]
    BY <1>1 DEF TicketsTrue
  <2>2. /\ asked[t].client = ce.client
        /\ asked[t].cid = ce.cid
        /\ asked[t].q = p.q
    BY <1>1, <2>1
  <2> QED
    BY <2>2 DEF RelayAnswer
<1> QED
  BY <1>2, <1>3, <1>6, <1>7 DEF Fwd!Answer, PendingSince

(***************************************************************************)
(* DNSProxy implements the Forwarder, for any number of ids: the table of  *)
(* ids and the recursor's packets never show, except that a full table or  *)
(* an overdue answer may cost a question its answer.                       *)
(***************************************************************************)
THEOREM ProxyForwards == Spec => ForwardsQuestions
<1>1. Init => Fwd!FInit
  BY DEF Init, Fwd!FInit, PendingSince, Pending
<1>2. Init => ProxyInv /\ Started
  BY InitProxyInv, ProxyAssumption DEF Init, Started
<1>3. ProxyInv /\ Started /\ [Next]_vars => (ProxyInv /\ Started)'
  BY ProxyInvStep, StartedStep DEF ProxyInv
<1>4. ASSUME ProxyInv, ProxyInv', Started, [Next]_vars
      PROVE  [Fwd!FNext]_(Fwd!fvars)
  <2>1. CASE UNCHANGED <<now, conntrack, asked, relayed>>
    BY <2>1 DEF Fwd!fvars, PendingSince, Pending, EntryOf
  <2>2. CASE Tick
    <3>1. PendingSince' = PendingSince
      BY <2>2 DEF Tick, PendingSince, Pending, EntryOf
    <3> QED
      BY <2>2, <3>1 DEF Tick, Fwd!FNext, Fwd!Pass
  <2>3. ASSUME NEW client \in Clients, NEW cid \in ClientIds, NEW q \in Questions,
               SendPacket(client, cid, q)
        PROVE  Fwd!FNext
    BY <1>4, <2>3, SendPacketAccepts DEF Fwd!FNext
  <2>4. ASSUME NEW p \in Packet, RelayAnswer(p) PROVE Fwd!FNext
    BY <1>4, <2>4, RelayAnswers DEF Fwd!FNext
  <2> QED
    BY <1>4, <2>1, <2>2, <2>3, <2>4 DEF Next, Refuse, Discard, vars
<1> QED
  BY <1>1, <1>2, <1>3, <1>4, PTL DEF Spec, ForwardsQuestions, Fwd!FSpec
=============================================================================
