------------------------------ MODULE DNSProxy ------------------------------
(***************************************************************************)
(* The recursing proxy of the authoritative server (dnsproxy.cc).  Backend *)
(* threads hand it a question with sendPacket: it is entered in the        *)
(* conntrack table under a 16 bit id and sent to the recursor with that id *)
(* XORed with d_xor.  One more thread, mainloop, receives the recursor's   *)
(* packets, finds the entry back by id and relays the answer to the client *)
(* of the entry.                                                           *)
(*                                                                         *)
(* Nothing is assumed of the recursor or the network: mainloop may receive *)
(* any packet at any time, so answers are lost, late, duplicated, or never *)
(* asked for.  asked and relayed are history: no action reads them, except *)
(* that asked numbers the sendPacket calls (the ticket of an entry).       *)
(***************************************************************************)
EXTENDS Integers, Sequences

CONSTANTS
  Clients,      \* a remote address with the socket its question came in on
  Recursing,    \* the clients d_ng matches (allow-recursion)
  ClientIds,    \* DNS ids clients put in their questions
  Questions,    \* a qname with its qtype
  N,            \* number of ids: 2^16 in the code
  Timeout,      \* 60 seconds in the code
  Mask,         \* id |-> id ^ d_xor
  MaxTime,      \* bound on the clock
  MaxAsks       \* bound on the sendPacket calls

Ids == 0 .. N-1

ASSUME ProxyAssumption ==
  /\ N \in Nat \ {0}
  /\ Timeout \in Nat
  /\ MaxTime \in Nat
  /\ MaxAsks \in Nat
  /\ Recursing \subseteq Clients
  /\ Mask \in [Ids -> Ids]
  /\ \A i \in Ids : Mask[Mask[i]] = i

VARIABLES
  now,        \* time(0)
  conntrack,  \* d_conntrack, a function on the ids in the map
  cached,     \* the questions mainloop inserted an answer to in the packet cache
  asked,      \* the questions sendPacket accepted, in order
  relayed     \* the answers mainloop sent to clients, in order

vars == <<now, conntrack, cached, asked, relayed>>

Ask == [client : Clients, cid : ClientIds, q : Questions]
ConntrackEntry == [client : Clients, cid : ClientIds, q : Questions,
                   created : Nat, ticket : Nat]
Packet == [id : Ids, q : Questions]
Relay == [client : Clients, cid : ClientIds, q : Questions, ticket : Nat]

(* The type invariant. *)
TypeOK ==
  /\ now \in Nat
  /\ conntrack \in [DOMAIN conntrack -> ConntrackEntry]
  /\ DOMAIN conntrack \subseteq Ids
  /\ cached \subseteq Questions
  /\ asked \in Seq(Ask)
  /\ relayed \in Seq(Relay)

(* The clock is far beyond Timeout when the program starts. *)
Init ==
  /\ now = Timeout + 1
  /\ conntrack = [i \in {} |-> 0]
  /\ cached = {}
  /\ asked = <<>>
  /\ relayed = <<>>

-----------------------------------------------------------------------------
(***************************************************************************)
(* created = 0 marks an entry whose answer was relayed.  getID_locked      *)
(* counts an int n up from 0 to the first id that is not in the map, or    *)
(* has a stale or answered entry; sendPacket stores n in a uint16_t.       *)
(***************************************************************************)
Stale(e) == e.created < now - Timeout

Reusable_early(n) ==
  n \notin DOMAIN conntrack \/ conntrack[n].created =< now - Timeout
Reusable(n) == n \notin DOMAIN conntrack \/ Stale(conntrack[n])

GetID_locked == CHOOSE n \in 0 .. N : /\ Reusable(n)
                                      /\ \A m \in 0 .. n-1 : ~Reusable(m)

NewID_untruncated == GetID_locked
NewID == GetID_locked % N

(* sendPacket: its locked part; the send() that follows has no effect here. *)
SendPacket(client, cid, q) ==
  LET id == NewID
      ce == [client |-> client, cid |-> cid, q |-> q,
             created |-> now, ticket |-> Len(asked) + 1]
  IN /\ client \in Recursing
     /\ Len(asked) < MaxAsks
     /\ conntrack' = [i \in DOMAIN conntrack \cup {id} |->
                        IF i = id THEN ce ELSE conntrack[i]]
     /\ asked' = Append(asked, [client |-> client, cid |-> cid, q |-> q])
     /\ UNCHANGED <<now, cached, relayed>>

(* sendPacket when recurseFor says no: the question is not taken. *)
Refuse(client) ==
  /\ client \notin Recursing
  /\ UNCHANGED vars

(* The tests mainloop makes on a packet p before it relays it. *)
Tracked(p) == Mask[p.id] \in DOMAIN conntrack
Unanswered_unchecked(p) == TRUE
Unanswered(p) == conntrack[Mask[p.id]].created # 0
SameQuestion_unchecked(p) == TRUE
SameQuestion(p) == conntrack[Mask[p.id]].q = p.q

(* mainloop on an untracked packet, a duplicate, or an answer to another question. *)
Discard(p) ==
  /\ \/ ~Tracked(p)
     \/ Tracked(p) /\ ~Unanswered(p)
     \/ Tracked(p) /\ Unanswered(p) /\ ~SameQuestion(p)
  /\ UNCHANGED vars

(* mainloop on the answer to a tracked question.  PC.insert only try-locks. *)
RelayAnswer(p) ==
  LET id == Mask[p.id]
      ce == conntrack[id]
  IN /\ Tracked(p)
     /\ Unanswered(p)
     /\ SameQuestion(p)
     /\ relayed' = Append(relayed, [client |-> ce.client, cid |-> ce.cid,
                                    q |-> p.q, ticket |-> ce.ticket])
     /\ cached' \in {cached, cached \cup {p.q}}
     /\ conntrack' = [conntrack EXCEPT ![id].created = 0]
     /\ UNCHANGED <<now, asked>>

Tick ==
  /\ now < MaxTime
  /\ now' = now + 1
  /\ UNCHANGED <<conntrack, cached, asked, relayed>>

Next ==
  \/ \E client \in Clients, cid \in ClientIds, q \in Questions :
       SendPacket(client, cid, q)
  \/ \E client \in Clients : Refuse(client)
  \/ \E p \in Packet : Discard(p)
  \/ \E p \in Packet : RelayAnswer(p)
  \/ Tick

Spec == Init /\ [][Next]_vars

-----------------------------------------------------------------------------
(***************************************************************************)
(* Whatever the recursor sends, every answer mainloop relays goes to a     *)
(* client that asked exactly that question, under the DNS id the client    *)
(* used, also when the internal id was given to another question since.    *)
(***************************************************************************)
AnsweredAsAsked ==
  \A n \in 1 .. Len(relayed) :
    /\ relayed[n].ticket \in 1 .. Len(asked)
    /\ asked[relayed[n].ticket] = [client |-> relayed[n].client,
                                   cid |-> relayed[n].cid, q |-> relayed[n].q]

(* A question sendPacket accepted is answered at most once by mainloop. *)
AnsweredOnce ==
  \A m, n \in 1 .. Len(relayed) :
    relayed[m].ticket = relayed[n].ticket => m = n

(***************************************************************************)
(* The entries that wait for an answer, as the pending tickets of the      *)
(* abstract Forwarder: the ids and the answered entries are forgotten.     *)
(***************************************************************************)
Pending == {conntrack[i].ticket : i \in {j \in DOMAIN conntrack : conntrack[j].created # 0}}
EntryOf(t) == CHOOSE i \in DOMAIN conntrack : conntrack[i].ticket = t
PendingSince == [t \in Pending |-> conntrack[EntryOf(t)].created]

Fwd == INSTANCE Forwarder WITH
       Asks <- Ask, Slots <- N, Patience <- Timeout,
       time <- now, pending <- PendingSince

(***************************************************************************)
(* The table of 16 bit ids implements the Forwarder: every question is     *)
(* answered at most once, as it was asked, and sendPacket costs at most    *)
(* one waiting question, only an overdue one or when all ids wait.         *)
(***************************************************************************)
ForwardsQuestions == Fwd!FSpec

(***************************************************************************)
(* The inductive invariant behind the two properties above: an entry holds *)
(* the question its ticket stands for, no two entries share a ticket, and  *)
(* the ticket of an entry that is not marked answered was never relayed.   *)
(***************************************************************************)
TicketsTrue ==
  \A i \in DOMAIN conntrack :
    /\ conntrack[i].ticket \in 1 .. Len(asked)
    /\ asked[conntrack[i].ticket] = [client |-> conntrack[i].client,
                                     cid |-> conntrack[i].cid,
                                     q |-> conntrack[i].q]
TicketsDistinct ==
  \A i, j \in DOMAIN conntrack :
    conntrack[i].ticket = conntrack[j].ticket => i = j
UnansweredNotRelayed ==
  \A i \in DOMAIN conntrack : \A n \in 1 .. Len(relayed) :
    conntrack[i].created # 0 => relayed[n].ticket # conntrack[i].ticket
ProxyInv ==
  /\ TypeOK
  /\ TicketsTrue
  /\ TicketsDistinct
  /\ UnansweredNotRelayed
  /\ AnsweredAsAsked
  /\ AnsweredOnce

(***************************************************************************)
(* As long as some id is unused or stale, sendPacket never hands out the   *)
(* id of a question that still waits for its answer.                       *)
(***************************************************************************)
Waiting(i) == i \in DOMAIN conntrack /\ ~Stale(conntrack[i])
WaitingKept ==
  (\E i \in Ids : ~Waiting(i)) =>
    \A i \in Ids : Waiting(i) => conntrack'[i].ticket = conntrack[i].ticket
WaitingQuestionsKept == [][WaitingKept]_vars
=============================================================================
