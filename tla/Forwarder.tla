----------------------------- MODULE Forwarder -----------------------------
(***************************************************************************)
(* What a forwarder of questions promises, without ids, packets or a table *)
(* of slots: it accepts questions, each under a ticket of its own; while a *)
(* ticket is pending its answer may be given, to the client, under the DNS *)
(* id and for the question of that ticket, and the ticket is then gone.    *)
(* Accepting a question may cost at most one older ticket, and only one    *)
(* that has waited for more than Patience, or when Slots tickets wait.     *)
(* DNSProxy implements it (ForwardsQuestions in DNSProxy.tla).                 *)
(***************************************************************************)
EXTENDS Integers, Sequences, FiniteSets

CONSTANTS
  Asks,       \* questions, each with its client and the DNS id it used
  Slots,      \* how many tickets may be pending at once
  Patience    \* how long a pending ticket cannot be dropped for its age

VARIABLES
  time,
  asked,      \* the questions accepted; a ticket is a position in asked
  pending,    \* the pending tickets, each with the time it was given out
  relayed     \* the answers given, in order

fvars == <<time, asked, pending, relayed>>

FInit ==
  /\ time = Patience + 1
  /\ asked = <<>>
  /\ pending = [t \in {} |-> 0]
  /\ relayed = <<>>

Droppable(t) ==
  \/ pending[t] < time - Patience
  \/ Cardinality(DOMAIN pending) >= Slots

Lost == {{}} \cup {{t} : t \in {u \in DOMAIN pending : Droppable(u)}}

Accept(ask, lost) ==
  LET ticket == Len(asked) + 1
  IN /\ asked' = Append(asked, ask)
     /\ pending' = [t \in (DOMAIN pending \ lost) \cup {ticket} |->
                      IF t = ticket THEN time ELSE pending[t]]
     /\ UNCHANGED <<time, relayed>>

Answer(t) ==
  /\ relayed' = Append(relayed, [client |-> asked[t].client, cid |-> asked[t].cid,
                                 q |-> asked[t].q, ticket |-> t])
  /\ pending' = [u \in DOMAIN pending \ {t} |-> pending[u]]
  /\ UNCHANGED <<time, asked>>

Pass ==
  /\ time' = time + 1
  /\ UNCHANGED <<asked, pending, relayed>>

FNext ==
  \/ \E ask \in Asks, lost \in Lost : Accept(ask, lost)
  \/ \E t \in DOMAIN pending : Answer(t)
  \/ Pass

FSpec == FInit /\ [][FNext]_fvars
============================================================================
