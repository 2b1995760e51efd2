---------------------------- MODULE Distributor -----------------------------
(***************************************************************************)
(* How the authoritative server answers over UDP: qthread of               *)
(* common_startup.cc receives questions and queues them, the threads of    *)
(* class Distributor (distributor.hh) take them off and answer them with a *)
(* backend of their own.  Under overload, questions that the packet cache  *)
(* cannot answer are dropped.                                              *)
(*                                                                         *)
(* One receiver stands for all: question() runs under d_distributorlock    *)
(* when there are several.  Questions answered from the packet cache do    *)
(* not get here.  A backend may fail at any question; a question may be    *)
(* found too old (queue-limit).                                            *)
(***************************************************************************)
EXTENDS Integers, Sequences, SequencesExt, FiniteSets

CONSTANTS
  Threads,        \* thread slots; bounds how many run at once
  NumThreads,     \* distributor-threads, at least 2
  OtherBackends,  \* backends of other parts of the program, counted by numRunning
  OverloadLength, \* overload-queue-length, 0 for never
  ResetDivisor,   \* 10 in the code
  CheckEvery,     \* 50 in the code
  MaxQueueLength, \* max-queue-length
  MaxQuestions,   \* bound on the questions received
  MaxDeaths       \* bound on the backend errors

ASSUME DistributorAssumption ==
  /\ IsFiniteSet(Threads)
  /\ NumThreads \in Nat \ {0, 1} /\ NumThreads <= Cardinality(Threads)
  /\ {OtherBackends, OverloadLength, MaxQueueLength, MaxQuestions, MaxDeaths} \subseteq Nat
  /\ {ResetDivisor, CheckEvery} \subseteq Nat \ {0}

Ids == 0 .. MaxQuestions - 1
NoQuestion == -1

VARIABLES
  questions,    \* questions
  numquestions, \* the semaphore numquestions
  overloaded,   \* d_overloaded
  nextid,       \* nextid
  thread,       \* the threads
  justStarted,  \* the last thread was started at most five seconds ago
  pc,           \* where the receiver is
  received,     \* questions received
  done,         \* how often each question was answered or found too old
  lost,         \* questions whose thread ended with a backend error
  deaths,       \* backend errors so far
  alive         \* the process has not exited

vars == <<questions, numquestions, overloaded, nextid, thread, justStarted, pc, received, done,
          lost, deaths, alive>>

ThreadState ==
  [pc : {"none", "starting", "top", "waiting", "woken", "busy"}, qcount : Nat,
   q : Ids \cup {NoQuestion}]
Fresh(at) == [pc |-> at, qcount |-> 0, q |-> NoQuestion]

(* The type invariant. *)
TypeOK ==
  /\ questions \in Seq(Ids)
  /\ numquestions \in Nat
  /\ overloaded \in BOOLEAN /\ justStarted \in BOOLEAN /\ alive \in BOOLEAN
  /\ nextid \in 0 .. MaxQuestions /\ received \in 0 .. MaxQuestions
  /\ thread \in [Threads -> ThreadState]
  /\ pc \in {"receive", "question", "post", "check"}
  /\ done \in [Ids -> Nat]
  /\ lost \subseteq Ids
  /\ deaths \in 0 .. MaxDeaths

Init ==
  /\ questions = <<>>
  /\ numquestions = 0
  /\ overloaded = FALSE
  /\ nextid = 0
  /\ \E first \in SUBSET Threads :
       /\ Cardinality(first) = NumThreads
       /\ thread = [t \in Threads |-> Fresh(IF t \in first THEN "starting" ELSE "none")]
  /\ justStarted = TRUE
  /\ pc = "receive"
  /\ received = 0
  /\ done = [i \in Ids |-> 0]
  /\ lost = {}
  /\ deaths = 0
  /\ alive = TRUE

-----------------------------------------------------------------------------
(***************************************************************************)
(* qthread and question().                                                 *)
(***************************************************************************)
Receive ==
  /\ pc = "receive"
  /\ received < MaxQuestions
  /\ received' = received + 1
  /\ pc' = IF overloaded THEN "receive" ELSE "question"
  /\ UNCHANGED <<questions, numquestions, overloaded, nextid, thread, justStarted, done, lost,
                 deaths, alive>>

(* Backend::numRunning(): a starting thread has no backend yet. *)
NumRunning ==
  OtherBackends + Cardinality({t \in Threads : thread[t].pc \notin {"none", "starting"}})
MissesThread == NumRunning < NumThreads + 2 /\ ~justStarted
Free == {t \in Threads : thread[t].pc = "none"}

Question ==
  /\ pc = "question"
  /\ IF MissesThread /\ Free # {}
     THEN /\ \E t \in Free : thread' = [thread EXCEPT ![t] = Fresh("starting")]
          /\ justStarted' = TRUE
     ELSE UNCHANGED <<thread, justStarted>>
  /\ questions' = Append(questions, nextid)
  /\ nextid' = nextid + 1
  /\ pc' = "post"
  /\ UNCHANGED <<numquestions, overloaded, received, done, lost, deaths, alive>>

Post_whenEmpty ==
  /\ pc = "post"
  /\ numquestions' = IF Len(questions) = 1 THEN numquestions + 1 ELSE numquestions
  /\ pc' = IF nextid % CheckEvery = 0 THEN "check" ELSE "receive"
  /\ UNCHANGED <<questions, overloaded, nextid, thread, justStarted, received, done, lost,
                 deaths, alive>>
Post ==
  /\ pc = "post"
  /\ numquestions' = numquestions + 1
  /\ pc' = IF nextid % CheckEvery = 0 THEN "check" ELSE "receive"
  /\ UNCHANGED <<questions, overloaded, nextid, thread, justStarted, received, done, lost,
                 deaths, alive>>

Check ==
  /\ pc = "check"
  /\ overloaded' = (overloaded \/ (OverloadLength # 0 /\ numquestions > OverloadLength))
  /\ alive' = (numquestions <= MaxQueueLength)
  /\ pc' = "receive"
  /\ UNCHANGED <<questions, numquestions, nextid, thread, justStarted, received, done, lost,
                 deaths>>

FiveSecondsPass ==
  /\ justStarted
  /\ justStarted' = FALSE
  /\ UNCHANGED <<questions, numquestions, overloaded, nextid, thread, pc, received, done, lost,
                 deaths, alive>>

-----------------------------------------------------------------------------
(***************************************************************************)
(* makeThread.                                                             *)
(***************************************************************************)
(* The backend is there, or could not be made. *)
Started(t) ==
  /\ thread[t].pc = "starting"
  /\ thread' = [thread EXCEPT ![t] = Fresh("top")]
  /\ UNCHANGED <<questions, numquestions, overloaded, nextid, justStarted, pc, received, done,
                 lost, deaths, alive>>
NotStarted(t) ==
  /\ thread[t].pc = "starting"
  /\ deaths < MaxDeaths
  /\ thread' = [thread EXCEPT ![t] = Fresh("none")]
  /\ deaths' = deaths + 1
  /\ UNCHANGED <<questions, numquestions, overloaded, nextid, justStarted, pc, received, done,
                 lost, alive>>

(* qcount is read before the wait. *)
GetValue(t) ==
  /\ thread[t].pc = "top"
  /\ thread' = [thread EXCEPT ![t].pc = "waiting", ![t].qcount = numquestions]
  /\ UNCHANGED <<questions, numquestions, overloaded, nextid, justStarted, pc, received, done,
                 lost, deaths, alive>>

Wait_unblocked(t) ==
  /\ thread[t].pc = "waiting"
  /\ numquestions' = numquestions - 1
  /\ thread' = [thread EXCEPT ![t].pc = "woken"]
  /\ UNCHANGED <<questions, overloaded, nextid, justStarted, pc, received, done, lost, deaths,
                 alive>>
Wait(t) ==
  /\ thread[t].pc = "waiting"
  /\ numquestions > 0
  /\ numquestions' = numquestions - 1
  /\ thread' = [thread EXCEPT ![t].pc = "woken"]
  /\ UNCHANGED <<questions, overloaded, nextid, justStarted, pc, received, done, lost, deaths,
                 alive>>

LowEnough(qcount) == qcount <= OverloadLength \div ResetDivisor
Pop_peek(t) ==
  /\ thread[t].pc = "woken"
  /\ thread' = [thread EXCEPT ![t].pc = "busy", ![t].q = Head(questions)]
  /\ questions' = IF Len(questions) > 1 THEN Tail(questions) ELSE questions
  /\ overloaded' = (overloaded /\ ~LowEnough(thread[t].qcount))
  /\ UNCHANGED <<numquestions, nextid, justStarted, pc, received, done, lost, deaths, alive>>
Pop(t) ==
  /\ thread[t].pc = "woken"
  /\ thread' = [thread EXCEPT ![t].pc = "busy", ![t].q = Head(questions)]
  /\ questions' = Tail(questions)
  /\ overloaded' = (overloaded /\ ~LowEnough(thread[t].qcount))
  /\ UNCHANGED <<numquestions, nextid, justStarted, pc, received, done, lost, deaths, alive>>

(* The backend answers and sendout sends, or the question is too old. *)
Answer_thenExit(t) ==
  /\ thread[t].pc = "busy"
  /\ thread' = [thread EXCEPT ![t] = Fresh("none")]
  /\ done' = [done EXCEPT ![thread[t].q] = @ + 1]
  /\ UNCHANGED <<questions, numquestions, overloaded, nextid, justStarted, pc, received, lost,
                 deaths, alive>>
Answer(t) ==
  /\ thread[t].pc = "busy"
  /\ thread' = [thread EXCEPT ![t] = Fresh("top")]
  /\ done' = [done EXCEPT ![thread[t].q] = @ + 1]
  /\ UNCHANGED <<questions, numquestions, overloaded, nextid, justStarted, pc, received, lost,
                 deaths, alive>>

(* A backend error ends the thread; its question gets no answer. *)
Die(t) ==
  /\ thread[t].pc = "busy"
  /\ deaths < MaxDeaths
  /\ thread' = [thread EXCEPT ![t] = Fresh("none")]
  /\ lost' = lost \cup {thread[t].q}
  /\ deaths' = deaths + 1
  /\ UNCHANGED <<questions, numquestions, overloaded, nextid, justStarted, pc, received, done,
                 alive>>

Receiver == Receive \/ Question \/ Post \/ Check
Run(t) == Started(t) \/ GetValue(t) \/ Wait(t) \/ Pop(t) \/ Answer(t)

Next ==
  /\ alive
  /\ \/ Receiver
     \/ FiveSecondsPass
     \/ \E t \in Threads : Run(t) \/ NotStarted(t) \/ Die(t)

Spec == Init /\ [][Next]_vars
(* The receiver and the distributor's threads are threads of their own. *)
FairSpec ==
  /\ Spec
  /\ WF_vars(alive /\ Receiver)
  /\ \A t \in Threads : WF_vars(alive /\ Run(t))

-----------------------------------------------------------------------------
At(place) == Cardinality({t \in Threads : thread[t].pc = place})

(***************************************************************************)
(* Every queued question has a wake-up of its own, posted, taken by a      *)
(* thread on its way to the queue, or about to be posted: front() is never *)
(* called on an empty queue and no question is left behind.                *)
(***************************************************************************)
WakeupPerQuestion ==
  Len(questions) = numquestions + At("woken") + IF pc = "post" THEN 1 ELSE 0

(***************************************************************************)
(* A question that was accepted is in the queue, with one thread, answered *)
(* or lost with its backend, and just one of these, once; a backend error  *)
(* takes no more than the question it happened to.                         *)
(***************************************************************************)
Times(i, s) == Cardinality({k \in DOMAIN s : s[k] = i})
HandledOnce ==
  /\ \A i \in 0 .. nextid - 1 :
       Times(i, questions) + Cardinality({t \in Threads : thread[t].q = i})
         + done[i] + (IF i \in lost THEN 1 ELSE 0) = 1
  /\ Cardinality(lost) <= deaths

(* Every thread there was ended with a backend error of its own. *)
NoThreadLeft == deaths >= NumThreads /\ \A t \in Threads : thread[t].pc = "none"

(***************************************************************************)
(* Unless all threads die, every accepted question is taken up: those that *)
(* a dead thread would have taken, too.                                    *)
(***************************************************************************)
TakenUp ==
  \A i \in Ids : (i \in ToSet(questions)) ~> (i \notin ToSet(questions) \/ NoThreadLeft \/ ~alive)

=============================================================================
