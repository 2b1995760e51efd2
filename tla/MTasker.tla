------------------------------ MODULE MTasker -------------------------------
(***************************************************************************)
(* The recursor's cooperative threads (mtasker.cc, mtasker.hh).  A kernel  *)
(* loop starts threads, reports events and calls schedule; a thread runs   *)
(* until it waits for an event, yields or ends.  One step is the code      *)
(* between two context switches.                                           *)
(*                                                                         *)
(* What a thread computes is left open: it may wait for any key, yield or  *)
(* end.  The clock is read once per turn of the kernel loop (g_now), so    *)
(* time passes between those turns; a waiter keeps the time left until its *)
(* ttd, negative once ttd < now.                                           *)
(***************************************************************************)
EXTENDS Integers, Sequences, SequencesExt, FiniteSets

CONSTANTS
  Keys,       \* EventKey
  Timeouts,   \* the timeouts passed to waitEvent; 0 is no timeout
  MaxThreads  \* bound on d_maxtid

ASSUME MTaskerAssumption ==
  Keys # {} /\ Timeouts \subseteq Nat /\ MaxThreads \in Nat \ {0}

Tids == 0 .. MaxThreads - 1
Kernel == -1
Forever == -2    \* ttd of a waiter without a timeout
End == "end"     \* the end iterator of d_waiters
Lefts == {Forever, -1} \cup {l \in Nat : \E t \in Timeouts : l <= t}

VARIABLES
  runQueue,  \* d_runQueue
  zombies,   \* d_zombiesQueue
  threads,   \* the tids of d_threads
  maxtid,    \* d_maxtid
  waiters,   \* d_waiters: key -> time left and tid
  dtid,      \* d_tid
  running,   \* the thread whose context is active, or Kernel
  kernel,    \* where the kernel's context is
  iter,      \* the iterator of schedule's loop over the waiters
  eventkey,  \* d_eventkey
  call       \* per thread: the key it passed to waitEvent, what came back

queues == <<runQueue, zombies>>
vars == <<queues, threads, maxtid, waiters, dtid, running, kernel, iter, eventkey, call>>

Calls == [asked : Keys, status : {"none", "waiting", "answer", "timeout", "error"}, key : Keys]

(* The type invariant. *)
TypeOK ==
  /\ runQueue \in Seq(Tids) /\ zombies \in Seq(Tids)
  /\ threads \subseteq Tids
  /\ maxtid \in 0 .. MaxThreads
  /\ DOMAIN waiters \subseteq Keys
  /\ \A k \in DOMAIN waiters : waiters[k] \in [left : Lefts, tid : Tids]
  /\ dtid \in Tids
  /\ running \in Tids \cup {Kernel}
  /\ kernel \in {"loop", "run", "event", "timeouts"}
  /\ iter \in Keys \cup {End}
  /\ eventkey \in Keys
  /\ call \in [Tids -> Calls]

Init ==
  /\ runQueue = <<>> /\ zombies = <<>>
  /\ threads = {}
  /\ maxtid = 0
  /\ waiters = <<>>
  /\ dtid = 0
  /\ running = Kernel
  /\ kernel = "loop"
  /\ iter = End
  /\ eventkey = CHOOSE k \in Keys : TRUE
  /\ call = [t \in Tids |-> [asked |-> eventkey, status |-> "none", key |-> eventkey]]

-----------------------------------------------------------------------------
(* The kernel's context becomes active again where it was left; schedule    *)
(* pops the thread that it ran only now.                                    *)
BackToKernel(queue) ==
  /\ running' = Kernel
  /\ runQueue' = IF kernel = "run" THEN Tail(queue) ELSE queue
  /\ kernel' = IF kernel = "timeouts" THEN "timeouts" ELSE "loop"

Without(k) == [q \in DOMAIN waiters \ {k} |-> waiters[q]]

(***************************************************************************)
(* The rest of waitEvent, on the context of the waiter of key k: the       *)
(* thread takes its d_tid back and reports d_waitstatus and d_eventkey.    *)
(***************************************************************************)
Resume_keepsTid(k, status) ==
  LET t == waiters[k].tid
  IN /\ running' = t
     /\ eventkey' = k
     /\ call' = [call EXCEPT ![t].status = status, ![t].key = eventkey']
     /\ UNCHANGED dtid
Resume_staleKey(k, status) ==
  LET t == waiters[k].tid
  IN /\ running' = t
     /\ dtid' = t
     /\ eventkey' = IF status = "answer" THEN k ELSE eventkey
     /\ call' = [call EXCEPT ![t].status = status, ![t].key = eventkey']
Resume(k, status) ==
  LET t == waiters[k].tid
  IN /\ running' = t
     /\ dtid' = t
     /\ eventkey' = k
     /\ call' = [call EXCEPT ![t].status = status, ![t].key = eventkey']

(* waitEvent up to the switch; a key that is taken is an error (-1). *)
WaitEvent(t, k, timeout) ==
  /\ running = t
  /\ IF k \in DOMAIN waiters
     THEN /\ call' = [call EXCEPT ![t].asked = k, ![t].status = "error"]
          /\ UNCHANGED <<waiters, running, runQueue, kernel>>
     ELSE /\ waiters' = [q \in DOMAIN waiters \cup {k} |->
                           IF q = k THEN [left |-> IF timeout = 0 THEN Forever ELSE timeout,
                                          tid |-> dtid]
                           ELSE waiters[q]]
          /\ call' = [call EXCEPT ![t].asked = k, ![t].status = "waiting"]
          /\ BackToKernel(runQueue)
  /\ UNCHANGED <<zombies, threads, maxtid, dtid, iter, eventkey>>

Yield(t) ==
  /\ running = t
  /\ BackToKernel(Append(runQueue, dtid))
  /\ call' = [call EXCEPT ![t].status = "none"]
  /\ UNCHANGED <<zombies, threads, maxtid, waiters, dtid, iter, eventkey>>

(* The thread's function returns into threadWrapper. *)
ThreadEnds(t) ==
  /\ running = t
  /\ zombies' = Append(zombies, t)
  /\ call' = [call EXCEPT ![t].status = "none"]
  /\ BackToKernel(runQueue)
  /\ UNCHANGED <<threads, maxtid, waiters, dtid, iter, eventkey>>

-----------------------------------------------------------------------------
InLoop == running = Kernel /\ kernel = "loop"

MakeThread ==
  /\ InLoop
  /\ maxtid < MaxThreads
  /\ threads' = threads \cup {maxtid}
  /\ runQueue' = Append(runQueue, maxtid)
  /\ maxtid' = maxtid + 1
  /\ UNCHANGED <<zombies, waiters, dtid, running, kernel, iter, eventkey, call>>

(* sendEvent with a waiter; without one it returns 0 and changes nothing. *)
SendEvent_keepsWaiter(k) ==
  /\ InLoop
  /\ k \in DOMAIN waiters
  /\ Resume(k, "answer")
  /\ kernel' = "event"
  /\ UNCHANGED <<queues, threads, maxtid, iter, waiters>>
SendEvent(k) ==
  /\ InLoop
  /\ k \in DOMAIN waiters
  /\ Resume(k, "answer")
  /\ waiters' = Without(k)
  /\ kernel' = "event"
  /\ UNCHANGED <<queues, threads, maxtid, iter>>

(***************************************************************************)
(* schedule: run the first runnable thread, or else free one zombie, or    *)
(* else wake the waiters whose time is up, in the order of their ttd.      *)
(***************************************************************************)
ScheduleRun ==
  /\ InLoop
  /\ runQueue # <<>>
  /\ dtid' = Head(runQueue)
  /\ running' = Head(runQueue)
  /\ kernel' = "run"
  /\ UNCHANGED <<queues, threads, maxtid, waiters, iter, eventkey, call>>

ScheduleReap ==
  /\ InLoop
  /\ runQueue = <<>> /\ zombies # <<>>
  /\ threads' = threads \ {Head(zombies)}
  /\ zombies' = Tail(zombies)
  /\ UNCHANGED <<runQueue, maxtid, waiters, dtid, running, kernel, iter, eventkey, call>>

(* The ttd order of a set of waiters: no timeout is the zero ttd. *)
IsFirst(k, ks) == k \in ks /\ \A q \in ks : waiters[k].left <= waiters[q].left

ScheduleTimeouts ==
  /\ InLoop
  /\ runQueue = <<>> /\ zombies = <<>>
  /\ \E k \in DOMAIN waiters : IsFirst(k, DOMAIN waiters) /\ iter' = k
  /\ kernel' = "timeouts"
  /\ UNCHANGED <<queues, threads, maxtid, waiters, dtid, running, eventkey, call>>

(* One turn of the loop.  A waiter without a timeout neither times out nor  *)
(* ends the loop nor moves the iterator.                                    *)
TimeoutStep_never ==
  /\ running = Kernel /\ kernel = "timeouts"
  /\ kernel' = "loop"
  /\ UNCHANGED <<queues, threads, maxtid, waiters, dtid, running, iter, eventkey, call>>
TimeoutStep ==
  /\ running = Kernel /\ kernel = "timeouts"
  /\ IF iter # End /\ waiters[iter].left = -1
     THEN /\ Resume(iter, "timeout")
          /\ waiters' = Without(iter)
          /\ LET rest == {q \in DOMAIN waiters \ {iter} : waiters[q].left >= -1}
             IN IF rest = {} THEN iter' = End ELSE \E q \in rest : IsFirst(q, rest) /\ iter' = q
          /\ UNCHANGED kernel
     ELSE /\ kernel' = IF iter # End /\ waiters[iter].left = Forever THEN kernel ELSE "loop"
          /\ iter' = IF iter # End /\ waiters[iter].left = Forever THEN iter ELSE End
          /\ UNCHANGED <<waiters, dtid, running, eventkey, call>>
  /\ UNCHANGED <<queues, threads, maxtid>>

Tick ==
  /\ InLoop
  /\ \E k \in DOMAIN waiters : waiters[k].left >= 0
  /\ waiters' = [k \in DOMAIN waiters |->
                   [waiters[k] EXCEPT !.left = IF @ >= 0 THEN @ - 1 ELSE @]]
  /\ UNCHANGED <<queues, threads, maxtid, dtid, running, kernel, iter, eventkey, call>>

ThreadStep(t) ==
  Yield(t) \/ ThreadEnds(t) \/ \E k \in Keys, timeout \in Timeouts : WaitEvent(t, k, timeout)
Schedule == ScheduleRun \/ ScheduleReap \/ ScheduleTimeouts \/ TimeoutStep

Next ==
  \/ \E t \in Tids : ThreadStep(t)
  \/ MakeThread
  \/ \E k \in Keys : SendEvent(k)
  \/ Schedule
  \/ Tick

Spec == Init /\ [][Next]_vars

(* Every turn of the kernel loop calls schedule, the clock runs, and a      *)
(* thread gives the processor back and does not go on for ever.             *)
FairSpec ==
  /\ Spec
  /\ SF_vars(Schedule) /\ SF_vars(Tick)
  /\ \A t \in Tids : WF_vars(ThreadStep(t)) /\ SF_vars(ThreadEnds(t))

-----------------------------------------------------------------------------
(***************************************************************************)
(* Whichever way a thread got the processor (the run queue, an event, a    *)
(* timeout), d_tid names it: yield and waitEvent file the running context  *)
(* under d_tid.                                                            *)
(***************************************************************************)
RunsAsItself == running # Kernel => dtid = running

(***************************************************************************)
(* Every thread of d_threads is in exactly one place: on the processor,    *)
(* once in the run queue, a waiter of exactly one key, or a zombie.  While *)
(* schedule runs a thread, its old entry is still the head of the queue.   *)
(***************************************************************************)
Runnable == IF kernel = "run" THEN Tail(runQueue) ELSE runQueue
Occurrences(s, t) == Cardinality({i \in DOMAIN s : s[i] = t})
Places(t) ==
  Occurrences(Runnable, t) + Occurrences(zombies, t)
    + Cardinality({k \in DOMAIN waiters : waiters[k].tid = t})
    + (IF running = t THEN 1 ELSE 0)
OnePlace == \A t \in Tids : Places(t) = IF t \in threads THEN 1 ELSE 0

(* waitEvent comes back with the key that the thread asked for. *)
OwnKey == \A t \in Tids : call[t].status \in {"answer", "timeout"} => call[t].key = call[t].asked

(* A thread that waits with a timeout comes back. *)
WaitsEnd == \A t \in Tids : (call[t].status = "waiting") ~> (call[t].status # "waiting")
=============================================================================
