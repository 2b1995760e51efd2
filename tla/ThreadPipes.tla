---------------------------- MODULE ThreadPipes -----------------------------
(***************************************************************************)
(* The recursor's POSIX threads and the pipes between them                 *)
(* (pdns_recursor.cc).  Thread 0 has the control channel and makes every   *)
(* thread run a function, one after the other, and waits for each answer;  *)
(* with pdns-distributes-queries it also hands the questions of clients to *)
(* the others, over the same pipes and without an answer.                  *)
(*                                                                         *)
(* A pipe holds pointers, some thousands of them; reads and writes block.  *)
(* A thread may end by an exception that reaches recursorThread.           *)
(***************************************************************************)
EXTENDS Naturals, Sequences

CONSTANTS
  NumThreads,   \* g_numThreads
  Distributes,  \* g_weDistributeQueries
  Capacity,     \* pointers that fit in a pipe
  MaxCalls,     \* bound on the broadcasts
  MaxQuestions  \* bound on the questions

ASSUME PipesAssumption ==
  /\ NumThreads \in Nat \ {0} /\ Distributes \in BOOLEAN /\ Capacity \in Nat \ {0}
  /\ Distributes => NumThreads > 1     \* threads + pdns-distributes-queries
  /\ MaxCalls \in Nat /\ MaxQuestions \in Nat

Threads == 0 .. NumThreads - 1
Others == Threads \ {0}
Question == 0    \* a message that wants no answer; else it is the number of a broadcast

VARIABLES
  toThread,    \* per thread: the pipe to it
  fromThread,  \* per thread: the pipe back
  caller,      \* thread 0: what it does, with which thread, for which broadcast
  thread,      \* per thread: in its loop, about to answer or ended; the last broadcast it got
  ran,         \* per thread: how often it ran the function of the current broadcast
  counter      \* the static counter of distributeAsyncFunction

pipes == <<toThread, fromThread>>
pipeVars == <<pipes, caller, thread, ran, counter>>

PipesInit ==
  /\ toThread = [t \in Threads |-> <<>>]
  /\ fromThread = [t \in Threads |-> <<>>]
  /\ caller = [pc |-> "loop", n |-> 0, call |-> 0]
  /\ thread = [t \in Others |-> [pc |-> "loop", call |-> 0]]
  /\ ran = [t \in Threads |-> 0]
  /\ counter = 0

-----------------------------------------------------------------------------
(***************************************************************************)
(* Thread 0: broadcastFunction and broadcastAccFunction.                   *)
(***************************************************************************)
Advance(n) == [caller EXCEPT !.pc = IF n + 1 = NumThreads THEN "loop" ELSE "write", !.n = n + 1]

Broadcast ==
  /\ caller.pc = "loop" /\ caller.call < MaxCalls
  /\ caller' = [pc |-> "write", n |-> 0, call |-> caller.call + 1]
  /\ ran' = [t \in Threads |-> 0]
  /\ UNCHANGED <<pipes, thread, counter>>

(* It runs the function itself when its turn comes. *)
RunSelf ==
  /\ caller.pc = "write" /\ caller.n = 0
  /\ ran' = [ran EXCEPT ![0] = @ + 1]
  /\ caller' = Advance(0)
  /\ UNCHANGED <<pipes, thread, counter>>

WriteTo(n) ==
  /\ caller.pc = "write" /\ caller.n = n
  /\ Len(toThread[n]) < Capacity
  /\ toThread' = [toThread EXCEPT ![n] = Append(@, caller.call)]
  /\ caller' = [caller EXCEPT !.pc = "read"]
  /\ UNCHANGED <<fromThread, thread, ran, counter>>

ReadFrom(n) ==
  /\ caller.pc = "read" /\ caller.n = n
  /\ fromThread[n] # <<>>
  /\ fromThread' = [fromThread EXCEPT ![n] = Tail(@)]
  /\ caller' = Advance(n)
  /\ UNCHANGED <<toThread, thread, ran, counter>>

(* handleNewUDPQuestion and distributeAsyncFunction. *)
Distribute ==
  /\ Distributes
  /\ caller.pc = "loop" /\ counter < MaxQuestions
  /\ counter' = counter + 1
  /\ caller' = [caller EXCEPT !.pc = "send", !.n = 1 + (counter' % (NumThreads - 1))]
  /\ UNCHANGED <<pipes, thread, ran>>

Send(n) ==
  /\ caller.pc = "send" /\ caller.n = n
  /\ Len(toThread[n]) < Capacity
  /\ toThread' = [toThread EXCEPT ![n] = Append(@, Question)]
  /\ caller' = [caller EXCEPT !.pc = "loop"]
  /\ UNCHANGED <<fromThread, thread, ran, counter>>

-----------------------------------------------------------------------------
(***************************************************************************)
(* The other threads: handlePipeRequest.                                   *)
(***************************************************************************)
HandlePipeRequest_alwaysAnswers(t) ==
  /\ thread[t].pc = "loop"
  /\ toThread[t] # <<>>
  /\ toThread' = [toThread EXCEPT ![t] = Tail(@)]
  /\ thread' = [thread EXCEPT ![t].pc = "answer", ![t].call = Head(toThread[t])]
  /\ ran' = IF Head(toThread[t]) = Question THEN ran ELSE [ran EXCEPT ![t] = @ + 1]
  /\ UNCHANGED <<fromThread, caller, counter>>
HandlePipeRequest(t) ==
  /\ thread[t].pc = "loop"
  /\ toThread[t] # <<>>
  /\ toThread' = [toThread EXCEPT ![t] = Tail(@)]
  /\ IF Head(toThread[t]) = Question THEN UNCHANGED <<thread, ran>>
     ELSE /\ thread' = [thread EXCEPT ![t].pc = "answer", ![t].call = Head(toThread[t])]
          /\ ran' = [ran EXCEPT ![t] = @ + 1]
  /\ UNCHANGED <<fromThread, caller, counter>>

WriteAnswer_ifAny(t) ==
  /\ thread[t].pc = "answer"
  /\ Len(fromThread[t]) < Capacity
  /\ \/ fromThread' = [fromThread EXCEPT ![t] = Append(@, thread[t].call)]
     \/ UNCHANGED fromThread    \* a null pointer
  /\ thread' = [thread EXCEPT ![t].pc = "loop"]
  /\ UNCHANGED <<toThread, caller, ran, counter>>
WriteAnswer(t) ==
  /\ thread[t].pc = "answer"
  /\ Len(fromThread[t]) < Capacity
  /\ fromThread' = [fromThread EXCEPT ![t] = Append(@, thread[t].call)]
  /\ thread' = [thread EXCEPT ![t].pc = "loop"]
  /\ UNCHANGED <<toThread, caller, ran, counter>>

(* An exception ends recursorThread, out of the function it was to run or   *)
(* out of its own loop; its pipes stay open.  The end of the last thread,   *)
(* which main waits for, would be the end of the process.                   *)
RecursorThreadEnds(t) ==
  /\ thread[t].pc \in {"loop", "answer"} /\ t # NumThreads - 1
  /\ thread' = [thread EXCEPT ![t].pc = "ended"]
  /\ UNCHANGED <<pipes, caller, ran, counter>>

PipesNext ==
  \/ Broadcast \/ RunSelf \/ Distribute
  \/ \E t \in Others : WriteTo(t) \/ ReadFrom(t) \/ Send(t)
  \/ \E t \in Others : HandlePipeRequest(t) \/ WriteAnswer(t) \/ RecursorThreadEnds(t)

PipesSpec == PipesInit /\ [][PipesNext]_pipeVars

(* Every thread gets its share of the processor; none needs to end. *)
FairPipesSpec ==
  /\ PipesSpec
  /\ WF_pipeVars(RunSelf \/ \E t \in Others : WriteTo(t) \/ ReadFrom(t) \/ Send(t))
  /\ \A t \in Others : WF_pipeVars(HandlePipeRequest(t) \/ WriteAnswer(t))

-----------------------------------------------------------------------------
(***************************************************************************)
(* A broadcast reaches every thread once, in order, and what it reads back *)
(* from a thread is that thread's answer to this broadcast: the questions  *)
(* that went down the same pipe leave nothing in the pipe back.            *)
(***************************************************************************)
OneAnswerEach ==
  /\ caller.pc \in {"loop", "send"} /\ caller.call > 0 => \A t \in Threads : ran[t] = 1
  /\ caller.pc \in {"write", "read"} =>
       \A t \in Threads : /\ t < caller.n => ran[t] = 1
                          /\ t > caller.n => ran[t] = 0
                          /\ ran[t] <= 1
  /\ \A t \in Others : fromThread[t] # <<>> =>
       caller.pc = "read" /\ caller.n = t /\ fromThread[t] = <<caller.call>>

(***************************************************************************)
(* Thread 0 always comes back to its loop, where it serves the control     *)
(* channel and, if it distributes, all clients: it never waits for a       *)
(* thread that waits for it.  Only a thread that ended can hold it up, and *)
(* only when it is that thread's turn.                                     *)
(***************************************************************************)
HeldUp == \E t \in Others : caller.n = t /\ thread[t].pc = "ended"
CallsEnd == (caller.pc # "loop") ~> (caller.pc = "loop" \/ HeldUp)
=============================================================================
