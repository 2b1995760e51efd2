--------------------------- MODULE Threads_proofs ---------------------------
(***************************************************************************)
(* The threads of the recursor.  First the cooperative ones, for any       *)
(* number of threads, keys and timeouts: the types, d_tid, the one place   *)
(* of every thread and the key that a wait comes back with.  Then the      *)
(* POSIX threads, which share no state with them, and their pipes.         *)
(***************************************************************************)
EXTENDS MTasker, ThreadPipes, TLAPS, FiniteSetTheorems, SequenceTheorems, FunctionTheorems

(***************************************************************************)
(* The three properties need each other and what is below: a thread that   *)
(* waits is filed under d_tid, so RunsAsItself keeps it in one place; only *)
(* since it is nowhere else, no one changes what it asked for.             *)
(***************************************************************************)
(* The head of the run queue is the thread that schedule runs. *)
KernelAt ==
  /\ kernel = "loop" => running = Kernel
  /\ kernel = "run" => runQueue # <<>> /\ running # Kernel
(* schedule's iterator stays good while the threads it wakes run. *)
IterInWaiters == kernel = "timeouts" => iter \in DOMAIN waiters \cup {End}
(* Tids are given out once. *)
ThreadsMade == threads \subseteq 0 .. maxtid - 1
AskedFor == \A k \in DOMAIN waiters : call[waiters[k].tid].asked = k
WaitersFinite == IsFiniteSet(DOMAIN waiters)

Shape == TypeOK /\ KernelAt /\ IterInWaiters /\ ThreadsMade /\ WaitersFinite
MTaskerInv == Shape /\ RunsAsItself /\ OnePlace /\ AskedFor /\ OwnKey

One(holds) == IF holds THEN 1 ELSE 0
WaitsAt(t) == {k \in DOMAIN waiters : waiters[k].tid = t}

-----------------------------------------------------------------------------
(* The places of a thread in a queue are finitely many. *)
Spots(s, t) == {i \in 1 .. Len(s) : s[i] = t}
LEMMA OccurrencesSpots ==
  ASSUME NEW s \in Seq(Tids), NEW t
  PROVE  /\ IsFiniteSet(Spots(s, t))
         /\ Occurrences(s, t) = Cardinality(Spots(s, t)) /\ Occurrences(s, t) \in Nat
<1>1. Len(s) \in Nat /\ DOMAIN s = 1 .. Len(s)
  BY LenProperties
<1>2. IsFiniteSet(1 .. Len(s))
  BY <1>1, FS_Interval
<1>3. Spots(s, t) \in SUBSET (1 .. Len(s))
  BY DEF Spots
<1>4. IsFiniteSet(Spots(s, t))
  BY <1>2, <1>3, FS_Subset
<1>5. Occurrences(s, t) = Cardinality(Spots(s, t))
  BY <1>1 DEF Spots, Occurrences
<1> QED
  BY <1>4, <1>5, FS_CardinalityType

(* A thread pushed on a queue. *)
LEMMA OccurrencesAppend ==
  ASSUME NEW s \in Seq(Tids), NEW x \in Tids, NEW t
  PROVE  Occurrences(Append(s, x), t) = Occurrences(s, t) + One(x = t)
<1> DEFINE last == Len(s) + 1
<1>1. /\ Append(s, x) \in Seq(Tids) /\ Len(Append(s, x)) = last
      /\ \A i \in 1 .. Len(s) : Append(s, x)[i] = s[i]
      /\ Append(s, x)[last] = x
  BY AppendProperties
<1>2. Len(s) \in Nat
  BY LenProperties
<1>3. /\ Occurrences(s, t) = Cardinality(Spots(s, t)) /\ Occurrences(s, t) \in Nat
      /\ Occurrences(Append(s, x), t) = Cardinality(Spots(Append(s, x), t))
  BY <1>1, OccurrencesSpots
<1>4. CASE x = t
  <2>1. Spots(Append(s, x), t) = Spots(s, t) \cup {last} /\ last \notin Spots(s, t)
    BY <1>1, <1>2, <1>4 DEF Spots
  <2>2. Cardinality(Spots(s, t) \cup {last}) = Cardinality(Spots(s, t)) + 1
    BY <2>1, OccurrencesSpots, FS_AddElement
  <2> QED
    BY <1>3, <1>4, <2>1, <2>2 DEF One
<1>5. CASE x # t
  <2>1. Spots(Append(s, x), t) = Spots(s, t)
    BY <1>1, <1>2, <1>5 DEF Spots
  <2>2. Occurrences(Append(s, x), t) = Occurrences(s, t)
    BY <1>3, <2>1
  <2> QED
    BY <1>3, <1>5, <2>2 DEF One
<1> QED
  BY <1>4, <1>5

(* A thread popped off a queue. *)
LEMMA OccurrencesTail ==
  ASSUME NEW s \in Seq(Tids), s # <<>>, NEW t
  PROVE  Occurrences(s, t) = Occurrences(Tail(s), t) + One(Head(s) = t)
<1> DEFINE shift == [i \in Spots(Tail(s), t) |-> i + 1]
<1>1. /\ Tail(s) \in Seq(Tids) /\ Len(Tail(s)) = Len(s) - 1 /\ Len(s) \in Nat \ {0}
      /\ \A i \in 1 .. Len(Tail(s)) : Tail(s)[i] = s[i + 1]
  BY HeadTailProperties, EmptySeq
<1>2. Head(s) = s[1]
  OBVIOUS
<1>3. shift \in [Spots(Tail(s), t) -> Spots(s, t) \ {1}]
  BY <1>1 DEF Spots
<1>4. \A i, j \in Spots(Tail(s), t) : shift[i] = shift[j] => i = j
  BY <1>1 DEF Spots
<1>5. ASSUME NEW i \in Spots(s, t) \ {1}
      PROVE  \E j \in Spots(Tail(s), t) : shift[j] = i
  <2>1. i - 1 \in Spots(Tail(s), t) /\ (i - 1) + 1 = i
    BY <1>1 DEF Spots
  <2> QED
    BY <2>1
<1>6. ExistsBijection(Spots(Tail(s), t), Spots(s, t) \ {1})
  BY <1>3, <1>4, <1>5, Fun_IsBij DEF ExistsBijection
<1>7. Cardinality(Spots(s, t) \ {1}) = Cardinality(Spots(Tail(s), t))
  BY <1>1, <1>6, OccurrencesSpots, FS_Bijection
<1>8. 1 \in Spots(s, t) <=> Head(s) = t
  BY <1>1, <1>2 DEF Spots
<1>9. Cardinality(Spots(s, t) \ {1}) =
        IF 1 \in Spots(s, t) THEN Cardinality(Spots(s, t)) - 1 ELSE Cardinality(Spots(s, t))
  BY OccurrencesSpots, FS_RemoveElement
<1>10. /\ Occurrences(s, t) = Cardinality(Spots(s, t)) /\ Occurrences(s, t) \in Nat
       /\ Occurrences(Tail(s), t) = Cardinality(Spots(Tail(s), t))
  BY <1>1, OccurrencesSpots
<1> QED
  BY <1>7, <1>8, <1>9, <1>10 DEF One

-----------------------------------------------------------------------------
(* The four places as numbers. *)
LEMMA PlacesNumbers ==
  ASSUME Shape, NEW t \in Tids
  PROVE  /\ Runnable \in Seq(Tids)
         /\ Occurrences(Runnable, t) \in Nat /\ Occurrences(zombies, t) \in Nat
         /\ IsFiniteSet(WaitsAt(t)) /\ Cardinality(WaitsAt(t)) \in Nat
         /\ Places(t) = Occurrences(Runnable, t) + Occurrences(zombies, t)
                          + Cardinality(WaitsAt(t)) + One(running = t)
<1>1. Runnable \in Seq(Tids)
  BY HeadTailProperties DEF Runnable, Shape, TypeOK, KernelAt
<1>2. WaitsAt(t) \in SUBSET DOMAIN waiters
  BY DEF WaitsAt
<1>3. IsFiniteSet(WaitsAt(t)) /\ Cardinality(WaitsAt(t)) \in Nat
  BY <1>2, FS_Subset, FS_CardinalityType DEF Shape, WaitersFinite
<1>4. Occurrences(Runnable, t) \in Nat /\ Occurrences(zombies, t) \in Nat
  BY <1>1, OccurrencesSpots DEF Shape, TypeOK
<1> QED
  BY <1>1, <1>3, <1>4 DEF Places, WaitsAt, One

LEMMA PlacesBefore ==
  ASSUME Shape, OnePlace, NEW u \in Tids
  PROVE  /\ Occurrences(Runnable, u) \in Nat /\ Occurrences(zombies, u) \in Nat
         /\ Cardinality(WaitsAt(u)) \in Nat
         /\ One(u \in threads) = Occurrences(Runnable, u) + Occurrences(zombies, u)
                                   + Cardinality(WaitsAt(u)) + One(running = u)
BY PlacesNumbers DEF OnePlace, One

LEMMA PlacesAfter ==
  ASSUME NEW u \in Tids
  PROVE  Places(u)' = Occurrences(Runnable', u) + Occurrences(zombies', u)
                        + Cardinality(WaitsAt(u)') + One(running' = u)
BY DEF Places, WaitsAt, One

(* A waiter is on no queue and does not run. *)
LEMMA WaiterElsewhere ==
  ASSUME Shape, OnePlace, NEW k \in DOMAIN waiters
  PROVE  waiters[k].tid \in Tids /\ running # waiters[k].tid
<1> DEFINE t == waiters[k].tid
<1>1. t \in Tids
  BY DEF Shape, TypeOK
<1>2. k \in WaitsAt(t)
  BY DEF WaitsAt
<1> HIDE DEF t
<1>3. /\ Occurrences(Runnable, t) \in Nat /\ Occurrences(zombies, t) \in Nat
      /\ IsFiniteSet(WaitsAt(t)) /\ Cardinality(WaitsAt(t)) \in Nat
      /\ Occurrences(Runnable, t) + Occurrences(zombies, t)
           + Cardinality(WaitsAt(t)) + One(running = t) = One(t \in threads)
  BY <1>1, PlacesNumbers DEF OnePlace, One
<1>4. Cardinality(WaitsAt(t)) # 0
  BY <1>2, <1>3, FS_EmptySet
<1>5. running # t
  BY <1>3, <1>4 DEF One
<1> QED
  BY <1>1, <1>5 DEF t

(* A new waiter, and one that is taken out. *)
LEMMA WaitsAtAdd ==
  ASSUME Shape, NEW k \in Keys, k \notin DOMAIN waiters, NEW w \in [left : Lefts, tid : Tids],
         waiters' = [q \in DOMAIN waiters \cup {k} |-> IF q = k THEN w ELSE waiters[q]],
         NEW u \in Tids
  PROVE  Cardinality(WaitsAt(u)') = Cardinality(WaitsAt(u)) + One(w.tid = u)
<1>1. IsFiniteSet(WaitsAt(u)) /\ Cardinality(WaitsAt(u)) \in Nat
  BY PlacesNumbers
<1>2. k \notin WaitsAt(u)
  BY DEF WaitsAt
<1>3. CASE w.tid = u
  <2>1. WaitsAt(u)' = WaitsAt(u) \cup {k}
    BY <1>3 DEF WaitsAt
  <2>2. Cardinality(WaitsAt(u) \cup {k}) = Cardinality(WaitsAt(u)) + 1
    BY <1>1, <1>2, FS_AddElement
  <2>3. Cardinality(WaitsAt(u)') = Cardinality(WaitsAt(u)) + 1
    BY <2>1, <2>2
  <2> QED
    BY <1>3, <2>3 DEF One
<1>4. CASE w.tid # u
  <2>1. WaitsAt(u)' = WaitsAt(u)
    BY <1>4 DEF WaitsAt
  <2>2. Cardinality(WaitsAt(u)') = Cardinality(WaitsAt(u))
    BY <2>1
  <2> QED
    BY <1>1, <1>4, <2>2 DEF One
<1> QED
  BY <1>3, <1>4

LEMMA WaitsAtRemove ==
  ASSUME Shape, NEW k \in DOMAIN waiters, waiters' = Without(k), NEW u \in Tids
  PROVE  Cardinality(WaitsAt(u)') = Cardinality(WaitsAt(u)) - One(waiters[k].tid = u)
<1>1. IsFiniteSet(WaitsAt(u)) /\ Cardinality(WaitsAt(u)) \in Nat
  BY PlacesNumbers
<1>2. WaitsAt(u)' = WaitsAt(u) \ {k}
  BY DEF WaitsAt, Without
<1>3. Cardinality(WaitsAt(u) \ {k}) =
        IF k \in WaitsAt(u) THEN Cardinality(WaitsAt(u)) - 1 ELSE Cardinality(WaitsAt(u))
  BY <1>1, FS_RemoveElement
<1>4. k \in WaitsAt(u) <=> waiters[k].tid = u
  BY DEF WaitsAt
<1>5. Cardinality(WaitsAt(u)') = Cardinality(WaitsAt(u) \ {k})
  BY <1>2
<1> QED
  BY <1>1, <1>3, <1>4, <1>5 DEF One

(* The kernel's context again: the queue q, without the thread that schedule ran. *)
LEMMA BackToKernelEffect ==
  ASSUME Shape, NEW q \in Seq(Tids), kernel = "run" => q # <<>>, BackToKernel(q)
  PROVE  /\ running' = Kernel /\ kernel' \in {"loop", "timeouts"}
         /\ kernel' = "timeouts" => kernel = "timeouts"
         /\ runQueue' \in Seq(Tids)
         /\ runQueue' = IF kernel = "run" THEN Tail(q) ELSE q
         /\ Runnable' = runQueue'
         /\ KernelAt'
<1>1. runQueue' = IF kernel = "run" THEN Tail(q) ELSE q
  BY DEF BackToKernel
<1>2. runQueue' \in Seq(Tids)
  BY <1>1, HeadTailProperties
<1>3. running' = Kernel /\ kernel' \in {"loop", "timeouts"} /\ (kernel' = "timeouts" => kernel = "timeouts")
  BY DEF BackToKernel
<1> QED
  BY <1>1, <1>2, <1>3 DEF Runnable, KernelAt

-----------------------------------------------------------------------------
LEMMA Constants ==
  Keys # {} /\ Timeouts \subseteq Nat /\ MaxThreads \in Nat \ {0} /\ Kernel \notin Tids
BY MTaskerAssumption DEF Kernel, Tids

(* A thread waits: the key is free, the thread is filed under d_tid, which is its own. *)
LEMMA WaitEventKeeps ==
  ASSUME MTaskerInv, NEW t \in Tids, NEW k \in Keys, NEW timeout \in Timeouts,
         WaitEvent(t, k, timeout)
  PROVE  MTaskerInv'
<1>0. Shape /\ TypeOK /\ RunsAsItself /\ OnePlace /\ AskedFor /\ OwnKey
  BY DEF MTaskerInv, Shape
<1>1. running = t /\ dtid = t /\ t # Kernel
  BY <1>0, Constants DEF WaitEvent, RunsAsItself
<1>2. \A j \in DOMAIN waiters : waiters[j].tid \in Tids /\ waiters[j].tid # t
  BY <1>0, <1>1, WaiterElsewhere
<1>3. CASE k \in DOMAIN waiters
  <2>1. /\ call' = [call EXCEPT ![t].asked = k, ![t].status = "error"]
        /\ UNCHANGED <<queues, waiters, running, kernel, threads, maxtid, dtid, iter, eventkey>>
    BY <1>3 DEF WaitEvent, queues
  <2>2. call' \in [Tids -> Calls]
    BY <1>0, <2>1 DEF TypeOK, Calls
  <2>3. Shape'
    BY <1>0, <2>1, <2>2 DEF Shape, TypeOK, KernelAt, IterInWaiters, ThreadsMade, WaitersFinite, queues
  <2>4. RunsAsItself'
    BY <1>0, <2>1 DEF RunsAsItself
  <2>5. OnePlace'
    BY <1>0, <2>1 DEF OnePlace, Places, Runnable, queues
  <2>6. AskedFor'
    BY <1>0, <1>2, <2>1 DEF AskedFor, TypeOK
  <2>7. OwnKey'
    BY <1>0, <2>1 DEF OwnKey, TypeOK, Calls
  <2> QED
    BY <2>3, <2>4, <2>5, <2>6, <2>7 DEF MTaskerInv
<1>4. CASE k \notin DOMAIN waiters
  <2> DEFINE w == [left |-> IF timeout = 0 THEN Forever ELSE timeout, tid |-> dtid]
  <2>1. /\ waiters' = [q \in DOMAIN waiters \cup {k} |-> IF q = k THEN w ELSE waiters[q]]
        /\ call' = [call EXCEPT ![t].asked = k, ![t].status = "waiting"]
        /\ BackToKernel(runQueue)
        /\ UNCHANGED <<zombies, threads, maxtid, dtid, iter, eventkey>>
    BY <1>4 DEF WaitEvent
  <2>2. w \in [left : Lefts, tid : Tids] /\ w.tid = t
    BY <1>1, Constants DEF Lefts
  <2> HIDE DEF w
  <2>3. /\ running' = Kernel /\ kernel' \in {"loop", "timeouts"}
        /\ kernel' = "timeouts" => kernel = "timeouts"
        /\ runQueue' \in Seq(Tids)
        /\ runQueue' = IF kernel = "run" THEN Tail(runQueue) ELSE runQueue
        /\ Runnable' = runQueue'
        /\ KernelAt'
    BY <1>0, <2>1, BackToKernelEffect DEF Shape, TypeOK, KernelAt
  <2>4. call' \in [Tids -> Calls]
    BY <1>0, <2>1 DEF TypeOK, Calls
  <2>5. Shape'
    <3>1. DOMAIN waiters' = DOMAIN waiters \cup {k}
      BY <2>1
    <3>2. WaitersFinite'
      BY <1>0, <3>1, FS_AddElement DEF Shape, WaitersFinite
    <3>3. \A j \in DOMAIN waiters' : waiters'[j] \in [left : Lefts, tid : Tids]
      BY <1>0, <2>1, <2>2 DEF TypeOK
    <3>4. IterInWaiters'
      BY <1>0, <2>1, <2>3, <3>1 DEF Shape, IterInWaiters
    <3>5. TypeOK'
      BY <1>0, <2>1, <2>3, <2>4, <3>1, <3>3 DEF TypeOK
    <3> QED
      BY <1>0, <2>1, <2>3, <3>2, <3>4, <3>5 DEF Shape, ThreadsMade
  <2>6. RunsAsItself'
    BY <2>3 DEF RunsAsItself
  <2>7. ASSUME NEW u \in Tids
        PROVE  Places(u)' = One(u \in threads')
    <3>1. /\ Occurrences(Runnable, u) \in Nat /\ Occurrences(zombies, u) \in Nat
          /\ Cardinality(WaitsAt(u)) \in Nat
          /\ One(u \in threads) = Occurrences(Runnable, u) + Occurrences(zombies, u)
                                    + Cardinality(WaitsAt(u)) + One(running = u)
      BY <1>0, PlacesBefore
    <3>2. Places(u)' = Occurrences(Runnable', u) + Occurrences(zombies', u)
                         + Cardinality(WaitsAt(u)') + One(running' = u)
      BY PlacesAfter
    <3>3. Runnable' = Runnable
      BY <2>3 DEF Runnable
    <3>4. Cardinality(WaitsAt(u)') = Cardinality(WaitsAt(u)) + One(running = u)
      BY <1>0, <1>1, <1>4, <2>1, <2>2, WaitsAtAdd
    <3>5. One(running' = u) = 0 /\ One(running = u) \in Nat
      BY <2>3, Constants DEF One
    <3> QED
      BY <2>1, <3>1, <3>2, <3>3, <3>4, <3>5
  <2>8. OnePlace'
    BY <2>7 DEF OnePlace, One
  <2>9. AskedFor'
    BY <1>0, <1>2, <2>1, <2>2 DEF AskedFor, TypeOK
  <2>10. OwnKey'
    BY <1>0, <2>1 DEF OwnKey, TypeOK, Calls
  <2> QED
    BY <2>5, <2>6, <2>8, <2>9, <2>10 DEF MTaskerInv
<1> QED
  BY <1>3, <1>4

(* yield, and the end of a thread: it goes to a queue under its own tid. *)
LEMMA YieldKeeps ==
  ASSUME MTaskerInv, NEW t \in Tids, Yield(t)
  PROVE  MTaskerInv'
<1>0. Shape /\ TypeOK /\ RunsAsItself /\ OnePlace /\ AskedFor /\ OwnKey
  BY DEF MTaskerInv, Shape
<1>1. running = t /\ dtid = t
  BY <1>0, Constants DEF Yield, RunsAsItself
<1>2. /\ BackToKernel(Append(runQueue, t))
      /\ call' = [call EXCEPT ![t].status = "none"]
      /\ UNCHANGED <<zombies, threads, maxtid, waiters, dtid, iter, eventkey>>
  BY <1>1 DEF Yield
<1>3. runQueue \in Seq(Tids) /\ Append(runQueue, t) \in Seq(Tids) /\ Append(runQueue, t) # <<>>
  BY <1>0, AppendProperties DEF TypeOK
<1>4. /\ running' = Kernel /\ kernel' \in {"loop", "timeouts"}
      /\ kernel' = "timeouts" => kernel = "timeouts"
      /\ runQueue' \in Seq(Tids)
      /\ runQueue' = IF kernel = "run" THEN Tail(Append(runQueue, t)) ELSE Append(runQueue, t)
      /\ Runnable' = runQueue'
      /\ KernelAt'
  BY <1>0, <1>2, <1>3, BackToKernelEffect
<1>5. Shape'
  <2>1. call' \in [Tids -> Calls]
    BY <1>0, <1>2 DEF TypeOK, Calls
  <2>2. TypeOK'
    BY <1>0, <1>2, <1>4, <2>1 DEF TypeOK
  <2> QED
    BY <1>0, <1>2, <1>4, <2>2 DEF Shape, IterInWaiters, ThreadsMade, WaitersFinite
<1>6. RunsAsItself'
  BY <1>4 DEF RunsAsItself
<1>7. ASSUME NEW u \in Tids
      PROVE  Places(u)' = One(u \in threads')
  <2>1. /\ Occurrences(Runnable, u) \in Nat /\ Occurrences(zombies, u) \in Nat
       /\ Cardinality(WaitsAt(u)) \in Nat
       /\ One(u \in threads) = Occurrences(Runnable, u) + Occurrences(zombies, u)
                                 + Cardinality(WaitsAt(u)) + One(running = u)
    BY <1>0, PlacesBefore
  <2>2. Places(u)' = Occurrences(Runnable', u) + Occurrences(zombies', u)
                      + Cardinality(WaitsAt(u)') + One(running' = u)
    BY PlacesAfter
  <2>3. Runnable' = Append(Runnable, t)
    BY <1>0, <1>3, <1>4, HeadTailAppend DEF Runnable, Shape, KernelAt
  <2>4. Occurrences(Runnable', u) = Occurrences(Runnable, u) + One(running = u)
    BY <1>0, <1>1, <2>3, PlacesNumbers, OccurrencesAppend
  <2>5. One(running' = u) = 0 /\ One(running = u) \in Nat
    BY <1>4, Constants DEF One
  <2>6. WaitsAt(u)' = WaitsAt(u)
    BY <1>2 DEF WaitsAt
  <2> QED
    BY <1>2, <2>1, <2>2, <2>4, <2>5, <2>6
<1>8. OnePlace'
  BY <1>7 DEF OnePlace, One
<1>9. AskedFor'
  BY <1>0, <1>2 DEF AskedFor, TypeOK, Calls
<1>10. OwnKey'
  BY <1>0, <1>2 DEF OwnKey, TypeOK, Calls
<1> QED
  BY <1>5, <1>6, <1>8, <1>9, <1>10 DEF MTaskerInv

LEMMA ThreadEndsKeeps ==
  ASSUME MTaskerInv, NEW t \in Tids, ThreadEnds(t)
  PROVE  MTaskerInv'
<1>0. Shape /\ TypeOK /\ RunsAsItself /\ OnePlace /\ AskedFor /\ OwnKey
  BY DEF MTaskerInv, Shape
<1>1. /\ running = t /\ zombies' = Append(zombies, t)
      /\ BackToKernel(runQueue)
      /\ call' = [call EXCEPT ![t].status = "none"]
      /\ UNCHANGED <<threads, maxtid, waiters, dtid, iter, eventkey>>
  BY DEF ThreadEnds
<1>2. zombies' \in Seq(Tids)
  BY <1>0, <1>1, AppendProperties DEF TypeOK
<1>3. /\ running' = Kernel /\ kernel' \in {"loop", "timeouts"}
      /\ kernel' = "timeouts" => kernel = "timeouts"
      /\ runQueue' \in Seq(Tids)
      /\ runQueue' = IF kernel = "run" THEN Tail(runQueue) ELSE runQueue
      /\ Runnable' = runQueue'
      /\ KernelAt'
  BY <1>0, <1>1, BackToKernelEffect DEF Shape, TypeOK, KernelAt
<1>4. Shape'
  <2>1. call' \in [Tids -> Calls]
    BY <1>0, <1>1 DEF TypeOK, Calls
  <2>2. TypeOK'
    BY <1>0, <1>1, <1>2, <1>3, <2>1 DEF TypeOK
  <2> QED
    BY <1>0, <1>1, <1>3, <2>2 DEF Shape, IterInWaiters, ThreadsMade, WaitersFinite
<1>5. RunsAsItself'
  BY <1>3 DEF RunsAsItself
<1>6. ASSUME NEW u \in Tids
      PROVE  Places(u)' = One(u \in threads')
  <2>1. /\ Occurrences(Runnable, u) \in Nat /\ Occurrences(zombies, u) \in Nat
       /\ Cardinality(WaitsAt(u)) \in Nat
       /\ One(u \in threads) = Occurrences(Runnable, u) + Occurrences(zombies, u)
                                 + Cardinality(WaitsAt(u)) + One(running = u)
    BY <1>0, PlacesBefore
  <2>2. Places(u)' = Occurrences(Runnable', u) + Occurrences(zombies', u)
                      + Cardinality(WaitsAt(u)') + One(running' = u)
    BY PlacesAfter
  <2>3. Runnable' = Runnable
    BY <1>3 DEF Runnable
  <2>4. Occurrences(zombies', u) = Occurrences(zombies, u) + One(running = u)
    BY <1>0, <1>1, OccurrencesAppend DEF TypeOK
  <2>5. One(running' = u) = 0 /\ One(running = u) \in Nat
    BY <1>3, Constants DEF One
  <2>6. WaitsAt(u)' = WaitsAt(u)
    BY <1>1 DEF WaitsAt
  <2> QED
    BY <1>1, <2>1, <2>2, <2>3, <2>4, <2>5, <2>6
<1>7. OnePlace'
  BY <1>6 DEF OnePlace, One
<1>8. AskedFor'
  BY <1>0, <1>1 DEF AskedFor, TypeOK, Calls
<1>9. OwnKey'
  BY <1>0, <1>1 DEF OwnKey, TypeOK, Calls
<1> QED
  BY <1>4, <1>5, <1>7, <1>8, <1>9 DEF MTaskerInv

-----------------------------------------------------------------------------
(* A waiter runs again, by an event or a timeout. *)
LEMMA ResumeKeeps ==
  ASSUME MTaskerInv, NEW k \in DOMAIN waiters, NEW status \in {"answer", "timeout"},
         running = Kernel, kernel \in {"loop", "timeouts"}, kernel' \in {"event", "timeouts"},
         Resume(k, status), waiters' = Without(k),
         iter' \in Keys \cup {End}, kernel' = "timeouts" => iter' \in (DOMAIN waiters \ {k}) \cup {End},
         UNCHANGED <<queues, threads, maxtid>>
  PROVE  MTaskerInv'
<1>0. Shape /\ TypeOK /\ RunsAsItself /\ OnePlace /\ AskedFor /\ OwnKey
  BY DEF MTaskerInv, Shape
<1> DEFINE t == waiters[k].tid
<1>1. t \in Tids /\ k \in Keys /\ t # Kernel
  BY <1>0, Constants DEF TypeOK
<1>2. /\ running' = t /\ dtid' = t /\ eventkey' = k
      /\ call' = [call EXCEPT ![t].status = status, ![t].key = k]
  BY DEF Resume
<1>3. DOMAIN waiters' = DOMAIN waiters \ {k} /\ \A j \in DOMAIN waiters' : waiters'[j] = waiters[j]
  BY DEF Without
<1>a. call[t].asked = k
  BY <1>0 DEF AskedFor
<1> HIDE DEF t
<1>4. Shape'
  <2>1. call' \in [Tids -> Calls]
    BY <1>0, <1>1, <1>2 DEF TypeOK, Calls
  <2>2. TypeOK'
    BY <1>0, <1>1, <1>2, <1>3, <2>1 DEF TypeOK, queues
  <2>3. WaitersFinite'
    BY <1>0, <1>3, FS_RemoveElement DEF Shape, WaitersFinite
  <2> QED
    BY <1>0, <1>1, <1>2, <1>3, <2>2, <2>3 DEF Shape, KernelAt, IterInWaiters, ThreadsMade
<1>5. RunsAsItself'
  BY <1>2 DEF RunsAsItself
<1>6. ASSUME NEW u \in Tids
      PROVE  Places(u)' = One(u \in threads')
  <2>1. /\ Occurrences(Runnable, u) \in Nat /\ Occurrences(zombies, u) \in Nat
       /\ Cardinality(WaitsAt(u)) \in Nat
       /\ One(u \in threads) = Occurrences(Runnable, u) + Occurrences(zombies, u)
                                 + Cardinality(WaitsAt(u)) + One(running = u)
    BY <1>0, PlacesBefore
  <2>2. Places(u)' = Occurrences(Runnable', u) + Occurrences(zombies', u)
                      + Cardinality(WaitsAt(u)') + One(running' = u)
    BY PlacesAfter
  <2>3. Runnable' = Runnable
    BY DEF Runnable, queues
  <2>4. Cardinality(WaitsAt(u)') = Cardinality(WaitsAt(u)) - One(t = u)
    BY <1>0, WaitsAtRemove DEF t
  <2>5. One(running' = u) = One(t = u) /\ One(running = u) = 0 /\ One(t = u) \in Nat
    BY <1>2, Constants DEF One
  <2>6. UNCHANGED <<zombies, threads>>
    BY DEF queues
  <2> QED
    BY <2>1, <2>2, <2>3, <2>4, <2>5, <2>6
<1>7. OnePlace'
  BY <1>6 DEF OnePlace, One
<1>8. AskedFor'
  BY <1>0, <1>1, <1>2, <1>3 DEF AskedFor, TypeOK, Calls
<1>9. OwnKey'
  BY <1>0, <1>1, <1>2, <1>a DEF OwnKey, TypeOK, Calls
<1> QED
  BY <1>4, <1>5, <1>7, <1>8, <1>9 DEF MTaskerInv

-----------------------------------------------------------------------------
(* A new tid starts on the run queue and nowhere else. *)
LEMMA MakeThreadKeeps ==
  ASSUME MTaskerInv, MakeThread
  PROVE  MTaskerInv'
<1>0. Shape /\ TypeOK /\ RunsAsItself /\ OnePlace /\ AskedFor /\ OwnKey
  BY DEF MTaskerInv, Shape
<1>1. /\ running = Kernel /\ kernel = "loop"
      /\ threads' = threads \cup {maxtid} /\ runQueue' = Append(runQueue, maxtid)
      /\ maxtid' = maxtid + 1
      /\ UNCHANGED <<zombies, waiters, dtid, running, kernel, iter, eventkey, call>>
  BY DEF MakeThread, InLoop
<1>2. maxtid \in Nat /\ maxtid \in Tids /\ maxtid + 1 \in 0 .. MaxThreads /\ maxtid \notin threads
  BY <1>0, Constants DEF MakeThread, TypeOK, Tids, Shape, ThreadsMade
<1>3. Shape'
  <2>1. runQueue' \in Seq(Tids)
    BY <1>0, <1>1, <1>2, AppendProperties DEF TypeOK
  <2>2. ThreadsMade'
    BY <1>0, <1>1, <1>2 DEF Shape, ThreadsMade
  <2>3. TypeOK'
    BY <1>0, <1>1, <1>2, <2>1 DEF TypeOK
  <2> QED
    BY <1>0, <1>1, <2>2, <2>3 DEF Shape, KernelAt, IterInWaiters, WaitersFinite
<1>4. ASSUME NEW u \in Tids
      PROVE  Places(u)' = One(u \in threads')
  <2>1. /\ Occurrences(Runnable, u) \in Nat /\ Occurrences(zombies, u) \in Nat
       /\ Cardinality(WaitsAt(u)) \in Nat
       /\ One(u \in threads) = Occurrences(Runnable, u) + Occurrences(zombies, u)
                                 + Cardinality(WaitsAt(u)) + One(running = u)
    BY <1>0, PlacesBefore
  <2>2. Places(u)' = Occurrences(Runnable', u) + Occurrences(zombies', u)
                      + Cardinality(WaitsAt(u)') + One(running' = u)
    BY PlacesAfter
  <2>3. Occurrences(Runnable', u) = Occurrences(Runnable, u) + One(maxtid = u)
    BY <1>0, <1>1, <1>2, OccurrencesAppend DEF Runnable, TypeOK
  <2>4. One(u \in threads') = One(u \in threads) + One(maxtid = u)
    BY <1>1, <1>2 DEF One
  <2>5. WaitsAt(u)' = WaitsAt(u) /\ One(running = u) \in Nat /\ One(maxtid = u) \in Nat
    BY <1>1 DEF WaitsAt, One
  <2> QED
    BY <1>1, <2>1, <2>2, <2>3, <2>4, <2>5
<1>5. OnePlace'
  BY <1>4 DEF OnePlace, One
<1> QED
  BY <1>0, <1>1, <1>3, <1>5 DEF MTaskerInv, RunsAsItself, AskedFor, OwnKey

(* schedule runs the head of the queue, which stays there until it is back. *)
LEMMA ScheduleRunKeeps ==
  ASSUME MTaskerInv, ScheduleRun
  PROVE  MTaskerInv'
<1>0. Shape /\ TypeOK /\ RunsAsItself /\ OnePlace /\ AskedFor /\ OwnKey
  BY DEF MTaskerInv, Shape
<1>1. /\ running = Kernel /\ kernel = "loop" /\ runQueue # <<>>
      /\ dtid' = Head(runQueue) /\ running' = Head(runQueue) /\ kernel' = "run"
      /\ UNCHANGED <<runQueue, zombies, threads, maxtid, waiters, iter, eventkey, call>>
  BY DEF ScheduleRun, InLoop, queues
<1>2. runQueue \in Seq(Tids) /\ Head(runQueue) \in Tids /\ Head(runQueue) # Kernel
  BY <1>0, <1>1, HeadTailProperties, Constants DEF TypeOK
<1>3. Shape'
  <2>1. TypeOK'
    BY <1>0, <1>1, <1>2 DEF TypeOK
  <2> QED
    BY <1>0, <1>1, <1>2, <2>1 DEF Shape, KernelAt, IterInWaiters, ThreadsMade, WaitersFinite
<1>4. ASSUME NEW u \in Tids
      PROVE  Places(u)' = One(u \in threads')
  <2>1. /\ Occurrences(Runnable, u) \in Nat /\ Occurrences(zombies, u) \in Nat
       /\ Cardinality(WaitsAt(u)) \in Nat
       /\ One(u \in threads) = Occurrences(Runnable, u) + Occurrences(zombies, u)
                                 + Cardinality(WaitsAt(u)) + One(running = u)
    BY <1>0, PlacesBefore
  <2>2. Places(u)' = Occurrences(Runnable', u) + Occurrences(zombies', u)
                      + Cardinality(WaitsAt(u)') + One(running' = u)
    BY PlacesAfter
  <2>3. Runnable = runQueue /\ Runnable' = Tail(runQueue)
    BY <1>1 DEF Runnable
  <2>4. Occurrences(runQueue, u) = Occurrences(Tail(runQueue), u) + One(Head(runQueue) = u)
    BY <1>1, <1>2, OccurrencesTail
  <2>5. Occurrences(Tail(runQueue), u) \in Nat
    BY <1>1, <1>2, HeadTailProperties, OccurrencesSpots
  <2>6. /\ WaitsAt(u)' = WaitsAt(u) /\ One(running = u) = 0
        /\ One(running' = u) = One(Head(runQueue) = u) /\ One(Head(runQueue) = u) \in Nat
    BY <1>1, Constants DEF WaitsAt, One
  <2> QED
    BY <1>1, <2>1, <2>2, <2>3, <2>4, <2>5, <2>6
<1>5. OnePlace'
  BY <1>4 DEF OnePlace, One
<1> QED
  BY <1>0, <1>1, <1>3, <1>5 DEF MTaskerInv, RunsAsItself, AskedFor, OwnKey

(* A zombie leaves d_threads and its last place at once. *)
LEMMA ScheduleReapKeeps ==
  ASSUME MTaskerInv, ScheduleReap
  PROVE  MTaskerInv'
<1>0. Shape /\ TypeOK /\ RunsAsItself /\ OnePlace /\ AskedFor /\ OwnKey
  BY DEF MTaskerInv, Shape
<1>1. /\ running = Kernel /\ kernel = "loop" /\ zombies # <<>>
      /\ threads' = threads \ {Head(zombies)} /\ zombies' = Tail(zombies)
      /\ UNCHANGED <<runQueue, maxtid, waiters, dtid, running, kernel, iter, eventkey, call>>
  BY DEF ScheduleReap, InLoop
<1>2. zombies \in Seq(Tids) /\ Head(zombies) \in Tids /\ Tail(zombies) \in Seq(Tids)
  BY <1>0, <1>1, HeadTailProperties DEF TypeOK
<1>3. Shape'
  <2>1. TypeOK'
    BY <1>0, <1>1, <1>2 DEF TypeOK
  <2> QED
    BY <1>0, <1>1, <2>1 DEF Shape, KernelAt, IterInWaiters, ThreadsMade, WaitersFinite
<1>4. ASSUME NEW u \in Tids
      PROVE  Places(u)' = One(u \in threads')
  <2>1. /\ Occurrences(Runnable, u) \in Nat /\ Occurrences(zombies, u) \in Nat
       /\ Cardinality(WaitsAt(u)) \in Nat
       /\ One(u \in threads) = Occurrences(Runnable, u) + Occurrences(zombies, u)
                                 + Cardinality(WaitsAt(u)) + One(running = u)
    BY <1>0, PlacesBefore
  <2>2. Places(u)' = Occurrences(Runnable', u) + Occurrences(zombies', u)
                      + Cardinality(WaitsAt(u)') + One(running' = u)
    BY PlacesAfter
  <2>3. Runnable' = Runnable /\ WaitsAt(u)' = WaitsAt(u) /\ One(running = u) \in Nat
    BY <1>1 DEF Runnable, WaitsAt, One
  <2>4. Occurrences(zombies, u) = Occurrences(zombies', u) + One(Head(zombies) = u)
    BY <1>1, <1>2, OccurrencesTail
  <2>5. Occurrences(zombies', u) \in Nat
    BY <1>1, <1>2, OccurrencesSpots
  <2>6. CASE Head(zombies) = u
    <3>1. One(Head(zombies) = u) = 1 /\ One(u \in threads') = 0 /\ One(u \in threads) \in {0, 1}
      BY <1>1, <2>6 DEF One
    <3> QED
      BY <1>1, <2>1, <2>2, <2>3, <2>4, <2>5, <3>1
  <2>7. CASE Head(zombies) # u
    <3>1. One(Head(zombies) = u) = 0 /\ One(u \in threads') = One(u \in threads)
      BY <1>1, <2>7 DEF One
    <3> QED
      BY <1>1, <2>1, <2>2, <2>3, <2>4, <2>5, <3>1
  <2> QED
    BY <2>6, <2>7
<1>5. OnePlace'
  BY <1>4 DEF OnePlace, One
<1> QED
  BY <1>0, <1>1, <1>3, <1>5 DEF MTaskerInv, RunsAsItself, AskedFor, OwnKey

(* Time passes: only the time that waiters have left changes. *)
LEMMA TickKeeps ==
  ASSUME MTaskerInv, Tick
  PROVE  MTaskerInv'
<1>0. Shape /\ TypeOK /\ RunsAsItself /\ OnePlace /\ AskedFor /\ OwnKey
  BY DEF MTaskerInv, Shape
<1>1. /\ waiters' = [k \in DOMAIN waiters |->
                       [waiters[k] EXCEPT !.left = IF @ >= 0 THEN @ - 1 ELSE @]]
      /\ UNCHANGED <<runQueue, zombies, threads, maxtid, dtid, running, kernel, iter, eventkey, call>>
  BY DEF Tick, queues
<1>2. ASSUME NEW k \in DOMAIN waiters
      PROVE  waiters'[k] \in [left : Lefts, tid : Tids] /\ waiters'[k].tid = waiters[k].tid
  <2>1. waiters[k] \in [left : Lefts, tid : Tids]
    BY <1>0 DEF TypeOK
  <2>2. waiters'[k] = [waiters[k] EXCEPT !.left = IF @ >= 0 THEN @ - 1 ELSE @]
    BY <1>1
  <2>3. (IF waiters[k].left >= 0 THEN waiters[k].left - 1 ELSE waiters[k].left) \in Lefts
    <3>1. CASE waiters[k].left \in {Forever, -1}
      BY <3>1 DEF Lefts, Forever
    <3>2. CASE waiters[k].left \in Nat
      <4>1. PICK timeout \in Timeouts : waiters[k].left <= timeout
        BY <2>1, <3>2 DEF Lefts, Forever
      <4>2. CASE waiters[k].left = 0
        BY <4>2 DEF Lefts
      <4>3. CASE waiters[k].left # 0
        <5>1. waiters[k].left - 1 \in Nat /\ waiters[k].left - 1 <= timeout
          BY <3>2, <4>1, <4>3, Constants
        <5> QED
          BY <3>2, <5>1 DEF Lefts
      <4> QED
        BY <4>2, <4>3
    <3> QED
      BY <2>1, <3>1, <3>2 DEF Lefts
  <2> QED
    BY <2>1, <2>2, <2>3
<1>3. DOMAIN waiters' = DOMAIN waiters
  BY <1>1
<1>4. Shape'
  <2>1. TypeOK'
    BY <1>0, <1>1, <1>2, <1>3 DEF TypeOK
  <2> QED
    BY <1>0, <1>1, <1>3, <2>1 DEF Shape, KernelAt, IterInWaiters, ThreadsMade, WaitersFinite
<1>5. ASSUME NEW u \in Tids
      PROVE  Places(u)' = One(u \in threads')
  <2>1. /\ Occurrences(Runnable, u) \in Nat /\ Occurrences(zombies, u) \in Nat
       /\ Cardinality(WaitsAt(u)) \in Nat
       /\ One(u \in threads) = Occurrences(Runnable, u) + Occurrences(zombies, u)
                                 + Cardinality(WaitsAt(u)) + One(running = u)
    BY <1>0, PlacesBefore
  <2>2. Places(u)' = Occurrences(Runnable', u) + Occurrences(zombies', u)
                      + Cardinality(WaitsAt(u)') + One(running' = u)
    BY PlacesAfter
  <2>3. Runnable' = Runnable
    BY <1>1 DEF Runnable
  <2>4. WaitsAt(u)' = WaitsAt(u)
    BY <1>2, <1>3 DEF WaitsAt
  <2> QED
    BY <1>1, <2>1, <2>2, <2>3, <2>4
<1>6. OnePlace'
  BY <1>5 DEF OnePlace, One
<1>7. AskedFor'
  BY <1>0, <1>1, <1>2, <1>3 DEF AskedFor
<1> QED
  BY <1>0, <1>1, <1>4, <1>6, <1>7 DEF MTaskerInv, RunsAsItself, OwnKey

(* Nothing but the kernel's place and its iterator changes. *)
LEMMA KernelMoves ==
  ASSUME MTaskerInv, iter' \in Keys \cup {End},
         \/ running = Kernel /\ kernel' = "loop"
         \/ running = Kernel /\ kernel' = "timeouts" /\ iter' \in DOMAIN waiters \cup {End}
         \/ UNCHANGED <<kernel, iter>>,
         UNCHANGED <<queues, threads, maxtid, waiters, dtid, running, eventkey, call>>
  PROVE  MTaskerInv'
<1>0. Shape /\ TypeOK /\ RunsAsItself /\ OnePlace /\ AskedFor /\ OwnKey
  BY DEF MTaskerInv, Shape
<1>1. TypeOK'
  BY <1>0 DEF TypeOK, queues
<1>2. KernelAt' /\ IterInWaiters' /\ ThreadsMade' /\ WaitersFinite'
  BY <1>0 DEF Shape, KernelAt, IterInWaiters, ThreadsMade, WaitersFinite, queues
<1>3. Runnable' = Runnable
  BY <1>0 DEF Runnable, queues, Shape, KernelAt
<1>4. OnePlace'
  BY <1>0, <1>3 DEF OnePlace, Places, queues
<1> QED
  BY <1>0, <1>1, <1>2, <1>4 DEF MTaskerInv, Shape, RunsAsItself, AskedFor, OwnKey

(* schedule's loop over the waiters: it begins, wakes one, or ends. *)
LEMMA TimeoutsKeep ==
  ASSUME MTaskerInv, ScheduleTimeouts \/ TimeoutStep
  PROVE  MTaskerInv'
<1>0. Shape /\ TypeOK
  BY DEF MTaskerInv, Shape
<1>1. CASE ScheduleTimeouts
  <2>1. PICK k \in DOMAIN waiters : iter' = k
    BY <1>1 DEF ScheduleTimeouts
  <2>2. k \in Keys
    BY <1>0 DEF TypeOK
  <2> QED
    BY <1>1, <2>1, <2>2, KernelMoves DEF ScheduleTimeouts, InLoop
<1>2. CASE TimeoutStep /\ iter # End /\ waiters[iter].left = -1
  <2>1. iter \in DOMAIN waiters /\ kernel = "timeouts" /\ running = Kernel
    BY <1>0, <1>2 DEF TimeoutStep, Shape, IterInWaiters
  <2>2. /\ Resume(iter, "timeout") /\ waiters' = Without(iter)
        /\ UNCHANGED <<kernel, queues, threads, maxtid>>
    BY <1>2 DEF TimeoutStep
  <2>3. iter' \in (DOMAIN waiters \ {iter}) \cup {End}
    BY <1>2 DEF TimeoutStep
  <2>4. iter' \in Keys \cup {End}
    BY <1>0, <2>3 DEF TypeOK
  <2> QED
    BY <2>1, <2>2, <2>3, <2>4, ResumeKeeps
<1>3. CASE TimeoutStep /\ ~(iter # End /\ waiters[iter].left = -1)
  <2>1. /\ running = Kernel /\ kernel = "timeouts"
        /\ UNCHANGED <<queues, threads, maxtid, waiters, dtid, running, eventkey, call>>
        /\ \/ kernel' = "loop" /\ iter' = End
           \/ UNCHANGED <<kernel, iter>>
    BY <1>3 DEF TimeoutStep
  <2>2. iter \in Keys \cup {End}
    BY <1>0 DEF TypeOK
  <2> QED
    BY <2>1, <2>2, KernelMoves
<1> QED
  BY <1>1, <1>2, <1>3

-----------------------------------------------------------------------------
LEMMA MTaskerInductive == MTaskerInv /\ [Next]_vars => MTaskerInv'
<1> SUFFICES ASSUME MTaskerInv, [Next]_vars PROVE MTaskerInv'
  OBVIOUS
<1>1. ASSUME NEW t \in Tids, ThreadStep(t)
      PROVE  MTaskerInv'
  BY <1>1, YieldKeeps, ThreadEndsKeeps, WaitEventKeeps DEF ThreadStep
<1>2. ASSUME NEW k \in Keys, SendEvent(k)
      PROVE  MTaskerInv'
  <2>1. iter \in Keys \cup {End}
    BY DEF MTaskerInv, Shape, TypeOK
  <2>2. /\ running = Kernel /\ kernel = "loop" /\ k \in DOMAIN waiters
        /\ Resume(k, "answer") /\ waiters' = Without(k) /\ kernel' = "event"
        /\ UNCHANGED <<queues, threads, maxtid, iter>>
    BY <1>2 DEF SendEvent, InLoop
  <2> QED
    BY <2>1, <2>2, ResumeKeeps
<1>3. CASE UNCHANGED vars
  <2>1. iter \in Keys \cup {End}
    BY DEF MTaskerInv, Shape, TypeOK
  <2> QED
    BY <1>3, <2>1, KernelMoves DEF vars
<1> QED
  BY <1>1, <1>2, <1>3, MakeThreadKeeps, ScheduleRunKeeps, ScheduleReapKeeps, TimeoutsKeep, TickKeeps
  DEF Next, Schedule

LEMMA MTaskerInit == Init => MTaskerInv
<1> SUFFICES ASSUME Init PROVE MTaskerInv
  OBVIOUS
<1>1. eventkey \in Keys /\ 0 \in Tids
  BY Constants DEF Init, Tids
<1>2. DOMAIN waiters = {} /\ runQueue \in Seq(Tids) /\ zombies \in Seq(Tids)
  BY EmptySeq DEF Init
<1>3. call \in [Tids -> Calls]
  BY <1>1 DEF Init, Calls
<1>4. TypeOK
  BY <1>1, <1>2, <1>3, Constants DEF Init, TypeOK
<1>5. Shape
  BY <1>2, <1>4, FS_EmptySet DEF Shape, Init, KernelAt, IterInWaiters, ThreadsMade, WaitersFinite
<1>6. ASSUME NEW u \in Tids
      PROVE  Places(u) = 0
  <2>1. Runnable = <<>> /\ zombies = <<>> /\ running # u
    BY Constants DEF Init, Runnable
  <2>2. Spots(<<>>, u) = {}
    BY EmptySeq DEF Spots
  <2>3. Occurrences(<<>>, u) = 0
    BY <2>2, EmptySeq, OccurrencesSpots, FS_EmptySet
  <2>4. WaitsAt(u) = {}
    BY <1>2 DEF WaitsAt
  <2>5. Cardinality(WaitsAt(u)) = 0
    BY <2>4, FS_EmptySet
  <2> QED
    BY <1>5, <2>1, <2>3, <2>5, PlacesNumbers DEF One
<1>7. OnePlace
  BY <1>6 DEF OnePlace, Init
<1> QED
  BY <1>2, <1>5, <1>7 DEF MTaskerInv, Init, RunsAsItself, AskedFor, OwnKey

(* Every variable has its type; the bound on the threads is makeThread's guard in the model. *)
THEOREM TypeCorrect == Spec => []TypeOK
<1>1. MTaskerInv => TypeOK
  BY DEF MTaskerInv, Shape
<1> QED
  BY <1>1, MTaskerInit, MTaskerInductive, PTL DEF Spec

(***************************************************************************)
(* d_tid names the thread that runs, whichever of the three ways it got    *)
(* the processor, for any number of threads, keys and timeouts.            *)
(***************************************************************************)
THEOREM RunsAsItselfSafe == Spec => []RunsAsItself
<1>1. MTaskerInv => RunsAsItself
  BY DEF MTaskerInv
<1> QED
  BY <1>1, MTaskerInit, MTaskerInductive, PTL DEF Spec

(***************************************************************************)
(* No thread is ever lost, queued twice, or resumed while it is somewhere  *)
(* else: every thread of d_threads has one place, all others have none.    *)
(***************************************************************************)
THEOREM OnePlaceSafe == Spec => []OnePlace
<1>1. MTaskerInv => OnePlace
  BY DEF MTaskerInv
<1> QED
  BY <1>1, MTaskerInit, MTaskerInductive, PTL DEF Spec

(* waitEvent comes back with the key it was called with, never another's. *)
THEOREM OwnKeySafe == Spec => []OwnKey
<1>1. MTaskerInv => OwnKey
  BY DEF MTaskerInv
<1> QED
  BY <1>1, MTaskerInit, MTaskerInductive, PTL DEF Spec
-----------------------------------------------------------------------------
(***************************************************************************)
(* The POSIX threads of the recursor, each with an MTasker of its own, and *)
(* the pipes between them, for any number of threads and any capacity: a   *)
(* broadcast runs once in every thread, and what thread 0 reads back is    *)
(* the answer to it.                                                       *)
(***************************************************************************)
(* The types. *)
Typed ==
  /\ toThread \in [Threads -> Seq(Nat)] /\ fromThread \in [Threads -> Seq(Nat)]
  /\ thread \in [Others -> [pc : {"loop", "answer", "ended"}, call : Nat]]
  /\ ran \in [Threads -> Nat]
  /\ caller \in [pc : {"loop", "write", "read", "send"}, n : Nat, call : Nat]
  /\ caller.pc \in {"write", "read"} => caller.n < NumThreads /\ caller.call # 0
  /\ caller.pc = "read" => caller.n \in Others
  /\ counter \in Nat

(***************************************************************************)
(* Where the one broadcast is that may be under way: behind the questions  *)
(* in the pipe to the thread, in its hands, where it ends with the thread  *)
(* when that dies, or in the pipe back; a thread that thread 0 does not    *)
(* wait for has questions only.                                            *)
(***************************************************************************)
OnlyQuestions(t) == \A i \in 1 .. Len(toThread[t]) : toThread[t][i] = Question
Quiet(t) == OnlyQuestions(t) /\ thread[t].pc # "answer" /\ fromThread[t] = <<>>

Sent(t) ==
  /\ toThread[t] # <<>> /\ toThread[t][Len(toThread[t])] = caller.call
  /\ \A i \in 1 .. Len(toThread[t]) - 1 : toThread[t][i] = Question
  /\ thread[t].pc # "answer" /\ fromThread[t] = <<>> /\ ran[t] = 0
Running(t) ==
  /\ OnlyQuestions(t)
  /\ thread[t].pc \in {"answer", "ended"}
  /\ thread[t].pc = "answer" => thread[t].call = caller.call
  /\ fromThread[t] = <<>> /\ ran[t] = 1
Answered(t) ==
  OnlyQuestions(t) /\ thread[t].pc # "answer" /\ fromThread[t] = <<caller.call>> /\ ran[t] = 1

Asking(t) == caller.pc = "read" /\ caller.n = t
InPlace(t) == IF Asking(t) THEN Sent(t) \/ Running(t) \/ Answered(t) ELSE Quiet(t)
OneCall == \A t \in Others : InPlace(t)

(* The threads before the caller's have run the function, those behind it have not. *)
RanInOrder ==
  /\ caller.pc \in {"loop", "send"} /\ caller.call > 0 => \A t \in Threads : ran[t] = 1
  /\ caller.pc \in {"write", "read"} =>
       \A t \in Threads : (t < caller.n => ran[t] = 1) /\ (t > caller.n => ran[t] = 0)
  /\ caller.pc = "write" => ran[caller.n] = 0

PipesInv == Typed /\ OneCall /\ RanInOrder

-----------------------------------------------------------------------------
(* The threads as numbers, thread 0 one of them. *)
LEMMA ThreadNumbers ==
  /\ NumThreads \in Nat /\ NumThreads > 0 /\ 0 \in Threads /\ 0 \notin Others
  /\ \A t \in Threads : t \in Nat /\ t < NumThreads
  /\ \A t \in Others : t \in Threads /\ t # 0
BY PipesAssumption DEF Threads, Others

(* A broadcast written behind questions only. *)
LEMMA AppendSent ==
  ASSUME NEW s \in Seq(Nat), NEW c \in Nat, \A i \in 1 .. Len(s) : s[i] = Question
  PROVE  /\ Append(s, c) \in Seq(Nat) /\ Append(s, c) # <<>>
         /\ Append(s, c)[Len(Append(s, c))] = c
         /\ \A i \in 1 .. Len(Append(s, c)) - 1 : Append(s, c)[i] = Question
<1>1. Append(s, c) \in Seq(Nat) /\ Append(s, c) # <<>> /\ Len(Append(s, c)) = Len(s) + 1 /\ Len(s) \in Nat
  BY AppendProperties
<1>2. Append(s, c)[Len(s) + 1] = c /\ \A i \in 1 .. Len(s) : Append(s, c)[i] = s[i]
  BY AppendProperties
<1> QED
  BY <1>1, <1>2

(* One more question, or one less. *)
LEMMA QuestionsOnly ==
  ASSUME NEW s \in Seq(Nat), \A i \in 1 .. Len(s) : s[i] = Question
  PROVE  /\ \A i \in 1 .. Len(Append(s, Question)) :
              Append(s, Question)[i] = Question
         /\ s # <<>> => Head(s) = Question /\ \A i \in 1 .. Len(Tail(s)) : Tail(s)[i] = Question
<1>1. \A i \in 1 .. Len(Append(s, Question)) : Append(s, Question)[i] = Question
  <2>1. Len(Append(s, Question)) = Len(s) + 1 /\ Len(s) \in Nat
    OBVIOUS
  <2>2. /\ Append(s, Question)[Len(s) + 1] = Question
        /\ \A i \in 1 .. Len(s) : Append(s, Question)[i] = s[i]
    BY DEF Question
  <2> QED
    BY <2>1, <2>2
<1>2. ASSUME s # <<>> PROVE Head(s) = Question /\ \A i \in 1 .. Len(Tail(s)) : Tail(s)[i] = Question
  BY <1>2, HeadTailProperties
<1> QED
  BY <1>1, <1>2

(* What handlePipeRequest takes is a question before the broadcast, or the broadcast itself. *)
LEMMA TailSent ==
  ASSUME NEW s \in Seq(Nat), NEW c \in Nat, c # Question, s # <<>>, s[Len(s)] = c,
         \A i \in 1 .. Len(s) - 1 : s[i] = Question
  PROVE  /\ Head(s) = Question \/ Head(s) = c
         /\ Head(s) = Question => /\ Tail(s) # <<>> /\ Tail(s)[Len(Tail(s))] = c
                                  /\ \A i \in 1 .. Len(Tail(s)) - 1 : Tail(s)[i] = Question
         /\ Head(s) # Question => \A i \in 1 .. Len(Tail(s)) : Tail(s)[i] = Question
<1>1. /\ Len(s) \in Nat /\ Len(s) >= 1 /\ Len(Tail(s)) = Len(s) - 1 /\ Head(s) = s[1]
      /\ Tail(s) \in Seq(Nat) /\ \A i \in 1 .. Len(Tail(s)) : Tail(s)[i] = s[i + 1]
  BY HeadTailProperties
<1>2. CASE Len(s) = 1
  <2>1. Head(s) = c /\ Len(Tail(s)) = 0
    BY <1>1, <1>2
  <2> QED
    BY <2>1
<1>3. CASE Len(s) > 1
  <2>1. 1 \in 1 .. Len(s) - 1 /\ Len(s) - 1 \in 1 .. Len(Tail(s)) /\ Len(s) - 1 + 1 = Len(s)
    BY <1>1, <1>3
  <2>2. Head(s) = Question /\ Tail(s)[Len(Tail(s))] = c
    BY <1>1, <2>1
  <2>3. Tail(s) # <<>>
    <3>1. Len(Tail(s)) # 0
      BY <1>1, <1>3
    <3> QED
      BY <1>1, <3>1, EmptySeq
  <2>4. \A i \in 1 .. Len(Tail(s)) - 1 : Tail(s)[i] = Question
    <3> TAKE i \in 1 .. Len(Tail(s)) - 1
    <3>1. i \in 1 .. Len(Tail(s)) /\ i + 1 \in 1 .. Len(s) - 1
      BY <1>1
    <3> QED
      BY <1>1, <3>1
  <2> QED
    BY <2>2, <2>3, <2>4
<1> QED
  BY <1>1, <1>2, <1>3

-----------------------------------------------------------------------------
(* What a step leaves alone of another thread than its own. *)
LEMMA OthersKept ==
  ASSUME OneCall, NEW t \in Others, Asking(t)' <=> Asking(t), Asking(t) => UNCHANGED <<caller, ran[t]>>,
         UNCHANGED <<toThread[t], fromThread[t], thread[t]>>
  PROVE  InPlace(t)'
<1>1. CASE Asking(t)
  BY <1>1 DEF OneCall, InPlace, Sent, Running, Answered, OnlyQuestions
<1>2. CASE ~Asking(t)
  BY <1>2 DEF OneCall, InPlace, Quiet, OnlyQuestions
<1> QED
  BY <1>1, <1>2

(* Thread 0 on its own: a broadcast or a question begins, and it runs the function itself. *)
LEMMA CallerKeeps ==
  ASSUME PipesInv, Broadcast \/ RunSelf \/ Distribute
  PROVE  PipesInv'
<1>0. Typed /\ OneCall /\ RanInOrder /\ UNCHANGED <<toThread, fromThread, thread>>
  BY DEF PipesInv, Broadcast, RunSelf, Distribute, pipes
<1>1. caller.pc # "read" /\ caller'.pc # "read" /\ Typed' /\ RanInOrder'
  <2>1. CASE Broadcast
    <3>1. /\ caller.pc = "loop" /\ caller' = [pc |-> "write", n |-> 0, call |-> caller.call + 1]
          /\ ran' = [t \in Threads |-> 0]
          /\ counter' = counter
      BY <2>1 DEF Broadcast
    <3>2. Typed'
      BY <1>0, <3>1, ThreadNumbers DEF Typed
    <3>3. RanInOrder'
      BY <3>1, ThreadNumbers DEF RanInOrder
    <3> QED
      BY <3>1, <3>2, <3>3
  <2>2. CASE RunSelf
    <3>1. /\ caller.pc = "write" /\ caller.n = 0 /\ ran' = [ran EXCEPT ![0] = @ + 1]
          /\ caller' = [caller EXCEPT !.pc = IF 1 = NumThreads THEN "loop" ELSE "write", !.n = 1]
          /\ counter' = counter
      BY <2>2 DEF RunSelf, Advance
    <3>2. caller.call \in Nat /\ caller.call # 0 /\ ran \in [Threads -> Nat] /\ ran[0] = 0
      BY <1>0, <3>1 DEF Typed, RanInOrder
    <3>3. /\ ran' \in [Threads -> Nat] /\ ran'[0] = 1 /\ \A t \in Threads : t # 0 => ran'[t] = 0
      BY <1>0, <3>1, <3>2, ThreadNumbers DEF RanInOrder
    <3>4. /\ caller'.pc = (IF 1 = NumThreads THEN "loop" ELSE "write")
          /\ caller'.n = 1 /\ caller'.call = caller.call
          /\ caller' \in [pc : {"loop", "write", "read", "send"}, n : Nat, call : Nat]
      BY <1>0, <3>1 DEF Typed
    <3>5. Typed'
      BY <1>0, <3>1, <3>2, <3>3, <3>4, ThreadNumbers DEF Typed
    <3>6. \A t \in Threads : (t < 1 => t = 0) /\ (t > 1 => t # 0) /\ (1 = NumThreads => t = 0)
      BY ThreadNumbers
    <3>7. RanInOrder'
      <4>1. 1 # NumThreads => 1 \in Threads
        BY ThreadNumbers DEF Threads
      <4> QED
        BY <3>3, <3>4, <3>6, <4>1 DEF RanInOrder
    <3> QED
      BY <3>1, <3>4, <3>5, <3>7
  <2>3. CASE Distribute
    <3>1. /\ caller.pc = "loop" /\ counter' = counter + 1 /\ ran' = ran
          /\ caller' = [caller EXCEPT !.pc = "send", !.n = 1 + (counter' % (NumThreads - 1))]
      BY <2>3 DEF Distribute
    <3>2. NumThreads - 1 \in Nat /\ NumThreads - 1 > 0 /\ counter' \in Nat
      BY <1>0, <2>3, <3>1, PipesAssumption DEF Typed, Distribute
    <3>3. 1 + (counter' % (NumThreads - 1)) \in Nat
      BY <3>2
    <3>4. /\ caller' \in [pc : {"loop", "write", "read", "send"}, n : Nat, call : Nat]
          /\ caller'.pc = "send" /\ caller'.call = caller.call
      BY <1>0, <3>1, <3>3 DEF Typed
    <3>5. Typed'
      BY <1>0, <3>1, <3>2, <3>4 DEF Typed
    <3>6. RanInOrder'
      BY <1>0, <3>1, <3>4 DEF RanInOrder
    <3> QED
      BY <3>1, <3>4, <3>5, <3>6
  <2> QED
    BY <2>1, <2>2, <2>3
<1>2. \A t \in Others : ~Asking(t) /\ ~Asking(t)'
  BY <1>1 DEF Asking
<1>3. OneCall'
  BY <1>0, <1>2, OthersKept DEF OneCall
<1> QED
  BY <1>1, <1>3 DEF PipesInv

-----------------------------------------------------------------------------
(* A step between thread 0 and one other thread, for the rest of them. *)
LEMMA OneStep ==
  ASSUME PipesInv, Typed', RanInOrder', NEW n \in Others,
         InPlace(n)',
         \A t \in Others \ {n} : /\ ~Asking(t) \/ UNCHANGED <<caller, ran[t]>>
                                 /\ Asking(t)' <=> Asking(t)
                                 /\ UNCHANGED <<toThread[t], fromThread[t], thread[t]>>
  PROVE  PipesInv'
<1>1. ASSUME NEW t \in Others \ {n}
      PROVE  InPlace(t)'
  BY OthersKept DEF PipesInv
<1>2. OneCall'
  BY <1>1 DEF OneCall
<1> QED
  BY <1>2 DEF PipesInv

(* Thread 0 writes the broadcast to a thread, behind the questions it has. *)
LEMMA WriteToKeeps ==
  ASSUME PipesInv, NEW n \in Others, WriteTo(n)
  PROVE  PipesInv'
<1>0. Typed /\ OneCall /\ RanInOrder
  BY DEF PipesInv
<1>1. /\ caller.pc = "write" /\ caller.n = n /\ UNCHANGED <<fromThread, thread, ran, counter>>
      /\ toThread' = [toThread EXCEPT ![n] = Append(@, caller.call)]
      /\ caller' = [caller EXCEPT !.pc = "read"]
  BY DEF WriteTo
<1>2. n \in Threads /\ toThread[n] \in Seq(Nat) /\ caller.call \in Nat /\ Quiet(n)
  BY <1>0, <1>1, ThreadNumbers DEF Typed, OneCall, InPlace, Asking
<1>3. caller' \in [pc : {"loop", "write", "read", "send"}, n : Nat, call : Nat]
      /\ caller'.pc = "read" /\ caller'.n = n /\ caller'.call = caller.call
  BY <1>0, <1>1 DEF Typed
<1>4. /\ toThread' \in [Threads -> Seq(Nat)] /\ toThread'[n] = Append(toThread[n], caller.call)
      /\ \A t \in Others \ {n} : toThread'[t] = toThread[t]
  BY <1>0, <1>1, <1>2, AppendProperties, ThreadNumbers DEF Typed
<1>5. Typed'
  BY <1>0, <1>1, <1>3, <1>4 DEF Typed
<1>6. RanInOrder' /\ ran'[n] = 0
  BY <1>0, <1>1, <1>3 DEF RanInOrder
<1>7. InPlace(n)'
  BY <1>1, <1>2, <1>3, <1>4, <1>6, AppendSent DEF InPlace, Asking, Sent, Quiet, OnlyQuestions
<1>8. \A t \in Others \ {n} : ~Asking(t) /\ ~Asking(t)'
  BY <1>1, <1>3 DEF Asking
<1> QED
  BY <1>1, <1>4, <1>5, <1>6, <1>7, <1>8, OneStep

(* It reads the answer, which leaves the pipe back empty, and turns to the next. *)
LEMMA ReadFromKeeps ==
  ASSUME PipesInv, NEW n \in Others, ReadFrom(n)
  PROVE  PipesInv'
<1>0. Typed /\ OneCall /\ RanInOrder
  BY DEF PipesInv
<1>1. /\ caller.pc = "read" /\ caller.n = n /\ UNCHANGED <<toThread, thread, ran, counter>>
      /\ fromThread[n] # <<>> /\ fromThread' = [fromThread EXCEPT ![n] = Tail(@)]
      /\ caller' = [caller EXCEPT !.pc = IF n + 1 = NumThreads THEN "loop" ELSE "write", !.n = n + 1]
  BY DEF ReadFrom, Advance
<1>2. n \in Threads /\ n \in Nat /\ n < NumThreads /\ NumThreads \in Nat
  BY ThreadNumbers
<1>3. Asking(n) /\ Answered(n)
  BY <1>0, <1>1 DEF OneCall, InPlace, Asking, Sent, Running
<1>4. /\ caller' \in [pc : {"loop", "write", "read", "send"}, n : Nat, call : Nat]
      /\ caller'.pc = (IF n + 1 = NumThreads THEN "loop" ELSE "write")
      /\ caller'.n = n + 1 /\ caller'.call = caller.call /\ caller.call # 0
  <2>1. caller \in [pc : {"loop", "write", "read", "send"}, n : Nat, call : Nat] /\ caller.call # 0
    BY <1>0, <1>1 DEF Typed
  <2>2. n + 1 \in Nat
    BY <1>2
  <2> QED
    BY <1>1, <2>1, <2>2
<1>5. /\ fromThread' \in [Threads -> Seq(Nat)] /\ fromThread'[n] = <<>>
      /\ \A t \in Others \ {n} : fromThread'[t] = fromThread[t]
  <2>1. caller.call \in Nat /\ fromThread[n] = <<caller.call>> /\ Tail(<<caller.call>>) = <<>>
    BY <1>0, <1>3 DEF Typed, Answered
  <2>2. <<>> \in Seq(Nat)
    OBVIOUS
  <2> QED
    BY <1>0, <1>1, <1>2, <2>1, <2>2, ThreadNumbers DEF Typed
<1>6. Typed'
  BY <1>0, <1>1, <1>2, <1>4, <1>5 DEF Typed
<1>7. RanInOrder'
  <2>1. \A t \in Threads : (t <= n => ran'[t] = 1) /\ (t > n => ran'[t] = 0)
    BY <1>0, <1>1, <1>2, <1>3, ThreadNumbers DEF RanInOrder, Answered
  <2>2. CASE n + 1 = NumThreads
    <3>1. \A t \in Threads : t <= n
      BY <1>2, <2>2, ThreadNumbers
    <3> QED
      BY <1>4, <2>1, <2>2, <3>1 DEF RanInOrder
  <2>3. CASE n + 1 # NumThreads
    <3>1. \A t \in Threads : (t < n + 1 => t <= n) /\ (t > n + 1 => t > n)
      BY <1>2, ThreadNumbers
    <3>2. n + 1 \in Threads /\ n + 1 > n
      BY <1>2, <2>3 DEF Threads
    <3> QED
      BY <1>4, <2>1, <2>3, <3>1, <3>2 DEF RanInOrder
  <2> QED
    BY <2>2, <2>3
<1>8. InPlace(n)'
  BY <1>1, <1>3, <1>4, <1>5 DEF InPlace, Asking, Answered, Quiet, OnlyQuestions
<1>9. \A t \in Others \ {n} : ~Asking(t) /\ ~Asking(t)'
  BY <1>1, <1>4 DEF Asking
<1> QED
  BY <1>1, <1>5, <1>6, <1>7, <1>8, <1>9, OneStep

(* A question of a client goes to a thread. *)
LEMMA SendKeeps ==
  ASSUME PipesInv, NEW n \in Others, Send(n)
  PROVE  PipesInv'
<1>0. Typed /\ OneCall /\ RanInOrder
  BY DEF PipesInv
<1>1. /\ caller.pc = "send" /\ UNCHANGED <<fromThread, thread, ran, counter>>
      /\ toThread' = [toThread EXCEPT ![n] = Append(@, Question)]
      /\ caller' = [caller EXCEPT !.pc = "loop"]
  BY DEF Send
<1>2. n \in Threads /\ toThread[n] \in Seq(Nat) /\ Question \in Nat /\ Quiet(n)
  BY <1>0, <1>1, ThreadNumbers DEF Typed, OneCall, InPlace, Asking, Question
<1>3. caller' \in [pc : {"loop", "write", "read", "send"}, n : Nat, call : Nat]
      /\ caller'.pc = "loop" /\ caller'.call = caller.call
  BY <1>0, <1>1 DEF Typed
<1>4. /\ toThread' \in [Threads -> Seq(Nat)] /\ toThread'[n] = Append(toThread[n], Question)
      /\ \A t \in Others \ {n} : toThread'[t] = toThread[t]
  BY <1>0, <1>1, <1>2, AppendProperties, ThreadNumbers DEF Typed
<1>5. Typed' /\ RanInOrder'
  BY <1>0, <1>1, <1>3, <1>4 DEF Typed, RanInOrder
<1>6. InPlace(n)'
  BY <1>1, <1>2, <1>3, <1>4, QuestionsOnly DEF InPlace, Asking, Quiet, OnlyQuestions
<1>7. \A t \in Others \ {n} : ~Asking(t) /\ ~Asking(t)'
  BY <1>1, <1>3 DEF Asking
<1> QED
  BY <1>1, <1>4, <1>5, <1>6, <1>7, OneStep

(* handlePipeRequest takes a question, or the broadcast and runs it. *)
LEMMA HandlePipeRequestKeeps ==
  ASSUME PipesInv, NEW n \in Others, HandlePipeRequest(n)
  PROVE  PipesInv'
<1>0. Typed /\ OneCall /\ RanInOrder /\ InPlace(n) /\ n \in Threads
  BY ThreadNumbers DEF PipesInv, OneCall
<1>1. /\ thread[n].pc = "loop" /\ toThread[n] # <<>> /\ UNCHANGED <<fromThread, caller, counter>>
      /\ toThread' = [toThread EXCEPT ![n] = Tail(@)]
      /\ IF Head(toThread[n]) = Question THEN UNCHANGED <<thread, ran>>
         ELSE /\ thread' = [thread EXCEPT ![n].pc = "answer", ![n].call = Head(toThread[n])]
              /\ ran' = [ran EXCEPT ![n] = @ + 1]
  BY DEF HandlePipeRequest
<1>2. toThread[n] \in Seq(Nat) /\ Tail(toThread[n]) \in Seq(Nat) /\ Head(toThread[n]) \in Nat
  BY <1>0, <1>1, HeadTailProperties DEF Typed
<1>3. /\ toThread' \in [Threads -> Seq(Nat)] /\ toThread'[n] = Tail(toThread[n])
      /\ \A t \in Others \ {n} : toThread'[t] = toThread[t]
  BY <1>0, <1>1, <1>2, ThreadNumbers DEF Typed
<1>4. \A t \in Others : Asking(t)' <=> Asking(t)
  BY <1>1 DEF Asking
<1>5. CASE Head(toThread[n]) = Question
  <2>1. UNCHANGED <<thread, ran>>
    BY <1>1, <1>5
  <2>2. Typed' /\ RanInOrder'
    BY <1>0, <1>1, <1>3, <2>1 DEF Typed, RanInOrder
  <2>3. OnlyQuestions(n) => OnlyQuestions(n)'
    BY <1>1, <1>2, <1>3, QuestionsOnly DEF OnlyQuestions
  <2>4. Sent(n) /\ Asking(n) => Sent(n)'
    <3> SUFFICES ASSUME Sent(n), Asking(n) PROVE Sent(n)'
      OBVIOUS
    <3>1. caller.call \in Nat /\ caller.call # Question
      BY <1>0 DEF Typed, Asking, Question
    <3>2. toThread[n][Len(toThread[n])] = caller.call
          /\ \A i \in 1 .. Len(toThread[n]) - 1 : toThread[n][i] = Question
      BY DEF Sent
    <3>3. /\ Tail(toThread[n]) # <<>> /\ Tail(toThread[n])[Len(Tail(toThread[n]))] = caller.call
          /\ \A i \in 1 .. Len(Tail(toThread[n])) - 1 : Tail(toThread[n])[i] = Question
      BY <1>1, <1>2, <1>5, <3>1, <3>2, TailSent
    <3> QED
      BY <1>1, <1>3, <2>1, <3>3 DEF Sent
  <2>5. InPlace(n)'
    BY <1>0, <1>1, <1>4, <2>1, <2>3, <2>4 DEF InPlace, Quiet, Running, Answered
  <2> QED
    BY <1>1, <1>3, <1>4, <2>1, <2>2, <2>5, OneStep
<1>6. CASE Head(toThread[n]) # Question
  <2>1. /\ thread' = [thread EXCEPT ![n].pc = "answer", ![n].call = Head(toThread[n])]
        /\ ran' = [ran EXCEPT ![n] = @ + 1]
    BY <1>1, <1>6
  <2>2. ~OnlyQuestions(n)
    BY <1>1, <1>2, <1>6, QuestionsOnly DEF OnlyQuestions
  <2>3. Asking(n) /\ Sent(n)
    BY <1>0, <2>2 DEF InPlace, Quiet, Running, Answered
  <2>4. caller.call \in Nat /\ caller.call # Question /\ caller.pc = "read" /\ caller.n = n
    BY <1>0, <2>3 DEF Typed, Asking, Question
  <2>5. Head(toThread[n]) = caller.call /\ \A i \in 1 .. Len(Tail(toThread[n])) : Tail(toThread[n])[i] = Question
    <3>1. toThread[n][Len(toThread[n])] = caller.call
          /\ \A i \in 1 .. Len(toThread[n]) - 1 : toThread[n][i] = Question
      BY <2>3 DEF Sent
    <3> QED
      BY <1>1, <1>2, <1>6, <2>4, <3>1, TailSent
  <2>6. /\ thread' \in [Others -> [pc : {"loop", "answer", "ended"}, call : Nat]]
        /\ thread'[n].pc = "answer" /\ thread'[n].call = caller.call
        /\ \A t \in Others \ {n} : thread'[t] = thread[t]
    BY <1>0, <1>2, <2>1, <2>5 DEF Typed
  <2>7. /\ ran' \in [Threads -> Nat] /\ ran'[n] = 1
        /\ \A t \in Threads \ {n} : ran'[t] = ran[t]
    <3>1. ran[n] = 0 /\ ran \in [Threads -> Nat]
      BY <1>0, <2>3 DEF Sent, Typed
    <3> QED
      BY <1>0, <2>1, <3>1
  <2>8. Typed'
    BY <1>0, <1>1, <1>3, <2>6, <2>7 DEF Typed
  <2>9. RanInOrder'
    <3>1. ~(n < n)
      BY <1>0, ThreadNumbers
    <3> QED
      BY <1>0, <1>1, <2>4, <2>7, <3>1 DEF RanInOrder
  <2>10. InPlace(n)'
    BY <1>1, <1>3, <1>4, <2>3, <2>5, <2>6, <2>7 DEF InPlace, Sent, Running, OnlyQuestions
  <2>11. \A t \in Others \ {n} : t \in Threads \ {n}
    BY ThreadNumbers
  <2> QED
    BY <1>1, <1>3, <1>4, <2>6, <2>7, <2>8, <2>9, <2>10, <2>11, OneStep
<1> QED
  BY <1>5, <1>6

(* The answer goes into the pipe back, which was empty. *)
LEMMA WriteAnswerKeeps ==
  ASSUME PipesInv, NEW n \in Others, WriteAnswer(n)
  PROVE  PipesInv'
<1>0. Typed /\ OneCall /\ RanInOrder /\ InPlace(n) /\ n \in Threads
  BY ThreadNumbers DEF PipesInv, OneCall
<1>1. /\ thread[n].pc = "answer" /\ UNCHANGED <<toThread, caller, ran, counter>>
      /\ fromThread' = [fromThread EXCEPT ![n] = Append(@, thread[n].call)]
      /\ thread' = [thread EXCEPT ![n].pc = "loop"]
  BY DEF WriteAnswer
<1>2. Asking(n) /\ Running(n)
  BY <1>0, <1>1 DEF InPlace, Quiet, Sent, Answered
<1>3. caller.call \in Nat /\ Append(<<>>, caller.call) = <<caller.call>> /\ <<caller.call>> \in Seq(Nat)
  BY <1>0 DEF Typed
<1>4. /\ fromThread' \in [Threads -> Seq(Nat)] /\ fromThread'[n] = <<caller.call>>
      /\ \A t \in Others \ {n} : fromThread'[t] = fromThread[t]
  BY <1>0, <1>1, <1>2, <1>3, ThreadNumbers DEF Typed, Running
<1>5. /\ thread' \in [Others -> [pc : {"loop", "answer", "ended"}, call : Nat]]
      /\ thread'[n].pc = "loop" /\ \A t \in Others \ {n} : thread'[t] = thread[t]
  BY <1>0, <1>1 DEF Typed
<1>6. Typed' /\ RanInOrder'
  BY <1>0, <1>1, <1>4, <1>5 DEF Typed, RanInOrder
<1>7. \A t \in Others : Asking(t)' <=> Asking(t)
  BY <1>1 DEF Asking
<1>8. InPlace(n)'
  BY <1>1, <1>2, <1>4, <1>5, <1>7 DEF InPlace, Running, Answered, OnlyQuestions
<1> QED
  BY <1>1, <1>4, <1>5, <1>6, <1>7, <1>8, OneStep

(* A thread that ends leaves its pipes as they are, and no answer in them   *)
(* to what it was running.                                                  *)
LEMMA RecursorThreadEndsKeeps ==
  ASSUME PipesInv, NEW n \in Others, RecursorThreadEnds(n)
  PROVE  PipesInv'
<1>0. Typed /\ OneCall /\ RanInOrder /\ InPlace(n)
  BY DEF PipesInv, OneCall
<1>1. /\ thread[n].pc \in {"loop", "answer"}
      /\ UNCHANGED <<toThread, fromThread, caller, ran, counter>>
      /\ thread' = [thread EXCEPT ![n].pc = "ended"]
  BY DEF RecursorThreadEnds, pipes
<1>2. /\ thread' \in [Others -> [pc : {"loop", "answer", "ended"}, call : Nat]]
      /\ thread'[n].pc = "ended" /\ \A t \in Others \ {n} : thread'[t] = thread[t]
  BY <1>0, <1>1 DEF Typed
<1>3. Typed' /\ RanInOrder'
  BY <1>0, <1>1, <1>2 DEF Typed, RanInOrder
<1>4. \A t \in Others : Asking(t)' <=> Asking(t)
  BY <1>1 DEF Asking
<1>5. InPlace(n)'
  BY <1>0, <1>1, <1>2, <1>4 DEF InPlace, Quiet, Sent, Running, Answered, OnlyQuestions
<1> QED
  BY <1>1, <1>2, <1>3, <1>4, <1>5, OneStep

-----------------------------------------------------------------------------
LEMMA PipesStart == PipesInit => PipesInv
<1> SUFFICES ASSUME PipesInit PROVE PipesInv
  OBVIOUS
<1>1. <<>> \in Seq(Nat) /\ Len(<<>>) = 0
  OBVIOUS
<1>2. Typed
  BY <1>1 DEF PipesInit, Typed
<1>3. \A t \in Others : toThread[t] = <<>> /\ fromThread[t] = <<>> /\ thread[t].pc = "loop"
  BY ThreadNumbers DEF PipesInit
<1>4. OneCall
  BY <1>1, <1>3 DEF OneCall, InPlace, Asking, Quiet, OnlyQuestions, PipesInit
<1> QED
  BY <1>2, <1>4 DEF PipesInv, RanInOrder, PipesInit

LEMMA PipesInductive == PipesInv /\ [PipesNext]_pipeVars => PipesInv'
<1> SUFFICES ASSUME PipesInv, [PipesNext]_pipeVars PROVE PipesInv'
  OBVIOUS
<1>1. CASE Broadcast \/ RunSelf \/ Distribute
  BY <1>1, CallerKeeps
<1>2. ASSUME NEW t \in Others, WriteTo(t) \/ ReadFrom(t) \/ Send(t) PROVE PipesInv'
  BY <1>2, WriteToKeeps, ReadFromKeeps, SendKeeps
<1>3. ASSUME NEW t \in Others, HandlePipeRequest(t) \/ WriteAnswer(t) \/ RecursorThreadEnds(t) PROVE PipesInv'
  BY <1>3, HandlePipeRequestKeeps, WriteAnswerKeeps, RecursorThreadEndsKeeps
<1>4. CASE UNCHANGED pipeVars
  <2>1. UNCHANGED <<toThread, fromThread, caller, thread, ran, counter>>
    BY <1>4 DEF pipeVars, pipes
  <2>2. Typed' /\ RanInOrder'
    BY <2>1 DEF PipesInv, Typed, RanInOrder
  <2>3. OneCall'
    BY <2>1 DEF PipesInv, OneCall, InPlace, Asking, Quiet, Sent, Running, Answered, OnlyQuestions
  <2> QED
    BY <2>2, <2>3 DEF PipesInv
<1> QED
  BY <1>1, <1>2, <1>3, <1>4 DEF PipesNext

(***************************************************************************)
(* Every thread runs a broadcast once, in order, and what thread 0 reads   *)
(* back is the answer to it, however many questions go down the same pipes *)
(* and whichever threads end.                                              *)
(***************************************************************************)
THEOREM OneAnswerSafe == PipesSpec => []OneAnswerEach
<1>1. PipesInv => OneAnswerEach
  <2> SUFFICES ASSUME PipesInv PROVE OneAnswerEach
    OBVIOUS
  <2>0. Typed /\ OneCall /\ RanInOrder
    BY DEF PipesInv
  <2>1. \A t \in Others : fromThread[t] # <<>> =>
          caller.pc = "read" /\ caller.n = t /\ fromThread[t] = <<caller.call>>
    BY <2>0 DEF OneCall, InPlace, Asking, Quiet, Sent, Running, Answered
  <2>2. ASSUME caller.pc \in {"write", "read"}, NEW t \in Threads
        PROVE  (t < caller.n => ran[t] = 1) /\ (t > caller.n => ran[t] = 0) /\ ran[t] <= 1
    <3>1. caller.n \in Nat /\ t \in Nat /\ ran[t] \in Nat
      BY <2>0, ThreadNumbers DEF Typed
    <3>2. (t < caller.n => ran[t] = 1) /\ (t > caller.n => ran[t] = 0)
      BY <2>0, <2>2 DEF RanInOrder
    <3>3. CASE t = caller.n
      <4>1. CASE caller.pc = "write"
        BY <2>0, <3>1, <3>2, <3>3, <4>1 DEF RanInOrder
      <4>2. CASE caller.pc = "read"
        <5>1. ran[t] = 0 \/ ran[t] = 1
          BY <2>0, <3>3, <4>2 DEF Typed, OneCall, InPlace, Asking, Sent, Running, Answered
        <5> QED
          BY <3>1, <3>2, <5>1
      <4> QED
        BY <2>2, <4>1, <4>2
    <3>4. CASE t # caller.n
      <4>1. t < caller.n \/ t > caller.n
        BY <3>1, <3>4
      <4> QED
        BY <3>2, <4>1
    <3> QED
      BY <3>3, <3>4
  <2> QED
    BY <2>0, <2>1, <2>2 DEF OneAnswerEach, RanInOrder
<1> QED
  BY <1>1, PipesStart, PipesInductive, PTL DEF PipesSpec
=============================================================================
