------------------------ MODULE ServerThreads_proofs ------------------------
(***************************************************************************)
(* The thread pools of the authoritative server, for any number of threads *)
(* and whichever die.  The distributor: its types, the wake-up of every    *)
(* queued question and the one place of every accepted one.  The signing   *)
(* pipe: the one place of every record, the RRsets that reach the client   *)
(* whole, and the empty chunk that means that everything was sent.         *)
(***************************************************************************)
EXTENDS Distributor, SigningPipe, TLAPS, FiniteSetTheorems, SequenceTheorems, FunctionTheorems,
        WellFoundedInduction

(***************************************************************************)
(* The Distributor.                                                        *)
(* TypeOK needs the wake-ups: a thread that is woken finds a question to   *)
(* take.  The ids stay below MaxQuestions since every one was received.    *)
(***************************************************************************)
ReceivedFirst == nextid + (IF pc = "question" THEN 1 ELSE 0) <= received
DistributorInv == TypeOK /\ WakeupPerQuestion /\ ReceivedFirst

(***************************************************************************)
(* HandledOnce is not inductive: the next question could turn out to be    *)
(* queued or held already, and a thread that takes one could lose one it   *)
(* held.  No id that was not given out is anywhere, and just the busy      *)
(* threads hold a question.  TypeOK needs that too, for what they lose.    *)
(***************************************************************************)
One(holds) == IF holds THEN 1 ELSE 0
Holders(i) == {t \in Threads : thread[t].q = i}
Finished(i) == done[i] + One(i \in lost)
HoldsWhenBusy == \A t \in Threads : thread[t].q # NoQuestion <=> thread[t].pc = "busy"
EachInOnePlace ==
  \A i \in Ids : Times(i, questions) + Finished(i) + Cardinality(Holders(i)) = One(i < nextid)
LossesCounted == IsFiniteSet(lost) /\ Cardinality(lost) <= deaths
HandledInv == HoldsWhenBusy /\ EachInOnePlace /\ LossesCounted

Woken == {t \in Threads : thread[t].pc = "woken"}

LEMMA WokenFinite == IsFiniteSet(Woken) /\ Cardinality(Woken) \in Nat
<1>1. Woken \subseteq Threads
  BY DEF Woken
<1> QED
  BY <1>1, DistributorAssumption, FS_Subset, FS_CardinalityType

(* A thread that is no longer, or has just been, woken changes their number. *)
LEMMA WokenChanges ==
  ASSUME TypeOK, NEW t \in Threads, NEW new \in ThreadState, thread' = [thread EXCEPT ![t] = new]
  PROVE  /\ thread[t].pc # "woken" /\ new.pc # "woken" => Woken' = Woken
         /\ thread[t].pc # "woken" /\ new.pc = "woken" => Cardinality(Woken') = Cardinality(Woken) + 1
         /\ thread[t].pc = "woken" /\ new.pc # "woken" => Cardinality(Woken') = Cardinality(Woken) - 1
<1>1. CASE thread[t].pc # "woken" /\ new.pc # "woken"
  BY <1>1 DEF Woken, TypeOK
<1>2. CASE thread[t].pc # "woken" /\ new.pc = "woken"
  <2>1. Woken' = Woken \cup {t} /\ t \notin Woken
    BY <1>2 DEF Woken, TypeOK
  <2> QED
    BY <1>2, <2>1, WokenFinite, FS_AddElement
<1>3. CASE thread[t].pc = "woken" /\ new.pc # "woken"
  <2>1. Woken' = Woken \ {t} /\ t \in Woken
    BY <1>3 DEF Woken, TypeOK
  <2> QED
    BY <1>3, <2>1, WokenFinite, FS_RemoveElement
<1> QED
  BY <1>1, <1>2, <1>3

-----------------------------------------------------------------------------
(* The constants as numbers. *)
LEMMA Bounds == MaxQuestions \in Nat /\ MaxDeaths \in Nat /\ MaxQueueLength \in Nat
BY DistributorAssumption

LEMMA FreshTyped ==
  \A at \in {"none", "starting", "top"} : Fresh(at) \in ThreadState /\ Fresh(at).pc = at
BY DEF Fresh, ThreadState

(* A woken thread finds a question to take. *)
LEMMA QuestionForWoken ==
  ASSUME TypeOK, WakeupPerQuestion, NEW t \in Threads, thread[t].pc = "woken"
  PROVE  questions # <<>> /\ Len(questions) > 0
<1>1. t \in Woken
  BY DEF Woken
<1>2. Cardinality(Woken) # 0 /\ Cardinality(Woken) \in Nat
  BY <1>1, WokenFinite, FS_EmptySet
<1>3. Len(questions) = numquestions + Cardinality(Woken) + IF pc = "post" THEN 1 ELSE 0
  BY DEF WakeupPerQuestion, At, Woken
<1>4. numquestions \in Nat /\ Len(questions) \in Nat
  BY LenProperties DEF TypeOK
<1>5. Len(questions) > 0
  BY <1>2, <1>3, <1>4
<1> QED
  BY <1>5, EmptySeq

LEMMA DistributorInductive == DistributorInv /\ HandledInv /\ [Next]_vars => DistributorInv'
<1> SUFFICES ASSUME DistributorInv, HandledInv, [Next]_vars PROVE DistributorInv'
  OBVIOUS
<1>0. TypeOK /\ WakeupPerQuestion /\ ReceivedFirst
  BY DEF DistributorInv
<1>n. /\ Len(questions) \in Nat /\ numquestions \in Nat /\ Cardinality(Woken) \in Nat
      /\ Len(questions) = numquestions + Cardinality(Woken) + IF pc = "post" THEN 1 ELSE 0
  BY <1>0, WokenFinite, LenProperties DEF TypeOK, WakeupPerQuestion, At, Woken
<1>w. ASSUME NEW t \in Threads, NEW new \in ThreadState, thread' = [thread EXCEPT ![t] = new],
             thread[t].pc # "woken", new.pc # "woken", UNCHANGED <<questions, numquestions, pc>>
      PROVE  WakeupPerQuestion'
  <2>1. Woken' = Woken
    BY <1>0, <1>w, WokenChanges
  <2> QED
    BY <1>0, <1>w, <2>1 DEF WakeupPerQuestion, At, Woken
<1>a. WakeupPerQuestion' <=>
        Len(questions') = numquestions' + Cardinality(Woken') + IF pc' = "post" THEN 1 ELSE 0
  BY DEF WakeupPerQuestion, At, Woken
<1>t. ASSUME NEW t \in Threads, NEW new \in ThreadState, thread' = [thread EXCEPT ![t] = new]
      PROVE  thread' \in [Threads -> ThreadState]
  BY <1>0, <1>t DEF TypeOK
<1>1. CASE Receive
  <2>1. TypeOK'
    BY <1>0, <1>1, Bounds DEF Receive, TypeOK
  <2>2. WakeupPerQuestion'
    BY <1>0, <1>1 DEF Receive, WakeupPerQuestion, At
  <2>3. ReceivedFirst'
    BY <1>0, <1>1, Bounds DEF Receive, ReceivedFirst, TypeOK
  <2> QED
    BY <2>1, <2>2, <2>3 DEF DistributorInv
<1>2. CASE Question
  <2>1. nextid \in Ids /\ nextid \in Nat /\ received \in Nat /\ nextid + 1 <= received
        /\ received <= MaxQuestions
    BY <1>0, <1>2, Bounds DEF Question, TypeOK, ReceivedFirst, Ids
  <2>2. questions' \in Seq(Ids) /\ Len(questions') = Len(questions) + 1
    BY <1>0, <1>2, <2>1, AppendProperties DEF Question, TypeOK
  <2>3. thread' \in [Threads -> ThreadState] /\ Woken' = Woken
    <3>1. CASE MissesThread /\ Free # {}
      <4>1. PICK t \in Free : thread' = [thread EXCEPT ![t] = Fresh("starting")]
        BY <1>2, <3>1 DEF Question
      <4> QED
        BY <1>0, <4>1, FreshTyped, WokenChanges, <1>t DEF Free
    <3>2. CASE ~(MissesThread /\ Free # {})
      BY <1>0, <1>2, <3>2 DEF Question, TypeOK, Woken
    <3> QED
      BY <3>1, <3>2
  <2>4. TypeOK'
    <3>1. justStarted' \in BOOLEAN
      BY <1>0, <1>2 DEF Question, TypeOK
    <3>2. nextid' \in 0 .. MaxQuestions
      BY <1>2, <2>1, Bounds DEF Question
    <3> QED
      BY <1>0, <1>2, <2>2, <2>3, <3>1, <3>2 DEF Question, TypeOK
  <2>5. WakeupPerQuestion'
    BY <1>a, <1>n, <1>2, <2>2, <2>3 DEF Question
  <2>6. ReceivedFirst'
    BY <1>0, <1>2, <2>1 DEF Question, ReceivedFirst
  <2> QED
    BY <2>4, <2>5, <2>6 DEF DistributorInv
<1>3. CASE Post
  <2>1. TypeOK'
    BY <1>0, <1>3 DEF Post, TypeOK
  <2>2. WakeupPerQuestion'
    BY <1>n, <1>3 DEF Post, WakeupPerQuestion, At, Woken
  <2>3. ReceivedFirst'
    BY <1>0, <1>3 DEF Post, ReceivedFirst
  <2> QED
    BY <2>1, <2>2, <2>3 DEF DistributorInv
<1>4. CASE Check
  <2>1. TypeOK'
    BY <1>0, <1>4 DEF Check, TypeOK
  <2>2. WakeupPerQuestion'
    BY <1>0, <1>4 DEF Check, WakeupPerQuestion, At
  <2>3. ReceivedFirst'
    BY <1>0, <1>4 DEF Check, ReceivedFirst
  <2> QED
    BY <2>1, <2>2, <2>3 DEF DistributorInv
<1>5. CASE FiveSecondsPass
  BY <1>0, <1>5 DEF FiveSecondsPass, DistributorInv, TypeOK, WakeupPerQuestion, At, ReceivedFirst
<1>6. ASSUME NEW t \in Threads, Started(t)
      PROVE  DistributorInv'
  BY <1>0, <1>6, <1>w, <1>t, FreshTyped DEF Started, DistributorInv, TypeOK, ReceivedFirst
<1>7. ASSUME NEW t \in Threads, NotStarted(t)
      PROVE  DistributorInv'
  <2>1. deaths' \in 0 .. MaxDeaths
    BY <1>0, <1>7, Bounds DEF NotStarted, TypeOK
  <2> QED
    BY <1>0, <1>7, <2>1, <1>w, <1>t, FreshTyped DEF NotStarted, DistributorInv, TypeOK, ReceivedFirst
<1>8. ASSUME NEW t \in Threads, GetValue(t)
      PROVE  DistributorInv'
  <2> DEFINE new == [thread[t] EXCEPT !.pc = "waiting", !.qcount = numquestions]
  <2>1. new \in ThreadState /\ thread' = [thread EXCEPT ![t] = new]
    <3>1. thread[t] \in ThreadState /\ numquestions \in Nat
      BY <1>0 DEF TypeOK
    <3>2. new \in ThreadState
      BY <3>1 DEF ThreadState
    <3>3. thread' = [thread EXCEPT ![t] = new]
      BY <1>0, <1>8 DEF GetValue, TypeOK
    <3> QED
      BY <3>2, <3>3
  <2>2. thread[t].pc # "woken" /\ new.pc # "woken"
    BY <1>0, <1>8 DEF GetValue, TypeOK, ThreadState
  <2>3. UNCHANGED <<questions, numquestions, overloaded, nextid, justStarted, pc, received, done,
                    lost, deaths, alive>>
    BY <1>8 DEF GetValue
  <2> HIDE DEF new
  <2> QED
    BY <1>0, <2>1, <2>2, <2>3, <1>w, <1>t DEF DistributorInv, TypeOK, ReceivedFirst
<1>9. ASSUME NEW t \in Threads, Wait(t)
      PROVE  DistributorInv'
  <2> DEFINE new == [thread[t] EXCEPT !.pc = "woken"]
  <2>1. new \in ThreadState /\ thread' = [thread EXCEPT ![t] = new]
    <3>1. thread[t] \in ThreadState /\ numquestions \in Nat
      BY <1>0 DEF TypeOK
    <3>2. new \in ThreadState
      BY <3>1 DEF ThreadState
    <3>3. thread' = [thread EXCEPT ![t] = new]
      BY <1>0, <1>9 DEF Wait, TypeOK
    <3> QED
      BY <3>2, <3>3
  <2>2. Cardinality(Woken') = Cardinality(Woken) + 1
    <3>1. thread[t].pc # "woken" /\ new.pc = "woken"
      BY <1>0, <1>9 DEF Wait, TypeOK, ThreadState
    <3> HIDE DEF new
    <3> QED
      BY <1>0, <2>1, <3>1, WokenChanges
  <2>3. numquestions' = numquestions - 1 /\ numquestions' \in Nat
    BY <1>n, <1>9 DEF Wait
  <2>4. TypeOK'
    BY <1>0, <1>9, <2>1, <2>3, <1>t DEF Wait, TypeOK
  <2>5. WakeupPerQuestion'
    BY <1>a, <1>n, <1>9, <2>2, <2>3 DEF Wait
  <2>6. ReceivedFirst'
    BY <1>0, <1>9 DEF Wait, ReceivedFirst
  <2> QED
    BY <2>4, <2>5, <2>6 DEF DistributorInv
<1>10. ASSUME NEW t \in Threads, Pop(t)
       PROVE  DistributorInv'
  <2> DEFINE new == [thread[t] EXCEPT !.pc = "busy", !.q = Head(questions)]
  <2>1. questions # <<>> /\ Len(questions) > 0
    BY <1>0, <1>10, QuestionForWoken DEF Pop
  <2>2. /\ Head(questions) \in Ids /\ Tail(questions) \in Seq(Ids)
        /\ Len(Tail(questions)) = Len(questions) - 1
    BY <1>0, <2>1, HeadTailProperties DEF TypeOK
  <2>3. new \in ThreadState /\ thread' = [thread EXCEPT ![t] = new]
    <3>1. thread[t] \in ThreadState /\ numquestions \in Nat
      BY <1>0 DEF TypeOK
    <3>2. new \in ThreadState
      BY <3>1, <2>2 DEF ThreadState
    <3>3. thread' = [thread EXCEPT ![t] = new]
      BY <1>0, <1>10 DEF Pop, TypeOK
    <3> QED
      BY <3>2, <3>3
  <2>4. Cardinality(Woken') = Cardinality(Woken) - 1
    <3>1. thread[t].pc = "woken" /\ new.pc # "woken"
      BY <1>0, <1>10 DEF Pop, TypeOK, ThreadState
    <3> HIDE DEF new
    <3> QED
      BY <1>0, <2>3, <3>1, WokenChanges
  <2>5. TypeOK'
    <3>1. overloaded' \in BOOLEAN
      BY <1>0, <1>10 DEF Pop, TypeOK
    <3> QED
      BY <1>0, <1>10, <2>2, <2>3, <3>1, <1>t DEF Pop, TypeOK
  <2>6. WakeupPerQuestion'
    BY <1>a, <1>n, <1>10, <2>2, <2>4 DEF Pop
  <2>7. ReceivedFirst'
    BY <1>0, <1>10 DEF Pop, ReceivedFirst
  <2> QED
    BY <2>5, <2>6, <2>7 DEF DistributorInv
<1>d. ASSUME NEW t \in Threads, done' = [done EXCEPT ![thread[t].q] = @ + 1]
      PROVE  done' \in [Ids -> Nat]
  <2>1. done \in [Ids -> Nat]
    BY <1>0 DEF TypeOK
  <2>2. CASE thread[t].q \in Ids
    <3>1. done[thread[t].q] + 1 \in Nat
      BY <2>1, <2>2
    <3> QED
      BY <1>d, <2>1, <3>1
  <2>3. CASE thread[t].q \notin Ids
    BY <1>d, <2>1, <2>3
  <2> QED
    BY <2>2, <2>3
<1>11. ASSUME NEW t \in Threads, Answer(t)
       PROVE  DistributorInv'
  BY <1>0, <1>11, <1>w, <1>t, <1>d, FreshTyped DEF Answer, DistributorInv, TypeOK, ReceivedFirst
<1>12. ASSUME NEW t \in Threads, Die(t)
       PROVE  DistributorInv'
  <2>1. deaths' \in 0 .. MaxDeaths
    BY <1>0, <1>12, Bounds DEF Die, TypeOK
  <2>2. lost' \subseteq Ids
    <3>1. thread[t] \in ThreadState /\ thread[t].q # NoQuestion
      BY <1>0, <1>12 DEF Die, TypeOK, HandledInv, HoldsWhenBusy
    <3>2. thread[t].q \in Ids
      BY <3>1 DEF ThreadState
    <3> QED
      BY <1>0, <1>12, <3>2 DEF Die, TypeOK
  <2> QED
    BY <1>0, <1>12, <2>1, <2>2, <1>w, <1>t, FreshTyped
    DEF Die, DistributorInv, TypeOK, ReceivedFirst
<1>13. CASE UNCHANGED vars
  BY <1>0, <1>13 DEF vars, DistributorInv, TypeOK, WakeupPerQuestion, At, ReceivedFirst
<1> QED
  BY <1>1, <1>2, <1>3, <1>4, <1>5, <1>6, <1>7, <1>8, <1>9, <1>10, <1>11, <1>12, <1>13
  DEF Next, Receiver, Run

LEMMA DistributorInit == Init => DistributorInv
<1> SUFFICES ASSUME Init PROVE DistributorInv
  OBVIOUS
<1>1. \A t \in Threads : thread[t] = Fresh("starting") \/ thread[t] = Fresh("none")
  BY DEF Init
<1>2. thread \in [Threads -> ThreadState]
  BY <1>1, FreshTyped DEF Init
<1>3. Woken = {}
  BY <1>1 DEF Woken, Fresh
<1>4. TypeOK
  <2>1. questions \in Seq(Ids) /\ done \in [Ids -> Nat]
    BY EmptySeq DEF Init
  <2>2. deaths \in 0 .. MaxDeaths /\ nextid \in 0 .. MaxQuestions /\ received \in 0 .. MaxQuestions
    BY Bounds DEF Init
  <2> QED
    BY <1>2, <2>1, <2>2 DEF Init, TypeOK
<1>5. WakeupPerQuestion
  <2>1. Cardinality(Woken) = 0
    BY <1>3, FS_EmptySet
  <2>2. At("woken") = 0
    BY <2>1 DEF At, Woken
  <2>3. Len(<<>>) = 0
    BY EmptySeq
  <2> QED
    BY <2>2, <2>3 DEF Init, WakeupPerQuestion
<1>6. ReceivedFirst
  BY DEF Init, ReceivedFirst
<1> QED
  BY <1>4, <1>5, <1>6 DEF DistributorInv

-----------------------------------------------------------------------------
(* The places of a value in a sequence are finitely many. *)
Places(i, s) == {k \in 1 .. Len(s) : s[k] = i}
LEMMA TimesPlaces ==
  ASSUME NEW s \in Seq(Ids), NEW i
  PROVE  IsFiniteSet(Places(i, s)) /\ Times(i, s) = Cardinality(Places(i, s)) /\ Times(i, s) \in Nat
<1>1. Len(s) \in Nat /\ DOMAIN s = 1 .. Len(s)
  BY LenProperties
<1>2. IsFiniteSet(1 .. Len(s))
  BY <1>1, FS_Interval
<1>3. Places(i, s) \in SUBSET (1 .. Len(s))
  BY DEF Places
<1>4. IsFiniteSet(Places(i, s))
  BY <1>2, <1>3, FS_Subset
<1>5. Times(i, s) = Cardinality(Places(i, s))
  BY <1>1 DEF Places, Times
<1> QED
  BY <1>4, <1>5, FS_CardinalityType

(* What a question appended to the queue adds to the places of a question. *)
LEMMA TimesAppend ==
  ASSUME NEW s \in Seq(Ids), NEW x \in Ids, NEW i
  PROVE  Times(i, Append(s, x)) = Times(i, s) + One(x = i)
<1> DEFINE last == Len(s) + 1
<1>1. /\ Append(s, x) \in Seq(Ids) /\ Len(Append(s, x)) = last
      /\ \A k \in 1 .. Len(s) : Append(s, x)[k] = s[k]
      /\ Append(s, x)[last] = x
  BY AppendProperties
<1>2. Len(s) \in Nat
  BY LenProperties
<1>3. CASE x = i
  <2>1. Places(i, Append(s, x)) = Places(i, s) \cup {last} /\ last \notin Places(i, s)
    BY <1>1, <1>2, <1>3 DEF Places
  <2>2. Cardinality(Places(i, s) \cup {last}) = Cardinality(Places(i, s)) + 1
    BY <2>1, TimesPlaces, FS_AddElement
  <2> QED
    BY <1>1, <1>3, <2>1, <2>2, TimesPlaces DEF One
<1>4. CASE x # i
  <2>1. Places(i, Append(s, x)) = Places(i, s)
    BY <1>1, <1>2, <1>4 DEF Places
  <2>2. Times(i, Append(s, x)) = Times(i, s) /\ Times(i, s) \in Nat
    BY <1>1, <2>1, TimesPlaces
  <2> QED
    BY <1>4, <2>2 DEF One
<1> QED
  BY <1>3, <1>4

(* What the question at the front of the queue takes along. *)
LEMMA TimesTail ==
  ASSUME NEW s \in Seq(Ids), s # <<>>, NEW i
  PROVE  Times(i, s) = Times(i, Tail(s)) + One(Head(s) = i)
<1> DEFINE shift == [k \in Places(i, Tail(s)) |-> k + 1]
<1>1. /\ Tail(s) \in Seq(Ids) /\ Len(Tail(s)) = Len(s) - 1 /\ Len(s) \in Nat \ {0}
      /\ \A k \in 1 .. Len(Tail(s)) : Tail(s)[k] = s[k + 1]
  BY HeadTailProperties, EmptySeq
<1>2. Head(s) = s[1]
  OBVIOUS
<1>3. shift \in [Places(i, Tail(s)) -> Places(i, s) \ {1}]
  BY <1>1 DEF Places
<1>4. \A j, k \in Places(i, Tail(s)) : shift[j] = shift[k] => j = k
  BY <1>1 DEF Places
<1>5. ASSUME NEW k \in Places(i, s) \ {1}
      PROVE  \E j \in Places(i, Tail(s)) : shift[j] = k
  <2>1. k - 1 \in Places(i, Tail(s)) /\ (k - 1) + 1 = k
    BY <1>1 DEF Places
  <2> QED
    BY <2>1
<1>6. ExistsBijection(Places(i, Tail(s)), Places(i, s) \ {1})
  BY <1>3, <1>4, <1>5, Fun_IsBij DEF ExistsBijection
<1>7. Cardinality(Places(i, s) \ {1}) = Cardinality(Places(i, Tail(s)))
  BY <1>1, <1>6, TimesPlaces, FS_Bijection
<1>8. 1 \in Places(i, s) <=> Head(s) = i
  BY <1>1, <1>2 DEF Places
<1>9. Cardinality(Places(i, s) \ {1}) =
        IF 1 \in Places(i, s) THEN Cardinality(Places(i, s)) - 1 ELSE Cardinality(Places(i, s))
  BY TimesPlaces, FS_RemoveElement
<1>10. /\ Times(i, s) = Cardinality(Places(i, s)) /\ Times(i, s) \in Nat
       /\ Times(i, Tail(s)) = Cardinality(Places(i, Tail(s)))
  BY <1>1, TimesPlaces
<1> QED
  BY <1>7, <1>8, <1>9, <1>10 DEF One

LEMMA HoldersFinite == \A i : IsFiniteSet(Holders(i)) /\ Cardinality(Holders(i)) \in Nat
<1> SUFFICES ASSUME NEW i PROVE IsFiniteSet(Holders(i)) /\ Cardinality(Holders(i)) \in Nat
  OBVIOUS
<1>1. Holders(i) \in SUBSET Threads
  BY DEF Holders
<1> QED
  BY <1>1, DistributorAssumption, FS_Subset, FS_CardinalityType

(* What a thread lets go of and what it takes up. *)
LEMMA HoldersChange ==
  ASSUME TypeOK, NEW t \in Threads, NEW new \in ThreadState, thread' = [thread EXCEPT ![t] = new],
         NEW i \in Ids
  PROVE  /\ Cardinality(Holders(i)) \in Nat
         /\ Cardinality(Holders(i)') =
              Cardinality(Holders(i)) - One(thread[t].q = i) + One(new.q = i)
<1>1. IsFiniteSet(Holders(i)) /\ Cardinality(Holders(i)) \in Nat
  BY HoldersFinite
<1>2. One(t \in Holders(i)) = One(thread[t].q = i)
  BY DEF Holders
<1>3. CASE new.q = i
  <2>1. Holders(i)' = Holders(i) \cup {t}
    BY <1>3 DEF Holders, TypeOK
  <2>2. Cardinality(Holders(i)') = Cardinality(Holders(i)) - One(t \in Holders(i)) + 1
    <3>1. Cardinality(Holders(i) \cup {t}) =
            IF t \in Holders(i) THEN Cardinality(Holders(i)) ELSE Cardinality(Holders(i)) + 1
      BY <1>1, FS_AddElement
    <3>2. Cardinality(Holders(i)') = Cardinality(Holders(i) \cup {t})
      BY <2>1
    <3> QED
      BY <1>1, <3>1, <3>2 DEF One
  <2>3. One(new.q = i) = 1
    BY <1>3 DEF One
  <2> QED
    BY <1>1, <1>2, <2>2, <2>3
<1>4. CASE new.q # i
  <2>1. Holders(i)' = Holders(i) \ {t}
    BY <1>4 DEF Holders, TypeOK
  <2>2. Cardinality(Holders(i)') = Cardinality(Holders(i)) - One(t \in Holders(i)) + 0
    <3>1. Cardinality(Holders(i) \ {t}) =
            IF t \in Holders(i) THEN Cardinality(Holders(i)) - 1 ELSE Cardinality(Holders(i))
      BY <1>1, FS_RemoveElement
    <3>2. Cardinality(Holders(i)') = Cardinality(Holders(i) \ {t})
      BY <2>1
    <3> QED
      BY <1>1, <3>1, <3>2 DEF One
  <2>3. One(new.q = i) = 0
    BY <1>4 DEF One
  <2> QED
    BY <1>1, <1>2, <2>2, <2>3
<1> QED
  BY <1>1, <1>3, <1>4

LEMMA FreshHoldsNone == \A at : Fresh(at).q = NoQuestion /\ Fresh(at).pc = at
BY DEF Fresh

(* A step of one thread: just a busy one holds a question. *)
LEMMA HoldsWhenBusyKept ==
  ASSUME TypeOK, HoldsWhenBusy, NEW t \in Threads, NEW new \in ThreadState,
         thread' = [thread EXCEPT ![t] = new], new.q # NoQuestion <=> new.pc = "busy"
  PROVE  HoldsWhenBusy'
BY DEF TypeOK, HoldsWhenBusy

LEMMA HandledInductive == DistributorInv /\ HandledInv /\ [Next]_vars => HandledInv'
<1> SUFFICES ASSUME DistributorInv, HandledInv, [Next]_vars PROVE HandledInv'
  OBVIOUS
<1>0. TypeOK /\ HoldsWhenBusy /\ EachInOnePlace /\ LossesCounted
  BY DEF DistributorInv, HandledInv
<1>n. ASSUME NEW i \in Ids
      PROVE  /\ Times(i, questions) \in Nat /\ done[i] \in Nat /\ Finished(i) \in Nat
             /\ Times(i, questions) + Finished(i) + Cardinality(Holders(i)) = One(i < nextid)
  BY <1>0, TimesPlaces DEF TypeOK, EachInOnePlace, Finished, One
<1>u. UNCHANGED <<done, lost>> => \A i \in Ids : Finished(i)' = Finished(i)
  BY DEF Finished
<1>l. UNCHANGED lost /\ deaths' \in {deaths, deaths + 1} => LossesCounted'
  <2>1. deaths \in Nat /\ (IsFiniteSet(lost) => Cardinality(lost) \in Nat)
    BY <1>0, Bounds, FS_CardinalityType DEF TypeOK
  <2> QED
    BY <1>0, <2>1 DEF LossesCounted
<1>k. ASSUME NEW t \in Threads, NEW new \in ThreadState, thread' = [thread EXCEPT ![t] = new],
             new.q = thread[t].q, new.pc = "busy" <=> thread[t].pc = "busy",
             UNCHANGED <<questions, done, lost, nextid>>, deaths' \in {deaths, deaths + 1}
      PROVE  HandledInv'
  <2>1. new.q # NoQuestion <=> new.pc = "busy"
    BY <1>0, <1>k DEF HoldsWhenBusy
  <2>2. HoldsWhenBusy'
    BY <1>0, <1>k, <2>1, HoldsWhenBusyKept
  <2>3. \A i \in Ids : Holders(i)' = Holders(i)
    BY <1>0, <1>k DEF Holders, TypeOK
  <2>4. EachInOnePlace'
    BY <1>0, <1>k, <1>u, <2>3 DEF EachInOnePlace
  <2> QED
    BY <1>k, <1>l, <2>2, <2>4 DEF HandledInv
<1>f. ASSUME NEW t \in Threads, NEW at \in {"none", "starting", "top"}, thread[t].pc # "busy",
             thread' = [thread EXCEPT ![t] = Fresh(at)],
             UNCHANGED <<questions, done, lost, nextid>>, deaths' \in {deaths, deaths + 1}
      PROVE  HandledInv'
  <2>1. thread[t].q = NoQuestion
    BY <1>0, <1>f DEF HoldsWhenBusy
  <2> QED
    BY <1>f, <1>k, <2>1, FreshHoldsNone, FreshTyped
<1>e. ASSUME NEW t \in Threads, NEW at \in {"none", "top"}, thread[t].pc = "busy",
             thread' = [thread EXCEPT ![t] = Fresh(at)],
             \A i \in Ids : Finished(i)' = Finished(i) + One(thread[t].q = i),
             UNCHANGED <<questions, nextid>>, LossesCounted'
      PROVE  HandledInv'
  <2>1. Fresh(at) \in ThreadState /\ Fresh(at).q = NoQuestion /\ Fresh(at).pc # "busy"
    BY <1>e, FreshHoldsNone, FreshTyped
  <2>2. HoldsWhenBusy'
    BY <1>0, <1>e, <2>1, HoldsWhenBusyKept
  <2>3. ASSUME NEW i \in Ids
        PROVE  Times(i, questions') + Finished(i)' + Cardinality(Holders(i)') = One(i < nextid')
    <3>1. /\ Cardinality(Holders(i)) \in Nat
          /\ Cardinality(Holders(i)') =
               Cardinality(Holders(i)) - One(thread[t].q = i) + One(Fresh(at).q = i)
      BY <1>0, <1>e, <2>1, HoldersChange
    <3>2. One(Fresh(at).q = i) = 0
      BY <2>1 DEF Ids, NoQuestion, One
    <3>3. Finished(i)' = Finished(i) + One(thread[t].q = i)
      BY <1>e
    <3>4. One(thread[t].q = i) \in Nat
      BY DEF One
    <3> QED
      BY <1>e, <1>n, <3>1, <3>2, <3>3, <3>4
  <2>4. EachInOnePlace'
    BY <2>3 DEF EachInOnePlace
  <2> QED
    BY <1>e, <2>2, <2>4 DEF HandledInv
<1>s. ASSUME UNCHANGED <<questions, done, lost, deaths, nextid, thread>>
      PROVE  HandledInv'
  BY <1>0, <1>s, <1>u, <1>l DEF HandledInv, HoldsWhenBusy, EachInOnePlace, Holders
<1>1. CASE Receive \/ Post \/ Check \/ FiveSecondsPass \/ UNCHANGED vars
  BY <1>1, <1>s DEF Receive, Post, Check, FiveSecondsPass, vars
<1>2. CASE Question
  <2>1. nextid \in Ids /\ nextid \in Nat /\ nextid' = nextid + 1
    BY <1>2, Bounds DEF Question, DistributorInv, TypeOK, ReceivedFirst, Ids
  <2>2. HoldsWhenBusy' /\ \A i \in Ids : Holders(i)' = Holders(i)
    <3>1. CASE MissesThread /\ Free # {}
      <4>1. PICK t \in Free : thread' = [thread EXCEPT ![t] = Fresh("starting")]
        BY <1>2, <3>1 DEF Question
      <4>2. t \in Threads /\ thread[t].q = NoQuestion
        BY <1>0, <4>1 DEF Free, HoldsWhenBusy
      <4>3. Fresh("starting") \in ThreadState /\ Fresh("starting").q = NoQuestion
            /\ Fresh("starting").pc # "busy"
        BY FreshHoldsNone, FreshTyped
      <4>4. HoldsWhenBusy'
        BY <1>0, <4>1, <4>2, <4>3, HoldsWhenBusyKept
      <4>5. \A i \in Ids : Holders(i)' = Holders(i)
        BY <1>0, <4>1, <4>2, <4>3 DEF Holders, TypeOK
      <4> QED
        BY <4>4, <4>5
    <3>2. CASE ~(MissesThread /\ Free # {})
      BY <1>0, <1>2, <3>2 DEF Question, HoldsWhenBusy, Holders
    <3> QED
      BY <3>1, <3>2
  <2>3. ASSUME NEW i \in Ids
        PROVE  Times(i, questions') + Finished(i)' + Cardinality(Holders(i)') = One(i < nextid')
    <3>1. Times(i, questions') = Times(i, questions) + One(nextid = i)
      BY <1>0, <1>2, <2>1, TimesAppend DEF Question, TypeOK
    <3>2. Finished(i)' = Finished(i)
      BY <1>2, <1>u DEF Question
    <3>3. One(i < nextid') = One(i < nextid) + One(nextid = i)
      BY <2>1 DEF One, Ids
    <3>4. /\ Cardinality(Holders(i)') = Cardinality(Holders(i))
          /\ Cardinality(Holders(i)) \in Nat /\ One(nextid = i) \in Nat
      BY <2>2, HoldersFinite DEF One
    <3>5. /\ Times(i, questions) \in Nat /\ Finished(i) \in Nat
          /\ Times(i, questions) + Finished(i) + Cardinality(Holders(i)) = One(i < nextid)
      BY <1>n
    <3> QED
      BY <3>1, <3>2, <3>3, <3>4, <3>5
  <2>4. EachInOnePlace'
    BY <2>3 DEF EachInOnePlace
  <2>5. LossesCounted'
    BY <1>2, <1>l DEF Question
  <2> QED
    BY <2>2, <2>4, <2>5 DEF HandledInv
<1>3. ASSUME NEW t \in Threads, Started(t) \/ NotStarted(t)
      PROVE  HandledInv'
  BY <1>3, <1>f DEF Started, NotStarted
<1>4. ASSUME NEW t \in Threads, GetValue(t)
      PROVE  HandledInv'
  <2> DEFINE new == [thread[t] EXCEPT !.pc = "waiting", !.qcount = numquestions]
  <2>1. thread[t] \in ThreadState /\ numquestions \in Nat
    BY <1>0 DEF TypeOK
  <2>2. new \in ThreadState /\ new.q = thread[t].q /\ new.pc # "busy"
    BY <2>1 DEF ThreadState
  <2>3. thread' = [thread EXCEPT ![t] = new]
    BY <1>0, <1>4 DEF GetValue, TypeOK
  <2> HIDE DEF new
  <2> QED
    BY <1>4, <2>2, <2>3, <1>k DEF GetValue
<1>5. ASSUME NEW t \in Threads, Wait(t)
      PROVE  HandledInv'
  <2> DEFINE new == [thread[t] EXCEPT !.pc = "woken"]
  <2>1. thread[t] \in ThreadState
    BY <1>0 DEF TypeOK
  <2>2. new \in ThreadState /\ new.q = thread[t].q /\ new.pc # "busy"
    BY <2>1 DEF ThreadState
  <2>3. thread' = [thread EXCEPT ![t] = new]
    BY <1>0, <1>5 DEF Wait, TypeOK
  <2> HIDE DEF new
  <2> QED
    BY <1>5, <2>2, <2>3, <1>k DEF Wait
<1>6. ASSUME NEW t \in Threads, Pop(t)
      PROVE  HandledInv'
  <2> DEFINE new == [thread[t] EXCEPT !.pc = "busy", !.q = Head(questions)]
  <2>1. questions # <<>>
    BY <1>6, QuestionForWoken DEF Pop, DistributorInv
  <2>2. questions \in Seq(Ids) /\ Head(questions) \in Ids
    BY <1>0, <2>1, HeadTailProperties DEF TypeOK
  <2>3. thread[t] \in ThreadState /\ thread[t].q = NoQuestion
    BY <1>0, <1>6 DEF TypeOK, Pop, HoldsWhenBusy
  <2>4. new \in ThreadState /\ new.q = Head(questions) /\ new.pc = "busy"
    BY <2>2, <2>3 DEF ThreadState
  <2>5. thread' = [thread EXCEPT ![t] = new]
    BY <1>0, <1>6 DEF Pop, TypeOK
  <2> HIDE DEF new
  <2>6. new.q # NoQuestion
    BY <2>2, <2>4, Bounds DEF Ids, NoQuestion
  <2>7. HoldsWhenBusy'
    BY <1>0, <2>4, <2>5, <2>6, HoldsWhenBusyKept
  <2>8. ASSUME NEW i \in Ids
        PROVE  Times(i, questions') + Finished(i)' + Cardinality(Holders(i)') = One(i < nextid')
    <3>1. /\ Cardinality(Holders(i)) \in Nat
          /\ Cardinality(Holders(i)') =
               Cardinality(Holders(i)) - One(thread[t].q = i) + One(new.q = i)
      BY <1>0, <2>4, <2>5, HoldersChange
    <3>2. One(thread[t].q = i) = 0 /\ One(new.q = i) = One(Head(questions) = i)
      BY <2>3, <2>4, Bounds DEF Ids, NoQuestion, One
    <3>3. Times(i, questions) = Times(i, questions') + One(Head(questions) = i)
      BY <1>6, <2>1, <2>2, TimesTail DEF Pop
    <3>4. Times(i, questions') \in Nat
      BY <1>6, <2>1, <2>2, HeadTailProperties, TimesPlaces DEF Pop
    <3>5. /\ Finished(i)' = Finished(i) /\ nextid' = nextid
          /\ One(Head(questions) = i) \in Nat
      BY <1>6, <1>u DEF Pop, One
    <3> QED
      BY <1>n, <3>1, <3>2, <3>3, <3>4, <3>5
  <2>9. EachInOnePlace'
    BY <2>8 DEF EachInOnePlace
  <2>10. LossesCounted'
    BY <1>6, <1>l DEF Pop
  <2> QED
    BY <2>7, <2>9, <2>10 DEF HandledInv
<1>7. ASSUME NEW t \in Threads, Answer(t)
      PROVE  HandledInv'
  <2>1. \A i \in Ids : Finished(i)' = Finished(i) + One(thread[t].q = i)
    BY <1>0, <1>7, <1>n DEF Answer, Finished, TypeOK, One
  <2> QED
    BY <1>7, <1>e, <1>l, <2>1 DEF Answer
<1>8. ASSUME NEW t \in Threads, Die(t)
      PROVE  HandledInv'
  <2> DEFINE q == thread[t].q
  <2>1. q \in Ids
    <3>1. thread[t] \in ThreadState /\ thread[t].q # NoQuestion
      BY <1>0, <1>8 DEF Die, TypeOK, HoldsWhenBusy
    <3> QED
      BY <3>1 DEF ThreadState
  <2>2. lost' = lost \cup {q} /\ deaths' = deaths + 1 /\ UNCHANGED done
    BY <1>8 DEF Die
  <2>3. q \notin lost
    <3>1. Cardinality(Holders(q)) # 0 /\ Cardinality(Holders(q)) \in Nat
      BY HoldersFinite, FS_EmptySet DEF Holders
    <3>2. One(q < nextid) <= 1
      BY DEF One
    <3>3. Finished(q) = 0
      BY <1>n, <2>1, <3>1, <3>2 DEF One
    <3>4. done[q] \in Nat
      BY <1>n, <2>1
    <3> QED
      BY <3>3, <3>4 DEF Finished, One
  <2> HIDE DEF q
  <2>4. ASSUME NEW i \in Ids
        PROVE  Finished(i)' = Finished(i) + One(q = i)
    <3>1. done[i] \in Nat
      BY <1>n
    <3> QED
      BY <2>2, <2>3, <3>1 DEF Finished, One
  <2>5. LossesCounted'
    <3>1. IsFiniteSet(lost) /\ Cardinality(lost) \in Nat /\ Cardinality(lost) <= deaths
          /\ deaths \in Nat
      BY <1>0, Bounds, FS_CardinalityType DEF LossesCounted, TypeOK
    <3>2. IsFiniteSet(lost') /\ Cardinality(lost') = Cardinality(lost) + 1
      BY <2>2, <2>3, <3>1, FS_AddElement
    <3> QED
      BY <2>2, <3>1, <3>2 DEF LossesCounted
  <2> QED
    BY <1>8, <1>e, <2>4, <2>5 DEF Die, q
<1> QED
  BY <1>1, <1>2, <1>3, <1>4, <1>5, <1>6, <1>7, <1>8 DEF Next, Receiver, Run

LEMMA HandledInit == Init => HandledInv
<1> SUFFICES ASSUME Init PROVE HandledInv
  OBVIOUS
<1>1. \A t \in Threads : thread[t].q = NoQuestion /\ thread[t].pc # "busy"
  BY DEF Init, Fresh
<1>2. ASSUME NEW i \in Ids
      PROVE  Times(i, questions) + Finished(i) + Cardinality(Holders(i)) = One(i < nextid)
  <2>1. Holders(i) = {}
    BY <1>1, Bounds DEF Holders, Ids, NoQuestion
  <2>2. Places(i, <<>>) = {} /\ <<>> \in Seq(Ids)
    BY EmptySeq DEF Places
  <2>3. Times(i, <<>>) = 0
    BY <2>2, TimesPlaces, FS_EmptySet
  <2> QED
    BY <2>1, <2>3, FS_EmptySet DEF Init, Finished, Ids, One
<1>3. LossesCounted
  BY FS_EmptySet DEF Init, LossesCounted
<1> QED
  BY <1>1, <1>2, <1>3 DEF HandledInv, HoldsWhenBusy, EachInOnePlace

(* The types hold for any number of threads and questions; a woken thread   *)
(* takes an id off the queue, never the front of an empty one.              *)
THEOREM TypeCorrect == Spec => []TypeOK
<1>1. DistributorInv => TypeOK
  BY DEF DistributorInv
<1> QED
  BY <1>1, DistributorInit, DistributorInductive, HandledInit, HandledInductive, PTL DEF Spec

(***************************************************************************)
(* Every queued question has a wake-up of its own, however many threads    *)
(* wait for them, are started or die.                                      *)
(***************************************************************************)
THEOREM WakeupsSafe == Spec => []WakeupPerQuestion
<1>1. DistributorInv => WakeupPerQuestion
  BY DEF DistributorInv
<1> QED
  BY <1>1, DistributorInit, DistributorInductive, HandledInit, HandledInductive, PTL DEF Spec

(***************************************************************************)
(* A question that question() took in is in the queue, with one thread,    *)
(* answered or lost with its backend, and just once, and no more are lost  *)
(* than backends failed, for any number of threads and questions.          *)
(***************************************************************************)
THEOREM HandledSafe == Spec => []HandledOnce
<1>1. DistributorInv /\ HandledInv => HandledOnce
  <2> SUFFICES ASSUME DistributorInv, HandledInv PROVE HandledOnce
    OBVIOUS
  <2>1. ASSUME NEW i \in 0 .. nextid - 1
        PROVE  Times(i, questions) + Cardinality(Holders(i)) + done[i] + One(i \in lost) = 1
    <3>1. i \in Ids /\ i < nextid
      BY Bounds DEF DistributorInv, TypeOK, Ids
    <3>2. /\ Times(i, questions) \in Nat /\ done[i] \in Nat /\ Cardinality(Holders(i)) \in Nat
          /\ One(i \in lost) \in Nat
      BY <3>1, TimesPlaces, HoldersFinite DEF DistributorInv, TypeOK, One
    <3>3. Times(i, questions) + (done[i] + One(i \in lost)) + Cardinality(Holders(i)) = 1
      BY <3>1 DEF HandledInv, EachInOnePlace, Finished, One
    <3> QED
      BY <3>2, <3>3
  <2> QED
    BY <2>1 DEF HandledOnce, HandledInv, LossesCounted, Holders, One
<1> QED
  BY <1>1, DistributorInit, DistributorInductive, HandledInit, HandledInductive, PTL DEF Spec

-----------------------------------------------------------------------------
(***************************************************************************)
(* The ChunkedSigningPipe, to the end of the module.                       *)
(* The chunks in a row: FlattenSeq is a recursive function of the number   *)
(* of chunks; the least number for which something fails is the induction. *)
(***************************************************************************)
LEMMA LeastNumber ==
  ASSUME NEW T \in SUBSET Nat, T # {}
  PROVE  \E x \in T : \A y \in T : x <= y
<1>1. IsWellFoundedOn(OpToRel(<, Nat), Nat)
  BY NatLessThanWellFounded
<1>2. PICK x \in T : \A y \in T : ~(<<y, x>> \in OpToRel(<, Nat))
  BY <1>1, WFMin
<1>3. \A y \in T : ~(y < x)
  BY <1>2 DEF OpToRel
<1> QED
  BY <1>3

InRow(f, cs, n) == f = [i \in 1 .. n |-> IF i = 1 THEN cs[i] ELSE f[i - 1] \o cs[i]]

LEMMA RowSteps ==
  ASSUME NEW f, NEW cs, NEW n \in Nat, InRow(f, cs, n)
  PROVE  \A i \in 1 .. n : f[i] = IF i = 1 THEN cs[1] ELSE f[i - 1] \o cs[i]
<1>1. PICK g : g = f
  OBVIOUS
<1>2. f = [i \in 1 .. n |-> IF i = 1 THEN cs[i] ELSE g[i - 1] \o cs[i]]
  BY <1>1 DEF InRow
<1>3. \A i \in 1 .. n : f[i] = IF i = 1 THEN cs[i] ELSE g[i - 1] \o cs[i]
  BY <1>2
<1> QED
  BY <1>1, <1>3

LEMMA RowFrom ==
  ASSUME NEW f, NEW cs, NEW n \in Nat, DOMAIN f = 1 .. n, f = [i \in DOMAIN f |-> f[i]],
         \A i \in 1 .. n : f[i] = IF i = 1 THEN cs[1] ELSE f[i - 1] \o cs[i]
  PROVE  InRow(f, cs, n)
<1>1. PICK g : g = f
  OBVIOUS
<1>2. f = [i \in 1 .. n |-> IF i = 1 THEN cs[i] ELSE g[i - 1] \o cs[i]]
  BY <1>1
<1> QED
  BY <1>1, <1>2 DEF InRow

LEMMA RowGrows ==
  ASSUME NEW cs, NEW n \in Nat, n # 0, \E f : InRow(f, cs, n - 1)
  PROVE  \E f : InRow(f, cs, n)
<1>1. PICK f : InRow(f, cs, n - 1)
  OBVIOUS
<1>2. PICK g : g = [i \in 1 .. n |-> IF i = n THEN (IF n = 1 THEN cs[1] ELSE f[n - 1] \o cs[n]) ELSE f[i]]
  OBVIOUS
<1>3. \A i \in 1 .. n - 1 : f[i] = IF i = 1 THEN cs[1] ELSE f[i - 1] \o cs[i]
  BY <1>1, RowSteps
<1>4. \A i \in 1 .. n : g[i] = IF i = 1 THEN cs[1] ELSE g[i - 1] \o cs[i]
  <2>1. SUFFICES ASSUME NEW i \in 1 .. n PROVE g[i] = IF i = 1 THEN cs[1] ELSE g[i - 1] \o cs[i]
    OBVIOUS
  <2>2. i # 1 => i - 1 \in 1 .. n /\ i - 1 # n /\ g[i - 1] = f[i - 1]
    BY <1>2
  <2>3. CASE i = n
    BY <1>2, <2>2, <2>3
  <2>4. CASE i # n
    <3>1. i \in 1 .. n - 1 /\ g[i] = f[i]
      BY <1>2, <2>4
    <3> QED
      BY <1>3, <2>2, <3>1
  <2> QED
    BY <2>3, <2>4
<1>5. DOMAIN g = 1 .. n /\ g = [i \in DOMAIN g |-> g[i]]
  BY <1>2
<1> QED
  BY <1>4, <1>5, RowFrom

LEMMA RowExists ==
  ASSUME NEW cs, NEW n \in Nat
  PROVE  \E f : InRow(f, cs, n)
<1>1. PICK T : T = {k \in Nat : ~\E f : InRow(f, cs, k)}
  OBVIOUS
<1>2. ASSUME T # {} PROVE FALSE
  <2>1. PICK k \in T : \A l \in T : k <= l
    BY <1>1, <1>2, LeastNumber
  <2>2. k \in Nat /\ ~\E f : InRow(f, cs, k)
    BY <1>1
  <2>3. k # 0
    <3>1. ASSUME k = 0 PROVE FALSE
      <4>1. PICK g : g = [i \in 1 .. 0 |-> cs[i]]
        OBVIOUS
      <4>2. DOMAIN g = 1 .. 0 /\ g = [i \in DOMAIN g |-> g[i]] /\ \A i \in 1 .. 0 : FALSE
        BY <4>1
      <4>3. InRow(g, cs, 0)
        BY <4>2, RowFrom
      <4> QED
        BY <2>2, <3>1, <4>3
    <3> QED
      BY <3>1
  <2>4. k - 1 \in Nat /\ k - 1 \notin T
    BY <2>1, <2>2, <2>3
  <2>5. \E f : InRow(f, cs, k - 1)
    BY <1>1, <2>4
  <2> QED
    BY <2>2, <2>3, <2>5, RowGrows
<1> QED
  BY <1>1, <1>2

LEMMA RowUnique ==
  ASSUME NEW f, NEW g, NEW cs, NEW n \in Nat, InRow(f, cs, n), InRow(g, cs, n)
  PROVE  \A i \in 1 .. n : f[i] = g[i]
<1>1. PICK T : T = {k \in 1 .. n : f[k] # g[k]}
  OBVIOUS
<1>2. ASSUME T # {} PROVE FALSE
  <2>1. PICK k \in T : \A l \in T : k <= l
    BY <1>1, <1>2, LeastNumber
  <2>2. k \in 1 .. n /\ f[k] # g[k]
    BY <1>1
  <2>3. k # 1 => k - 1 \in 1 .. n /\ k - 1 \notin T
    BY <2>1, <2>2
  <2>4. k # 1 => f[k - 1] = g[k - 1]
    BY <1>1, <2>3
  <2> QED
    BY <2>2, <2>4, RowSteps
<1> QED
  BY <1>1, <1>2

LEMMA FlattenIs ==
  ASSUME NEW cs, Len(cs) \in Nat, Len(cs) # 0, NEW f, InRow(f, cs, Len(cs))
  PROVE  FlattenSeq(cs) = f[Len(cs)]
<1>1. PICK n : n = Len(cs)
  OBVIOUS
<1>2. PICK g : g = CHOOSE h : h = [i \in 1 .. Len(cs) |-> IF i = 1 THEN cs[i] ELSE h[i - 1] \o cs[i]]
  OBVIOUS
<1>3. FlattenSeq(cs) = g[Len(cs)]
  BY <1>2 DEF FlattenSeq
<1>4. \E h : h = [i \in 1 .. Len(cs) |-> IF i = 1 THEN cs[i] ELSE h[i - 1] \o cs[i]]
  BY DEF InRow
<1>5. g = [i \in 1 .. Len(cs) |-> IF i = 1 THEN cs[i] ELSE g[i - 1] \o cs[i]]
  BY <1>2, <1>4, Zenon
<1>6. InRow(g, cs, Len(cs))
  BY <1>5 DEF InRow
<1>7. Len(cs) \in 1 .. Len(cs)
  OBVIOUS
<1> QED
  BY <1>3, <1>6, <1>7, RowUnique

(* Chunks are sequences of numbers. *)
Numbers == Seq(Int)
Row(cs) == FlattenSeq(cs)

LEMMA RowAssociative ==
  ASSUME NEW s \in Numbers, NEW t \in Numbers, NEW u \in Numbers
  PROVE  (s \o t) \o u = s \o (t \o u)
BY ConcatAssociative DEF Numbers

LEMMA RowTyped ==
  ASSUME NEW cs \in Seq(Numbers), cs # <<>>, NEW f, InRow(f, cs, Len(cs))
  PROVE  \A i \in 1 .. Len(cs) : f[i] \in Numbers
<1>1. PICK T : T = {k \in 1 .. Len(cs) : f[k] \notin Numbers}
  OBVIOUS
<1>2. Len(cs) \in Nat /\ \A i \in 1 .. Len(cs) : cs[i] \in Numbers
  BY LenProperties, ElementOfSeq
<1>3. ASSUME T # {} PROVE FALSE
  <2>0. T \in SUBSET Nat
    BY <1>1, <1>2
  <2>1. PICK k \in T : \A l \in T : k <= l
    BY <1>3, <2>0, LeastNumber
  <2>2. k \in 1 .. Len(cs) /\ f[k] \notin Numbers
    BY <1>1
  <2>3. k # 1 => k - 1 \in 1 .. Len(cs) /\ k - 1 \notin T
    BY <1>2, <2>1, <2>2
  <2>4. k # 1 => f[k - 1] \in Numbers
    BY <1>1, <2>3
  <2>5. cs[k] \in Numbers
    BY <1>2, <2>2
  <2>6. k # 1 => f[k - 1] \o cs[k] \in Numbers
    BY <2>4, <2>5, ConcatProperties DEF Numbers
  <2>7. f[k] = IF k = 1 THEN cs[1] ELSE f[k - 1] \o cs[k]
    BY <1>2, <2>2, RowSteps
  <2> QED
    BY <2>2, <2>5, <2>6, <2>7
<1> QED
  BY <1>1, <1>3

LEMMA FlattenTyped ==
  ASSUME NEW cs \in Seq(Numbers), cs # <<>>
  PROVE  Row(cs) \in Numbers
<1>1. Len(cs) \in Nat /\ Len(cs) # 0
  BY EmptySeq, LenProperties
<1>2. PICK f : InRow(f, cs, Len(cs))
  BY <1>1, RowExists
<1>3. Row(cs) = f[Len(cs)]
  BY <1>1, <1>2, FlattenIs DEF Row
<1> QED
  BY <1>1, <1>2, <1>3, RowTyped

LEMMA FlattenOne ==
  ASSUME NEW c \in Numbers
  PROVE  Row(<<c>>) = c
<1>1. PICK cs : cs = <<c>>
  OBVIOUS
<1>2. Len(cs) = 1 /\ cs[1] = c
  BY <1>1
<1>3. PICK f : InRow(f, cs, 1)
  BY RowExists
<1>4. \A i \in 1 .. 1 : f[i] = IF i = 1 THEN cs[1] ELSE f[i - 1] \o cs[i]
  BY <1>3, RowSteps
<1>5. f[1] = c
  BY <1>2, <1>4
<1>6. FlattenSeq(cs) = f[Len(cs)]
  <2>1. Len(cs) \in Nat /\ Len(cs) # 0 /\ InRow(f, cs, Len(cs))
    BY <1>2, <1>3
  <2> QED
    BY <2>1, FlattenIs
<1> QED
  BY <1>1, <1>2, <1>5, <1>6 DEF Row

(* One chunk more at the end. *)
LEMMA FlattenAppend ==
  ASSUME NEW cs \in Seq(Numbers), cs # <<>>, NEW c \in Numbers
  PROVE  Row(Append(cs, c)) = Row(cs) \o c
<1>1. PICK n : n = Len(cs)
  OBVIOUS
<1>2. n \in Nat /\ n # 0
  BY <1>1, EmptySeq, LenProperties
<1>3. PICK ds : ds = Append(cs, c)
  OBVIOUS
<1>4. ds \in Seq(Numbers) /\ Len(ds) = n + 1 /\ ds[n + 1] = c /\ \A i \in 1 .. n : ds[i] = cs[i]
  BY <1>1, <1>3, AppendProperties
<1>5. PICK f : InRow(f, cs, n)
  BY <1>2, RowExists
<1>6. PICK g : InRow(g, ds, n + 1)
  BY <1>2, RowExists
<1>7. \A i \in 1 .. n : g[i] = f[i]
  <2>1. PICK h : h = [i \in 1 .. n |-> g[i]]
    OBVIOUS
  <2>2. DOMAIN h = 1 .. n /\ h = [i \in DOMAIN h |-> h[i]]
    BY <2>1
  <2>3. \A i \in 1 .. n + 1 : g[i] = IF i = 1 THEN ds[1] ELSE g[i - 1] \o ds[i]
    BY <1>2, <1>6, RowSteps
  <2>4. \A i \in 1 .. n : h[i] = IF i = 1 THEN cs[1] ELSE h[i - 1] \o cs[i]
    <3>1. SUFFICES ASSUME NEW i \in 1 .. n PROVE h[i] = IF i = 1 THEN cs[1] ELSE h[i - 1] \o cs[i]
      OBVIOUS
    <3>2. i \in 1 .. n + 1 /\ h[i] = g[i] /\ ds[i] = cs[i]
      BY <1>2, <1>4, <2>1
    <3>3. i # 1 => h[i - 1] = g[i - 1]
      BY <1>2, <2>1
    <3> QED
      BY <2>3, <3>2, <3>3
  <2>5. InRow(h, cs, n)
    BY <1>2, <2>2, <2>4, RowFrom
  <2>6. \A i \in 1 .. n : h[i] = f[i]
    BY <1>2, <1>5, <2>5, RowUnique
  <2> QED
    BY <2>1, <2>6
<1>8. g[n + 1] = g[n] \o c
  <2>1. n + 1 \in Nat /\ n + 1 \in 1 .. n + 1 /\ n + 1 # 1 /\ (n + 1) - 1 = n
    BY <1>2
  <2>2. \A i \in 1 .. n + 1 : g[i] = IF i = 1 THEN ds[1] ELSE g[i - 1] \o ds[i]
    BY <1>6, <2>1, RowSteps
  <2> QED
    BY <1>4, <2>1, <2>2
<1>9. Row(ds) = g[n + 1] /\ Row(cs) = f[n]
  BY <1>1, <1>2, <1>4, <1>5, <1>6, FlattenIs DEF Row
<1>10. n \in 1 .. n
  BY <1>2
<1> QED
  BY <1>3, <1>7, <1>8, <1>9, <1>10

(* More in the last chunk. *)
LEMMA FlattenFill ==
  ASSUME NEW cs \in Seq(Numbers), cs # <<>>, NEW c \in Numbers
  PROVE  Row([cs EXCEPT ![Len(cs)] = cs[Len(cs)] \o c]) = Row(cs) \o c
<1>1. PICK n : n = Len(cs)
  OBVIOUS
<1>2. n \in Nat /\ n # 0 /\ n \in 1 .. n
  BY <1>1, EmptySeq, LenProperties
<1>3. PICK ds : ds = [cs EXCEPT ![Len(cs)] = cs[Len(cs)] \o c]
  OBVIOUS
<1>4. \A i \in 1 .. n : cs[i] \in Numbers
  BY <1>1, ElementOfSeq
<1>5. cs[n] \o c \in Numbers
  BY <1>2, <1>4, ConcatProperties DEF Numbers
<1>6. ds \in Seq(Numbers) /\ Len(ds) = n /\ \A i \in 1 .. n : ds[i] = IF i = n THEN cs[n] \o c ELSE cs[i]
  BY <1>1, <1>2, <1>3, <1>5, ExceptSeq
<1>7. PICK f : InRow(f, cs, n)
  BY <1>2, RowExists
<1>8. PICK g : InRow(g, ds, n)
  BY <1>2, RowExists
<1>9. \A i \in 1 .. n : f[i] = IF i = 1 THEN cs[1] ELSE f[i - 1] \o cs[i]
  BY <1>2, <1>7, RowSteps
<1>10. \A i \in 1 .. n : f[i] \in Numbers
  BY <1>1, <1>7, RowTyped
<1>11. PICK h : h = [i \in 1 .. n |-> IF i = n THEN f[n] \o c ELSE f[i]]
  OBVIOUS
<1>12. \A i \in 1 .. n : h[i] = IF i = 1 THEN ds[1] ELSE h[i - 1] \o ds[i]
  <2>1. SUFFICES ASSUME NEW i \in 1 .. n PROVE h[i] = IF i = 1 THEN ds[1] ELSE h[i - 1] \o ds[i]
    OBVIOUS
  <2>2. i # 1 => i - 1 \in 1 .. n /\ i - 1 # n /\ h[i - 1] = f[i - 1]
    BY <1>2, <1>11
  <2>3. CASE i # n
    BY <1>6, <1>9, <1>11, <2>2, <2>3
  <2>4. CASE i = n /\ i = 1
    BY <1>6, <1>9, <1>11, <2>4
  <2>5. CASE i = n /\ i # 1
    <3>1. h[i] = (f[i - 1] \o cs[n]) \o c
      BY <1>9, <1>11, <2>5
    <3>2. f[i - 1] \in Numbers /\ cs[n] \in Numbers
      BY <1>2, <1>4, <1>10, <2>2, <2>5
    <3>3. (f[i - 1] \o cs[n]) \o c = f[i - 1] \o (cs[n] \o c)
      BY <3>2, RowAssociative
    <3> QED
      BY <1>6, <2>2, <2>5, <3>1, <3>3
  <2> QED
    BY <2>3, <2>4, <2>5
<1>13. DOMAIN h = 1 .. n /\ h = [i \in DOMAIN h |-> h[i]]
  BY <1>11
<1>14. InRow(h, ds, n)
  BY <1>2, <1>12, <1>13, RowFrom
<1>15. Row(ds) = h[n] /\ Row(cs) = f[n]
  BY <1>1, <1>2, <1>6, <1>7, <1>14, FlattenIs DEF Row
<1> QED
  BY <1>2, <1>3, <1>11, <1>15

(* The first chunk taken off. *)
LEMMA FlattenTail ==
  ASSUME NEW cs \in Seq(Numbers), Len(cs) # 1, cs # <<>>
  PROVE  /\ Tail(cs) \in Seq(Numbers) /\ Tail(cs) # <<>>
         /\ cs[1] \o Row(Tail(cs)) = Row(cs)
<1>1. PICK n : n = Len(cs)
  OBVIOUS
<1>2. n \in Nat /\ n # 0 /\ n # 1 /\ n - 1 \in 1 .. n /\ n - 1 \in Nat /\ n \in 1 .. n
  BY <1>1, EmptySeq, LenProperties
<1>3. PICK ds : ds = Tail(cs)
  OBVIOUS
<1>4. ds \in Seq(Numbers) /\ Len(ds) = n - 1 /\ \A i \in 1 .. n - 1 : ds[i] = cs[i + 1]
  BY <1>1, <1>3, HeadTailProperties
<1>5. ds # <<>>
  BY <1>2, <1>4, EmptySeq
<1>6. \A i \in 1 .. n : cs[i] \in Numbers
  BY <1>1, ElementOfSeq
<1>7. PICK g : InRow(g, ds, n - 1)
  BY <1>2, RowExists
<1>8. \A i \in 1 .. n - 1 : g[i] = IF i = 1 THEN ds[1] ELSE g[i - 1] \o ds[i]
  BY <1>2, <1>7, RowSteps
<1>9. \A i \in 1 .. n - 1 : g[i] \in Numbers
  BY <1>4, <1>5, <1>7, RowTyped
<1>10. PICK h : h = [i \in 1 .. n |-> IF i = 1 THEN cs[1] ELSE cs[1] \o g[i - 1]]
  OBVIOUS
<1>11. \A i \in 1 .. n : h[i] = IF i = 1 THEN cs[1] ELSE h[i - 1] \o cs[i]
  <2>1. SUFFICES ASSUME NEW i \in 1 .. n PROVE h[i] = IF i = 1 THEN cs[1] ELSE h[i - 1] \o cs[i]
    OBVIOUS
  <2>2. CASE i = 1
    BY <1>10, <2>2
  <2>3. CASE i = 2
    <3>1. 1 \in 1 .. n /\ 1 \in 1 .. n - 1 /\ i - 1 = 1 /\ 1 + 1 = i
      BY <1>2, <2>3
    <3>2. h[i] = cs[1] \o g[1] /\ h[1] = cs[1]
      <4>0. i # 1
        BY <2>3
      <4>1. h[i] = cs[1] \o g[i - 1]
        BY <1>10, <4>0
      <4>2. h[1] = cs[1]
        BY <1>10, <3>1
      <4> QED
        BY <3>1, <4>1, <4>2
    <3>3. g[1] = ds[1]
      <4>1. PICK j : j = 1
        OBVIOUS
      <4>2. g[j] = ds[1]
        BY <1>8, <3>1, <4>1
      <4> QED
        BY <4>1, <4>2
    <3>4. ds[1] = cs[i]
      BY <1>4, <3>1
    <3> QED
      BY <2>3, <3>1, <3>2, <3>3, <3>4
  <2>4. CASE i # 1 /\ i # 2
    <3>1. PICK j : j = i - 1
      OBVIOUS
    <3>2. j \in 1 .. n - 1 /\ j # 1 /\ j - 1 \in 1 .. n - 1 /\ j \in 1 .. n /\ j + 1 = i
      BY <1>2, <2>4, <3>1
    <3>3. g[j] = g[j - 1] \o ds[j] /\ ds[j] = cs[i]
      BY <1>4, <1>8, <3>2
    <3>4. h[i] = cs[1] \o g[j] /\ h[j] = cs[1] \o g[j - 1]
      BY <1>10, <2>4, <3>1, <3>2
    <3>5. cs[1] \in Numbers /\ g[j - 1] \in Numbers /\ cs[i] \in Numbers
      BY <1>2, <1>6, <1>9, <3>2
    <3>6. (cs[1] \o g[j - 1]) \o cs[i] = cs[1] \o (g[j - 1] \o cs[i])
      BY <3>5, RowAssociative
    <3> QED
      BY <2>4, <3>1, <3>3, <3>4, <3>6
  <2> QED
    BY <2>2, <2>3, <2>4
<1>12. DOMAIN h = 1 .. n /\ h = [i \in DOMAIN h |-> h[i]]
  BY <1>10
<1>13. InRow(h, cs, n)
  BY <1>2, <1>11, <1>12, RowFrom
<1>14. Row(cs) = h[n] /\ Row(ds) = g[n - 1]
  BY <1>1, <1>2, <1>4, <1>7, <1>13, FlattenIs DEF Row
<1>15. h[n] = cs[1] \o g[n - 1]
  <2>1. n \in 1 .. n /\ n # 1
    BY <1>2
  <2> QED
    BY <1>10, <2>1
<1> QED
  BY <1>3, <1>4, <1>5, <1>14, <1>15

-----------------------------------------------------------------------------
(***************************************************************************)
(* addSignedToChunks leaves everything in a row, and no chunk empty but    *)
(* the last.                                                               *)
(***************************************************************************)
LEMMA MinOfTwo ==
  ASSUME NEW a \in Nat, NEW b \in Nat
  PROVE  Min({a, b}) = IF a <= b THEN a ELSE b
<1>1. PICK m : m = IF a <= b THEN a ELSE b
  OBVIOUS
<1>2. m \in {a, b} /\ \A y \in {a, b} : m <= y
  BY <1>1
<1>3. \A x \in {a, b} : (\A y \in {a, b} : x <= y) => x = m
  BY <1>1
<1>4. Min({a, b}) \in {a, b} /\ \A y \in {a, b} : Min({a, b}) <= y
  BY <1>2 DEF Min
<1> QED
  BY <1>1, <1>3, <1>4

LEMMA TimesGrows ==
  ASSUME NEW a \in Nat, NEW d \in Nat, NEW m \in Nat
  PROVE  a * m \in Nat /\ a * m <= (a + d) * m /\ (a + 1) * m = a * m + m
<1>1. (a + d) * m = a * m + d * m /\ a * m \in Nat /\ d * m \in Nat
  OBVIOUS
<1>2. (a + 1) * m = a * m + m
  OBVIOUS
<1> QED
  BY <1>1, <1>2

LEMMA Pieces ==
  ASSUME NEW l \in Nat, NEW m \in Nat \ {0}, NEW q, q = (l + m - 1) \div m
  PROVE  /\ q \in Nat /\ q * m \in Nat /\ l <= q * m
         /\ \A k \in 1 .. q : /\ (k - 1) * m \in Nat /\ k * m \in Nat
                              /\ (k - 1) * m < l /\ k * m = (k - 1) * m + m
<1>1. PICK x : x = l + m - 1
  OBVIOUS
<1>2. x \in Nat
  BY <1>1
<1>3. q \in Nat /\ q * m <= x /\ x < q * m + m
  BY <1>1, <1>2
<1>4. q * m \in Nat
  BY <1>3
<1>5. l <= q * m
  BY <1>1, <1>3, <1>4
<1>6. ASSUME NEW k \in 1 .. q
      PROVE  /\ (k - 1) * m \in Nat /\ k * m \in Nat
             /\ (k - 1) * m < l /\ k * m = (k - 1) * m + m
  <2>1. PICK a, d : a = k - 1 /\ d = q - k
    OBVIOUS
  <2>2. a \in Nat /\ a + 1 = k /\ k + d = q /\ k \in Nat /\ d \in Nat
    BY <1>3, <2>1
  <2>3. a * m \in Nat /\ (a + 1) * m = a * m + m
    BY <2>2, TimesGrows
  <2>4. k * m \in Nat /\ k * m <= (k + d) * m
    BY <2>2, TimesGrows
  <2>5. k * m = a * m + m /\ k * m <= q * m
    BY <2>2, <2>3, <2>4
  <2>6. a * m < l
    BY <1>1, <1>3, <1>4, <2>3, <2>4, <2>5
  <2> QED
    BY <2>1, <2>3, <2>4, <2>5, <2>6
<1> QED
  BY <1>3, <1>4, <1>5, <1>6

Packed(cs) ==
  /\ cs \in Seq(Numbers) /\ cs # <<>>
  /\ Len(cs[Len(cs)]) <= MaxChunk
  /\ \A k \in 1 .. Len(cs) - 1 : cs[k] # <<>>

(* A sequence in pieces of m. *)
Piece(s, m, k) == SubSeq(s, (k - 1) * m + 1, Min({k * m, Len(s)}))
NumberOfPieces(s, m) == (Len(s) + m - 1) \div m
FirstPieces(s, m, j) == [k \in 1 .. j |-> Piece(s, m, k)]

LEMMA PieceIs ==
  ASSUME NEW s \in Numbers, NEW m \in Nat \ {0}, NEW q, q = (Len(s) + m - 1) \div m, NEW k \in 1 .. q
  PROVE  /\ Piece(s, m, k) \in Numbers /\ Piece(s, m, k) # <<>> /\ Len(Piece(s, m, k)) <= m
         /\ k > 1 => Min({(k - 1) * m, Len(s)}) = (k - 1) * m
         /\ SubSeq(s, 1, (k - 1) * m) \o Piece(s, m, k) = SubSeq(s, 1, Min({k * m, Len(s)}))
<1>1. PICK l : l = Len(s)
  OBVIOUS
<1>2. l \in Nat
  BY <1>1, LenProperties DEF Numbers
<1>3. /\ q \in Nat /\ (k - 1) * m \in Nat /\ k * m \in Nat
      /\ (k - 1) * m < l /\ k * m = (k - 1) * m + m
  BY <1>1, <1>2, Pieces
<1>4. PICK from, to : from = (k - 1) * m /\ to = Min({k * m, l})
  OBVIOUS
<1>5. to = IF k * m <= l THEN k * m ELSE l
  BY <1>2, <1>3, <1>4, MinOfTwo
<1>6. from \in Nat /\ to \in Nat /\ from < to /\ to <= l /\ to <= from + m
  BY <1>2, <1>3, <1>4, <1>5
<1>7. PICK p : p = Piece(s, m, k)
  OBVIOUS
<1>8. p = SubSeq(s, from + 1, to)
  BY <1>1, <1>4, <1>7 DEF Piece
<1>9. \A i \in from + 1 .. to : s[i] \in Int
  BY <1>1, <1>6, ElementOfSeq DEF Numbers
<1>10. p \in Seq(Int) /\ Len(p) = IF from + 1 <= to THEN to - (from + 1) + 1 ELSE 0
  BY <1>6, <1>8, <1>9, SubSeqProperties
<1>11. Len(p) = to - from /\ Len(p) # 0 /\ Len(p) <= m
  BY <1>6, <1>10
<1>12. p # <<>>
  BY <1>11, EmptySeq
<1>13. Min({(k - 1) * m, l}) = (k - 1) * m
  BY <1>2, <1>3, MinOfTwo
<1>14. SubSeq(s, 1, from) \o SubSeq(s, from + 1, to) = SubSeq(s, 1, to)
  <2>1. 1 \in 1 .. Len(s) + 1 /\ from \in 1 - 1 .. Len(s) /\ to \in from .. Len(s)
    BY <1>1, <1>2, <1>6
  <2> QED
    BY <2>1, ConcatAdjacentSubSeq DEF Numbers
<1> QED
  BY <1>1, <1>4, <1>7, <1>8, <1>10, <1>11, <1>12, <1>13, <1>14 DEF Numbers

LEMMA JoinedAt ==
  ASSUME NEW base \in Seq(Numbers), NEW more \in Seq(Numbers)
  PROVE  /\ base \o more \in Seq(Numbers)
         /\ Len(base) \in Nat /\ Len(more) \in Nat /\ Len(base \o more) = Len(base) + Len(more)
         /\ \A k \in 1 .. Len(base) + Len(more) :
              (base \o more)[k] = IF k <= Len(base) THEN base[k] ELSE more[k - Len(base)]
BY ConcatProperties, LenProperties

LEMMA NoneJoined ==
  ASSUME NEW base \in Seq(Numbers), base # <<>>, NEW more \in Seq(Numbers)
  PROVE  base \o more # <<>>
<1>1. Len(base) \in Nat \ {0}
  BY EmptySeq
<1>2. Len(base \o more) # 0
  BY <1>1, JoinedAt
<1> QED
  BY <1>2, EmptySeq

LEMMA JoinedAppend ==
  ASSUME NEW base \in Seq(Numbers), NEW more \in Seq(Numbers), NEW p \in Numbers
  PROVE  base \o Append(more, p) = Append(base \o more, p)
<1>1. PICK q : q = <<p>>
  OBVIOUS
<1>2. q \in Seq(Numbers)
  BY <1>1
<1>3. Append(more, p) = more \o q
  BY <1>1, AppendIsConcat
<1>4. base \o more \in Seq(Numbers)
  BY JoinedAt
<1>5. Append(base \o more, p) = (base \o more) \o q
  BY <1>1, <1>4, AppendIsConcat
<1> QED
  BY <1>2, <1>3, <1>5, ConcatAssociative

LEMMA FirstPiecesTyped ==
  ASSUME NEW s \in Numbers, NEW m \in Nat \ {0}, NEW j \in 0 .. (Len(s) + m - 1) \div m
  PROVE  /\ FirstPieces(s, m, j) \in Seq(Numbers) /\ Len(FirstPieces(s, m, j)) = j
         /\ \A k \in 1 .. j : FirstPieces(s, m, j)[k] = Piece(s, m, k)
<1>1. PICK q : q = (Len(s) + m - 1) \div m
  OBVIOUS
<1>2. q \in Nat
  BY <1>1, LenProperties, Pieces DEF Numbers
<1>3. j \in Nat /\ \A k \in 1 .. j : k \in 1 .. q
  BY <1>1, <1>2
<1>4. \A k \in 1 .. j : Piece(s, m, k) \in Numbers
  BY <1>1, <1>3, PieceIs
<1> QED
  BY <1>3, <1>4 DEF FirstPieces

LEMMA FirstPiecesGrow ==
  ASSUME NEW s \in Numbers, NEW m \in Nat \ {0}, NEW j \in 1 .. (Len(s) + m - 1) \div m
  PROVE  /\ Piece(s, m, j) \in Numbers /\ j - 1 \in 0 .. (Len(s) + m - 1) \div m
         /\ FirstPieces(s, m, j) = Append(FirstPieces(s, m, j - 1), Piece(s, m, j))
<1>1. PICK q : q = (Len(s) + m - 1) \div m
  OBVIOUS
<1>2. q \in Nat
  BY <1>1, LenProperties, Pieces DEF Numbers
<1>3. j \in 0 .. q /\ j - 1 \in 0 .. q /\ j \in 1 .. q
  BY <1>1, <1>2
<1>4. PICK p, less, more : /\ p = Piece(s, m, j) /\ less = FirstPieces(s, m, j - 1)
                           /\ more = FirstPieces(s, m, j)
  OBVIOUS
<1>5. p \in Numbers
  BY <1>1, <1>3, <1>4, PieceIs
<1>6. less \in Seq(Numbers) /\ Len(less) = j - 1 /\ \A k \in 1 .. j - 1 : less[k] = Piece(s, m, k)
  BY <1>1, <1>3, <1>4, FirstPiecesTyped
<1>7. more \in Seq(Numbers) /\ Len(more) = j /\ \A k \in 1 .. j : more[k] = Piece(s, m, k)
  BY <1>1, <1>3, <1>4, FirstPiecesTyped
<1>8. PICK t : t = Append(less, p)
  OBVIOUS
<1>9. /\ t \in Seq(Numbers) /\ Len(t) = (j - 1) + 1 /\ t[(j - 1) + 1] = p
      /\ \A k \in 1 .. j - 1 : t[k] = less[k]
  BY <1>5, <1>6, <1>8, AppendProperties
<1>10. Len(t) = j /\ t[j] = p
  BY <1>3, <1>9
<1>11. ASSUME NEW k \in 1 .. j PROVE more[k] = t[k]
  <2>1. CASE k = j
    BY <1>4, <1>7, <1>10, <2>1
  <2>2. CASE k # j
    <3>1. k \in 1 .. j - 1
      BY <1>2, <1>3, <2>2
    <3> QED
      BY <1>6, <1>7, <1>9, <3>1
  <2> QED
    BY <2>1, <2>2
<1>12. more = t
  BY <1>7, <1>9, <1>10, <1>11, SeqEqual
<1> QED
  BY <1>1, <1>3, <1>4, <1>5, <1>8, <1>12

LEMMA PiecesInRow ==
  ASSUME NEW base \in Seq(Numbers), base # <<>>, NEW s \in Numbers, NEW m \in Nat \ {0}
  PROVE  Row(base \o FirstPieces(s, m, NumberOfPieces(s, m))) = Row(base) \o s
<1> DEFINE q == NumberOfPieces(s, m)
<1>0. q = (Len(s) + m - 1) \div m
  BY DEF NumberOfPieces
<1> HIDE DEF q
<1>1. PICK l : l = Len(s)
  OBVIOUS
<1>2. l \in Nat /\ q \in Nat /\ q * m \in Nat /\ l <= q * m
  BY <1>0, <1>1, LenProperties, Pieces DEF Numbers
<1>3. Row(base) \in Numbers
  BY FlattenTyped
<1>4. PICK T : T = {j \in 0 .. q : Row(base \o FirstPieces(s, m, j))
                                      # Row(base) \o SubSeq(s, 1, Min({j * m, l}))}
  OBVIOUS
<1>5. ASSUME T # {} PROVE FALSE
  <2>1. T \in SUBSET Nat
    BY <1>2, <1>4
  <2>2. PICK j \in T : \A i \in T : j <= i
    BY <1>5, <2>1, LeastNumber
  <2>3. /\ j \in 0 .. q
        /\ Row(base \o FirstPieces(s, m, j)) # Row(base) \o SubSeq(s, 1, Min({j * m, l}))
    BY <1>4
  <2>4. CASE j = 0
    <3>1. PICK none : none = FirstPieces(s, m, j)
      OBVIOUS
    <3>2. none = <<>>
      <4>1. none \in Seq(Numbers) /\ Len(none) = 0
        BY <2>3, <2>4, <3>1, FirstPiecesTyped, <1>0
      <4> QED
        BY <4>1, EmptySeq
    <3>3. base \o none = base
      BY <3>2, ConcatEmptySeq
    <3>4. j * m = 0 /\ Min({j * m, l}) = 0
      <4>1. j * m = 0
        BY <2>4
      <4>2. 0 \in Nat /\ 0 <= l
        BY <1>2
      <4>3. Min({0, l}) = 0
        BY <1>2, <4>2, MinOfTwo
      <4> QED
        BY <4>1, <4>3
    <3>5. SubSeq(s, 1, Min({j * m, l})) = <<>>
      BY <3>4, SubSeqEmpty
    <3>6. Row(base) \o <<>> = Row(base)
      BY <1>3, ConcatEmptySeq DEF Numbers
    <3> QED
      BY <2>3, <3>1, <3>3, <3>5, <3>6
  <2>5. CASE j # 0
    <3>1. j - 1 \in 0 .. q /\ j - 1 \notin T /\ j \in 1 .. q /\ j \in Nat
      BY <1>2, <2>2, <2>3, <2>5
    <3>2. PICK less : less = FirstPieces(s, m, j - 1)
      OBVIOUS
    <3>3. PICK more : more = FirstPieces(s, m, j)
      OBVIOUS
    <3>4. PICK p : p = Piece(s, m, j)
      OBVIOUS
    <3>5. Row(base \o less) = Row(base) \o SubSeq(s, 1, Min({(j - 1) * m, l}))
      BY <1>4, <3>1, <3>2
    <3>6. less \in Seq(Numbers)
      BY <3>1, <3>2, FirstPiecesTyped, <1>0
    <3>7. p \in Numbers /\ more = Append(less, p)
      BY <3>1, <3>2, <3>3, <3>4, FirstPiecesGrow, <1>0
    <3>8. base \o less \in Seq(Numbers) /\ base \o less # <<>>
      BY <3>6, JoinedAt, NoneJoined
    <3>9. p \in Numbers
      BY <3>7
    <3>10. base \o more = Append(base \o less, p)
      BY <3>6, <3>7, JoinedAppend
    <3>11. Row(base \o more) = Row(base \o less) \o p
      BY <3>8, <3>9, <3>10, FlattenAppend
    <3>12. /\ j > 1 => Min({(j - 1) * m, l}) = (j - 1) * m
           /\ SubSeq(s, 1, (j - 1) * m) \o p = SubSeq(s, 1, Min({j * m, l}))
      BY <1>1, <3>1, <3>4, PieceIs, <1>0
    <3>13. Min({(j - 1) * m, l}) = (j - 1) * m
      <4>1. CASE j = 1
        <5>1. (j - 1) * m = 0
          BY <4>1
        <5>2. 0 \in Nat /\ 0 <= l
          BY <1>2
        <5>3. Min({0, l}) = 0
          BY <1>2, <5>2, MinOfTwo
        <5> QED
          BY <5>1, <5>3
      <4> QED
        BY <3>1, <3>12, <4>1
    <3>14. PICK head : head = SubSeq(s, 1, (j - 1) * m)
      OBVIOUS
    <3>15. head \in Numbers
      <4>1. (j - 1) * m \in Nat /\ (j - 1) * m < l
        BY <1>0, <1>1, <1>2, <3>1, Pieces
      <4>2. \A i \in 1 .. (j - 1) * m : s[i] \in Int
        BY <1>1, <1>2, <4>1, ElementOfSeq DEF Numbers
      <4> QED
        BY <3>14, <4>1, <4>2, SubSeqProperties DEF Numbers
    <3>16. (Row(base) \o head) \o p = Row(base) \o (head \o p)
      BY <1>3, <3>9, <3>15, RowAssociative
    <3> QED
      BY <2>3, <3>3, <3>5, <3>11, <3>12, <3>13, <3>14, <3>16
  <2> QED
    BY <2>4, <2>5
<1>6. q \in 0 .. q /\ q \notin T
  BY <1>2, <1>5
<1>7. Min({q * m, l}) = l
  BY <1>2, MinOfTwo
<1>8. SubSeq(s, 1, l) = s
  BY <1>1, SubSeqFull DEF Numbers
<1> QED
  BY <1>4, <1>6, <1>7, <1>8 DEF q

LEMMA CutInTwo ==
  ASSUME NEW c \in Numbers, NEW room \in Nat, room <= Len(c)
  PROVE  /\ SubSeq(c, 1, room) \in Numbers /\ SubSeq(c, room + 1, Len(c)) \in Numbers
         /\ Len(SubSeq(c, 1, room)) = room
         /\ SubSeq(c, 1, room) \o SubSeq(c, room + 1, Len(c)) = c
<1>1. PICK d : d = Len(c)
  OBVIOUS
<1>2. d \in Nat /\ room <= d
  BY <1>1, LenProperties DEF Numbers
<1>3. \A i \in 1 .. d : c[i] \in Int
  BY <1>1, ElementOfSeq DEF Numbers
<1>4. SubSeq(c, room + 1, d) \in Numbers
  <2>1. \A i \in room + 1 .. d : c[i] \in Int
    BY <1>2, <1>3
  <2> QED
    BY <1>2, <2>1, SubSeqProperties DEF Numbers
<1>5. /\ SubSeq(c, 1, room) \in Numbers
      /\ Len(SubSeq(c, 1, room)) = IF 1 <= room THEN room - 1 + 1 ELSE 0
  <2>1. \A i \in 1 .. room : c[i] \in Int
    BY <1>2, <1>3
  <2> QED
    BY <2>1, SubSeqProperties DEF Numbers
<1>6. SubSeq(c, 1, room) \o SubSeq(c, room + 1, d) = SubSeq(c, 1, d)
  <2>1. 1 \in 1 .. Len(c) + 1 /\ room \in 1 - 1 .. Len(c) /\ d \in room .. Len(c)
    BY <1>1, <1>2
  <2> QED
    BY <2>1, ConcatAdjacentSubSeq DEF Numbers
<1>7. SubSeq(c, 1, d) = c
  BY <1>1, SubSeqFull DEF Numbers
<1>8. Len(SubSeq(c, 1, room)) = room
  BY <1>5
<1> QED
  BY <1>1, <1>4, <1>5, <1>6, <1>7, <1>8, Zenon

LEMMA NothingLeft ==
  ASSUME NEW c \in Numbers, NEW room \in Nat, ~(room <= Len(c))
  PROVE  /\ Len(c) \in Nat /\ SubSeq(c, 1, Len(c)) = c
         /\ SubSeq(c, room + 1, Len(c)) = <<>> /\ c \o <<>> = c
<1>1. Len(c) \in Nat
  BY LenProperties DEF Numbers
<1>2. SubSeq(c, 1, Len(c)) = c
  BY SubSeqFull DEF Numbers
<1>3. SubSeq(c, room + 1, Len(c)) = <<>>
  BY <1>1, SubSeqEmpty
<1>4. c \o <<>> = c
  BY ConcatEmptySeq DEF Numbers
<1> QED
  BY <1>1, <1>2, <1>3, <1>4

Filling(cs, first) == [cs EXCEPT ![Len(cs)] = cs[Len(cs)] \o first]

LEMMA LastFilled ==
  ASSUME NEW cs, Packed(cs), NEW first \in Numbers
  PROVE  /\ Filling(cs, first) \in Seq(Numbers) /\ Filling(cs, first) # <<>>
         /\ Len(Filling(cs, first)) = Len(cs)
         /\ Row(Filling(cs, first)) = Row(cs) \o first
         /\ Len(Filling(cs, first)[Len(cs)]) = Len(cs[Len(cs)]) + Len(first)
         /\ \A k \in 1 .. Len(cs) - 1 : Filling(cs, first)[k] # <<>>
<1>base. PICK base : base = Filling(cs, first)
  OBVIOUS
<1>1. PICK n : n = Len(cs)
  OBVIOUS
<1>2. cs \in Seq(Numbers) /\ cs # <<>> /\ \A k \in 1 .. n - 1 : cs[k] # <<>>
  BY <1>1 DEF Packed
<1>3. n \in Nat \ {0} /\ n \in 1 .. n
  BY <1>1, <1>2, EmptySeq
<1>4. cs[n] \in Numbers
  BY <1>1, <1>2, <1>3, ElementOfSeq
<1>5. PICK e : e = cs[n] \o first
  OBVIOUS
<1>6. e \in Numbers /\ Len(e) = Len(cs[n]) + Len(first)
  BY <1>4, <1>5, ConcatProperties DEF Numbers
<1>7. base = [cs EXCEPT ![n] = e]
  BY <1>1, <1>5, <1>base DEF Filling
<1>8. /\ base \in Seq(Numbers) /\ Len(base) = n
      /\ \A k \in 1 .. n : base[k] = IF k = n THEN e ELSE cs[k]
  <2>1. /\ [cs EXCEPT ![n] = e] \in Seq(Numbers) /\ Len([cs EXCEPT ![n] = e]) = Len(cs)
        /\ \A k \in 1 .. Len(cs) : [cs EXCEPT ![n] = e][k] = IF k = n THEN e ELSE cs[k]
    BY <1>1, <1>2, <1>3, <1>6, ExceptSeq
  <2> QED
    BY <1>1, <1>7, <2>1, Zenon
<1>9. base # <<>>
  BY <1>3, <1>8, EmptySeq
<1>10. Row(base) = Row(cs) \o first
  BY <1>1, <1>2, <1>5, <1>7, FlattenFill
<1>11. base[n] = e
  BY <1>3, <1>8
<1>12. \A k \in 1 .. n - 1 : base[k] # <<>>
  <2>1. \A k \in 1 .. n - 1 : k \in 1 .. n /\ k # n
    BY <1>3
  <2> QED
    BY <1>2, <1>8, <2>1
<1> QED
  BY <1>base, <1>1, <1>6, <1>8, <1>9, <1>10, <1>11, <1>12

LEMMA Filled ==
  ASSUME PipeAssumption, Packed(chunks), NEW c \in Numbers
  PROVE  Packed(AddSignedToChunks(c)) /\ Row(AddSignedToChunks(c)) = Row(chunks) \o c
<1>1. PICK m, n : m = MaxChunk /\ n = Len(chunks)
  OBVIOUS
<1>2. m \in Nat \ {0}
  BY <1>1 DEF PipeAssumption
<1>3. PICK room : room = m - Len(chunks[n])
  OBVIOUS
<1>4. chunks \in Seq(Numbers) /\ chunks # <<>> /\ n \in Nat \ {0} /\ chunks[n] \in Numbers
  <2>1. chunks \in Seq(Numbers) /\ chunks # <<>>
    BY DEF Packed
  <2>2. n \in Nat \ {0} /\ n \in 1 .. n
    BY <1>1, <2>1, EmptySeq
  <2> QED
    BY <1>1, <2>1, <2>2, ElementOfSeq
<1>5. Len(chunks[n]) \in Nat /\ Len(chunks[n]) <= m
  BY <1>1, <1>4, LenProperties DEF Numbers, Packed
<1>6. room \in Nat /\ Len(chunks[n]) + room = m
  BY <1>2, <1>3, <1>5
<1>7. PICK first, rest : /\ first = SubSeq(c, 1, Min({room, Len(c)}))
                         /\ rest = SubSeq(c, room + 1, Len(c))
  OBVIOUS
<1>whole. /\ first \in Numbers /\ rest \in Numbers /\ c = first \o rest
          /\ Len(first) <= room /\ (rest # <<>> => Len(first) = room)
  <2>1. Len(c) \in Nat
    BY LenProperties DEF Numbers
  <2>2. Min({room, Len(c)}) = IF room <= Len(c) THEN room ELSE Len(c)
    BY <1>6, <2>1, MinOfTwo
  <2>3. CASE room <= Len(c)
    <3>1. PICK s, t : s = SubSeq(c, 1, room) /\ t = SubSeq(c, room + 1, Len(c))
      OBVIOUS
    <3>2. s \in Numbers /\ t \in Numbers /\ Len(s) = room /\ s \o t = c
      BY <1>6, <2>3, <3>1, CutInTwo
    <3>3. first = s /\ rest = t
      BY <1>7, <2>2, <2>3, <3>1
    <3>4. Len(s) <= room
      BY <1>6, <3>2
    <3> QED
      BY <3>2, <3>3, <3>4, Zenon
  <2>4. CASE ~(room <= Len(c))
    <3>1. SubSeq(c, 1, Len(c)) = c /\ SubSeq(c, room + 1, Len(c)) = <<>> /\ c \o <<>> = c
      BY <1>6, <2>4, NothingLeft
    <3>2. Min({room, Len(c)}) = Len(c)
      BY <2>2, <2>4
    <3>3. first = c /\ rest = <<>>
      BY <1>7, <3>1, <3>2, Zenon
    <3>4. Len(c) <= room /\ <<>> \in Numbers
      BY <1>6, <2>1, <2>4, EmptySeq DEF Numbers
    <3> QED
      BY <3>1, <3>3, <3>4, Zenon
  <2> QED
    BY <2>3, <2>4, Zenon
<1>8. /\ first \in Numbers /\ rest \in Numbers
      /\ Len(first) <= room /\ (rest # <<>> => Len(first) = room)
  BY <1>whole, Zenon
<1>9. PICK base : base = [chunks EXCEPT ![n] = chunks[n] \o first]
  OBVIOUS
<1>10. /\ base \in Seq(Numbers) /\ base # <<>> /\ Len(base) = n /\ Row(base) = Row(chunks) \o first
       /\ Len(base[n]) = Len(chunks[n]) + Len(first) /\ \A k \in 1 .. n - 1 : base[k] # <<>>
  <2>1. base = Filling(chunks, first)
    BY <1>1, <1>9 DEF Filling
  <2> QED
    BY <1>1, <1>8, <2>1, LastFilled
<1>11. PICK q : q = (Len(rest) + m - 1) \div m /\ q = NumberOfPieces(rest, m)
  BY DEF NumberOfPieces
<1>12. q \in Nat /\ Len(rest) \in Nat
  BY <1>2, <1>8, <1>11, LenProperties, Pieces DEF Numbers
<1>13. PICK more : more = FirstPieces(rest, m, q)
  OBVIOUS
<1>14. PICK all : all = base \o more
  OBVIOUS
<1>15. AddSignedToChunks(c) = all
  BY <1>1, <1>3, <1>7, <1>9, <1>11, <1>13, <1>14 DEF AddSignedToChunks, FirstPieces, Piece
<1>16. q \in 0 .. q
  BY <1>12
<1>17. more \in Seq(Numbers) /\ Len(more) = q /\ \A k \in 1 .. q : more[k] = Piece(rest, m, k)
  BY <1>2, <1>8, <1>11, <1>13, <1>16, FirstPiecesTyped
<1>18. /\ all \in Seq(Numbers) /\ Len(all) = n + q
       /\ \A k \in 1 .. n + q : all[k] = IF k <= n THEN base[k] ELSE more[k - n]
  BY <1>10, <1>14, <1>17, JoinedAt
<1>19. all # <<>>
  BY <1>10, <1>14, <1>17, NoneJoined
<1>20. Row(all) = Row(chunks) \o c
  <2>1. Row(all) = Row(base) \o rest
    <3>1. Row(base \o FirstPieces(rest, m, NumberOfPieces(rest, m))) = Row(base) \o rest
      BY <1>2, <1>8, <1>10, PiecesInRow
    <3> QED
      BY <1>11, <1>13, <1>14, <3>1, Zenon
  <2>2. Row(chunks) \in Numbers
    BY <1>4, FlattenTyped
  <2>3. (Row(chunks) \o first) \o rest = Row(chunks) \o (first \o rest)
    BY <1>8, <2>2, RowAssociative
  <2> QED
    BY <1>10, <1>whole, <2>1, <2>3, Zenon
<1>21. CASE q = 0
  <2>1. Len(all) = n /\ n \in 1 .. n + q /\ all[n] = base[n]
    BY <1>4, <1>18, <1>21
  <2>2. Len(first) \in Nat
    BY <1>8, LenProperties DEF Numbers
  <2>3. Len(all[Len(all)]) <= m
    BY <1>5, <1>6, <1>8, <1>10, <2>1, <2>2
  <2>4. ASSUME NEW k \in 1 .. Len(all) - 1 PROVE all[k] # <<>>
    <3>1. k \in 1 .. n - 1 /\ k \in 1 .. n + q /\ k <= n
      BY <1>4, <1>21, <2>1
    <3> QED
      BY <1>10, <1>18, <3>1
  <2> QED
    BY <1>1, <1>15, <1>18, <1>19, <1>20, <2>3, <2>4 DEF Packed
<1>22. CASE q # 0
  <2>1. rest # <<>>
    <3>1. ASSUME rest = <<>> PROVE FALSE
      <4>1. Len(rest) = 0
        BY <3>1, EmptySeq
      <4>2. \A k \in 1 .. q : (k - 1) * m < Len(rest) /\ (k - 1) * m \in Nat
        BY <1>2, <1>11, <1>12, Pieces
      <4>3. 1 \in 1 .. q
        BY <1>12, <1>22
      <4> QED
        BY <4>1, <4>2, <4>3
    <3> QED
      BY <3>1
  <2>2. Len(base[n]) = m
    BY <1>6, <1>8, <1>10, <2>1
  <2>3. base[n] # <<>>
    <3>1. ASSUME base[n] = <<>> PROVE FALSE
      <4>1. Len(base[n]) = 0
        BY <3>1, EmptySeq
      <4> QED
        BY <1>2, <2>2, <4>1
    <3> QED
      BY <3>1
  <2>4. \A k \in 1 .. q : Piece(rest, m, k) # <<>> /\ Len(Piece(rest, m, k)) <= m
    BY <1>2, <1>8, <1>11, PieceIs
  <2>5. ASSUME NEW k \in 1 .. n + q PROVE all[k] # <<>>
    <3>1. CASE k < n
      BY <1>4, <1>10, <1>18, <3>1
    <3>2. CASE k = n
      BY <1>4, <1>18, <2>3, <3>2
    <3>3. CASE k > n
      <4>1. k - n \in 1 .. q /\ ~(k <= n)
        BY <1>4, <1>12, <3>3
      <4>2. all[k] = Piece(rest, m, k - n)
        BY <1>17, <1>18, <4>1
      <4> QED
        BY <2>4, <4>1, <4>2
    <3> QED
      BY <1>4, <3>1, <3>2, <3>3
  <2>6. Len(all[Len(all)]) <= m
    <3>1. n + q \in 1 .. n + q /\ ~(n + q <= n) /\ (n + q) - n = q /\ q \in 1 .. q
      BY <1>4, <1>12, <1>22
    <3>2. all[n + q] = more[q]
      BY <1>18, <3>1
    <3> QED
      BY <1>17, <1>18, <2>4, <3>1, <3>2
  <2>7. \A k \in 1 .. Len(all) - 1 : k \in 1 .. n + q
    BY <1>4, <1>12, <1>18
  <2> QED
    BY <1>1, <1>15, <1>18, <1>19, <1>20, <2>5, <2>6, <2>7 DEF Packed
<1> QED
  BY <1>21, <1>22

(* getChunk: what is left is what was there after the first chunk. *)
LEMMA FirstChunk ==
  ASSUME PipeAssumption, Packed(chunks), NEW left,
         left = (IF Len(chunks) = 1 THEN <<<<>>>> ELSE Tail(chunks))
  PROVE  /\ Packed(left) /\ chunks[1] \in Numbers
         /\ chunks[1] \o Row(left) = Row(chunks)
         /\ chunks[1] = <<>> => Row(chunks) = <<>>
<1>1. PICK n : n = Len(chunks)
  OBVIOUS
<1>2. /\ chunks \in Seq(Numbers) /\ chunks # <<>> /\ Len(chunks[n]) <= MaxChunk
      /\ \A k \in 1 .. n - 1 : chunks[k] # <<>>
  BY <1>1 DEF Packed
<1>3. n \in Nat \ {0} /\ 1 \in 1 .. n
  BY <1>1, <1>2, EmptySeq
<1>4. chunks[1] \in Numbers
  BY <1>1, <1>2, <1>3, ElementOfSeq
<1>5. <<>> \in Numbers /\ Len(<<>>) = 0
  BY EmptySeq DEF Numbers
<1>6. CASE n = 1
  <2>1. PICK none : none = <<>>
    OBVIOUS
  <2>2. left = <<none>> /\ none \in Numbers
    BY <1>1, <1>5, <1>6, <2>1
  <2>3. left \in Seq(Numbers) /\ Len(left) = 1 /\ left[1] = none /\ left # <<>>
    <3>1. <<none>> \in Seq(Numbers) /\ Len(<<none>>) = 1 /\ <<none>>[1] = none
      BY <2>2
    <3>2. <<none>> # <<>>
      BY <3>1, EmptySeq
    <3> QED
      BY <2>2, <3>1, <3>2
  <2>4. Packed(left)
    <3>1. Len(left[Len(left)]) = 0
      BY <1>5, <2>1, <2>3
    <3>2. 0 <= MaxChunk
      BY DEF PipeAssumption
    <3>3. \A k \in 1 .. Len(left) - 1 : FALSE
      BY <2>3
    <3> QED
      BY <2>3, <3>1, <3>2, <3>3 DEF Packed
  <2>5. Row(left) = none
    BY <2>2, FlattenOne
  <2>6. chunks = <<chunks[1]>>
    <3>1. <<chunks[1]>> \in Seq(Numbers) /\ Len(<<chunks[1]>>) = 1 /\ <<chunks[1]>>[1] = chunks[1]
      BY <1>4
    <3>2. PICK one : one = <<chunks[1]>>
      OBVIOUS
    <3>3. one \in Seq(Numbers) /\ Len(one) = 1 /\ one[1] = chunks[1]
      BY <3>1, <3>2
    <3>4. chunks = one
      <4>1. Len(chunks) = Len(one) /\ \A i \in 1 .. Len(chunks) : chunks[i] = one[i]
        BY <1>1, <1>6, <3>3
      <4> QED
        BY <1>2, <3>3, <4>1, SeqEqual
    <3> QED
      BY <3>2, <3>4
  <2>7. Row(chunks) = chunks[1]
    BY <1>4, <2>6, FlattenOne
  <2>8. chunks[1] \o <<>> = chunks[1]
    BY <1>4, ConcatEmptySeq DEF Numbers
  <2> QED
    BY <1>4, <2>1, <2>4, <2>5, <2>7, <2>8
<1>7. CASE n # 1
  <2>1. left = Tail(chunks)
    BY <1>1, <1>7
  <2>2. left \in Seq(Numbers) /\ left # <<>> /\ chunks[1] \o Row(left) = Row(chunks)
    BY <1>1, <1>2, <1>7, <2>1, FlattenTail
  <2>3. Len(left) = n - 1 /\ \A k \in 1 .. n - 1 : left[k] = chunks[k + 1]
    BY <1>1, <1>2, <2>1, HeadTailProperties
  <2>4. Len(left[Len(left)]) <= MaxChunk
    <3>1. n - 1 \in 1 .. n - 1 /\ (n - 1) + 1 = n
      BY <1>3, <1>7
    <3> QED
      BY <1>2, <2>3, <3>1
  <2>5. ASSUME NEW k \in 1 .. Len(left) - 1 PROVE left[k] # <<>>
    <3>1. k \in 1 .. n - 1 /\ k + 1 \in 1 .. n - 1
      BY <1>3, <2>3
    <3> QED
      BY <1>2, <2>3, <3>1
  <2>6. chunks[1] # <<>>
    BY <1>2, <1>3, <1>7
  <2> QED
    BY <1>4, <2>2, <2>4, <2>5, <2>6 DEF Packed
<1> QED
  BY <1>6, <1>7

-----------------------------------------------------------------------------
(***************************************************************************)
(* Where a record is: what joining, signing and moving chunks does to it.  *)
(***************************************************************************)
Alone(S) == \E x : S = {x}

LEMMA CountAlone ==
  ASSUME NEW S
  PROVE  (Alone(S) => Cardinality(S) = 1) /\ (S = {} => Cardinality(S) = 0)
<1>1. ASSUME Alone(S) PROVE Cardinality(S) = 1
  <2>1. PICK x : S = {x}
    BY <1>1 DEF Alone
  <2> QED
    BY <2>1, FS_Singleton
<1> QED
  BY <1>1, FS_EmptySet

LEMMA WhereJoined ==
  ASSUME NEW s \in Numbers, NEW t \in Numbers, NEW i
  PROVE  Where(i, s \o t) = Where(i, s) \cup {Len(s) + k : k \in Where(i, t)}
<1>1. PICK n, l : n = Len(s) /\ l = Len(t)
  OBVIOUS
<1>2. n \in Nat /\ l \in Nat /\ DOMAIN s = 1 .. n /\ DOMAIN t = 1 .. l
  BY <1>1, LenProperties DEF Numbers
<1>3. PICK u : u = s \o t
  OBVIOUS
<1>4. /\ s \o t \in Seq(Int) /\ Len(s \o t) = Len(s) + Len(t)
      /\ \A k \in 1 .. Len(s) + Len(t) : (s \o t)[k] = IF k <= Len(s) THEN s[k] ELSE t[k - Len(s)]
  BY ConcatProperties DEF Numbers
<1>5. u \in Seq(Int) /\ Len(u) = n + l /\ \A k \in 1 .. n + l : u[k] = IF k <= n THEN s[k] ELSE t[k - n]
  BY <1>1, <1>3, <1>4, Zenon
<1>6. DOMAIN u = 1 .. n + l
  BY <1>5, LenProperties
<1>7. ASSUME NEW k \in Where(i, u) PROVE k \in Where(i, s) \cup {n + j : j \in Where(i, t)}
  <2>1. k \in 1 .. n + l /\ u[k] = i
    BY <1>6 DEF Where
  <2>2. CASE k <= n
    <3>1. k \in 1 .. n /\ s[k] = i
      BY <1>2, <1>5, <2>1, <2>2
    <3> QED
      BY <1>2, <3>1 DEF Where
  <2>3. CASE ~(k <= n)
    <3>1. k - n \in 1 .. l /\ n + (k - n) = k
      BY <1>2, <2>1, <2>3
    <3>2. t[k - n] = i
      BY <1>5, <2>1, <2>3
    <3>3. k - n \in Where(i, t)
      BY <1>2, <3>1, <3>2 DEF Where
    <3> QED
      BY <3>1, <3>3
  <2> QED
    BY <2>2, <2>3
<1>8. ASSUME NEW k \in Where(i, s) PROVE k \in Where(i, u)
  <2>1. k \in 1 .. n /\ s[k] = i
    BY <1>2 DEF Where
  <2>2. k \in 1 .. n + l /\ k <= n
    BY <1>2, <2>1
  <2> QED
    BY <1>5, <1>6, <2>1, <2>2 DEF Where
<1>9. ASSUME NEW j \in Where(i, t) PROVE n + j \in Where(i, u)
  <2>1. j \in 1 .. l /\ t[j] = i
    BY <1>2 DEF Where
  <2>2. n + j \in 1 .. n + l /\ ~(n + j <= n) /\ (n + j) - n = j
    BY <1>2, <2>1
  <2>3. u[n + j] = t[j]
    BY <1>5, <2>2
  <2> QED
    BY <1>6, <2>1, <2>2, <2>3 DEF Where
<1>10. Where(i, u) = Where(i, s) \cup {n + j : j \in Where(i, t)}
  BY <1>7, <1>8, <1>9
<1> QED
  BY <1>1, <1>3, <1>10

(* Joined to a sequence without it, or to one that holds it alone. *)
LEMMA JoinedAlone ==
  ASSUME NEW s \in Numbers, NEW t \in Numbers, NEW i
  PROVE  /\ Where(i, t) = {} => Where(i, s \o t) = Where(i, s)
         /\ Where(i, s) = {} /\ Alone(Where(i, t)) => Alone(Where(i, s \o t))
<1>1. PICK n, S, T, U : n = Len(s) /\ S = Where(i, s) /\ T = Where(i, t) /\ U = Where(i, s \o t)
  OBVIOUS
<1>2. U = S \cup {n + k : k \in T}
  BY <1>1, WhereJoined
<1>3. T = {} => U = S
  BY <1>2
<1>4. ASSUME S = {}, Alone(T) PROVE Alone(U)
  <2>1. PICK x : T = {x}
    BY <1>4 DEF Alone
  <2>2. U = {n + x}
    BY <1>2, <1>4, <2>1
  <2> QED
    BY <2>2 DEF Alone
<1> QED
  BY <1>1, <1>3, <1>4

LEMMA Appended ==
  ASSUME NEW s \in Numbers, NEW p \in Int
  PROVE  /\ Append(s, p) \in Numbers /\ Len(s) \in Nat /\ Len(Append(s, p)) = Len(s) + 1
         /\ \A k \in 1 .. Len(s) : Append(s, p)[k] = s[k]
         /\ Append(s, p)[Len(s) + 1] = p
         /\ DOMAIN s = 1 .. Len(s) /\ DOMAIN Append(s, p) = 1 .. Len(s) + 1
<1>1. Append(s, p) \in Seq(Int) /\ Len(Append(s, p)) = Len(s) + 1
  BY AppendProperties DEF Numbers
<1>2. \A k \in 1 .. Len(s) : Append(s, p)[k] = s[k]
  BY AppendProperties DEF Numbers
<1>3. Append(s, p)[Len(s) + 1] = p
  BY AppendProperties DEF Numbers
<1>4. DOMAIN s = 1 .. Len(s) /\ Len(s) \in Nat
  BY LenProperties DEF Numbers
<1>5. DOMAIN Append(s, p) = 1 .. Len(Append(s, p))
  BY <1>1, LenProperties
<1> QED
  BY <1>1, <1>2, <1>3, <1>4, <1>5 DEF Numbers

LEMMA WherePushed ==
  ASSUME NEW s \in Numbers, NEW p \in Int, NEW i
  PROVE  Where(i, Append(s, p)) = IF i = p THEN Where(i, s) \cup {Len(s) + 1} ELSE Where(i, s)
<1>1. PICK n, u : n = Len(s) /\ u = Append(s, p)
  OBVIOUS
<1>2. /\ n \in Nat /\ DOMAIN s = 1 .. n /\ DOMAIN u = 1 .. n + 1
      /\ u[n + 1] = p /\ \A k \in 1 .. n : u[k] = s[k]
  BY <1>1, Appended
<1>3. \A k : k \in 1 .. n + 1 <=> k \in 1 .. n \/ k = n + 1
  BY <1>2
<1>4. \A k : k \in Where(i, u) <=> k \in Where(i, s) \/ (k = n + 1 /\ i = p)
  BY <1>2, <1>3 DEF Where
<1> QED
  BY <1>1, <1>4

LEMMA WhereSigned ==
  ASSUME NEW c \in Numbers, c # <<>>, c[1] > 0, NEW i \in Nat
  PROVE  Signed(c) \in Numbers /\ Where(i, Signed(c)) = Where(i, c)
<1>1. c[1] \in Int
  <2>1. 1 \in 1 .. Len(c)
    BY EmptySeq DEF Numbers
  <2> QED
    BY <2>1, ElementOfSeq DEF Numbers
<1>2. PICK p : p = -c[1]
  OBVIOUS
<1>3. p \in Int /\ i # p
  BY <1>1, <1>2
<1>4. Signed(c) = Append(c, p)
  BY <1>2 DEF Signed
<1>5. Append(c, p) \in Numbers
  BY <1>3, Appended
<1>6. Where(i, Append(c, p)) = Where(i, c)
  BY <1>3, WherePushed
<1> QED
  BY <1>4, <1>5, <1>6, Zenon

-----------------------------------------------------------------------------
(***************************************************************************)
(* What is with the workers: a line h[w] of chunks for each worker w.      *)
(***************************************************************************)
Line == [w \in Workers |-> Held(w)]
On(h, i) == UNION {UNION {{<<w, j, k>> : k \in Where(i, h[w][j])} : j \in DOMAIN h[w]} : w \in Workers}
Slots(h) == UNION {{<<w, j>> : j \in 1 .. Len(h[w])} : w \in Workers}
Lines == [Workers -> Seq(Numbers)]

LEMMA OnIs ==
  ASSUME NEW h \in Lines, NEW i
  PROVE  \A x : x \in On(h, i) <=> \E w \in Workers : \E j \in 1 .. Len(h[w]) : \E k \in Where(i, h[w][j]) :
                                      x = <<w, j, k>>
<1>1. \A w \in Workers : DOMAIN h[w] = 1 .. Len(h[w])
  BY LenProperties DEF Lines
<1> QED
  BY <1>1 DEF On

LEMMA AtWorkersIs ==
  ASSUME NEW i
  PROVE  AtWorkers(i) = On(Line, i)
<1>1. PICK h : h = Line
  OBVIOUS
<1>2. \A w \in Workers : h[w] = Held(w)
  BY <1>1 DEF Line
<1>3. \A w \in Workers : PlacesAt(w, i) = UNION {{<<w, j, k>> : k \in Where(i, h[w][j])} : j \in DOMAIN h[w]}
  BY <1>2 DEF PlacesAt
<1>4. AtWorkers(i) = On(h, i)
  BY <1>3 DEF AtWorkers, On
<1> QED
  BY <1>1, <1>4

LEMMA SlotsAre ==
  ASSUME NEW h
  PROVE  \A x : x \in Slots(h) <=> \E w \in Workers : \E j \in 1 .. Len(h[w]) : x = <<w, j>>
BY DEF Slots

(* One more chunk in a line. *)
LEMMA OnAppended ==
  ASSUME NEW h \in Lines, NEW g \in Lines, NEW w \in Workers, NEW c \in Numbers,
         g[w] = Append(h[w], c), \A v \in Workers \ {w} : g[v] = h[v], NEW i
  PROVE  /\ Where(i, c) = {} => On(g, i) = On(h, i)
         /\ On(h, i) = {} /\ Alone(Where(i, c)) => Alone(On(g, i))
<1>1. h[w] \in Seq(Numbers) /\ g[w] \in Seq(Numbers)
  BY DEF Lines
<1>2. PICK n, u, t : n = Len(h[w]) /\ u = h[w] /\ t = g[w]
  OBVIOUS
<1>3. n \in Nat /\ Len(u) = n /\ Len(t) = n + 1 /\ t[n + 1] = c /\ \A j \in 1 .. n : t[j] = u[j]
  <2>1. u \in Seq(Numbers) /\ t = Append(u, c) /\ n = Len(u)
    BY <1>1, <1>2
  <2>2. /\ Len(Append(u, c)) = Len(u) + 1 /\ Append(u, c)[Len(u) + 1] = c
        /\ \A j \in 1 .. Len(u) : Append(u, c)[j] = u[j]
    BY <2>1, AppendProperties
  <2>3. Len(u) \in Nat
    BY <2>1, LenProperties
  <2> QED
    BY <2>1, <2>2, <2>3
<1>4. \A j : j \in 1 .. n + 1 <=> j \in 1 .. n \/ j = n + 1
  BY <1>3
<1>5. \A x : x \in On(g, i) <=> x \in On(h, i) \/ \E k \in Where(i, c) : x = <<w, n + 1, k>>
  <2>1. ASSUME NEW x, x \in On(g, i)
        PROVE  x \in On(h, i) \/ \E k \in Where(i, c) : x = <<w, n + 1, k>>
    <3>1. PICK v, j, k : v \in Workers /\ j \in 1 .. Len(g[v]) /\ k \in Where(i, g[v][j]) /\ x = <<v, j, k>>
      BY <2>1, OnIs
    <3>2. CASE v # w
      <4>1. g[v] = h[v]
        BY <3>1, <3>2
      <4> QED
        BY <3>1, <4>1, OnIs
    <3>3. CASE v = w
      <4>1. j \in 1 .. n \/ j = n + 1
        BY <1>2, <1>3, <1>4, <3>1, <3>3
      <4>2. CASE j = n + 1
        BY <1>2, <1>3, <3>1, <3>3, <4>2
      <4>3. CASE j \in 1 .. n
        <5>1. g[v][j] = h[w][j] /\ j \in 1 .. Len(h[w])
          BY <1>2, <1>3, <3>3, <4>3
        <5> QED
          BY <3>1, <3>3, <5>1, OnIs
      <4> QED
        BY <4>1, <4>2, <4>3
    <3> QED
      BY <3>2, <3>3
  <2>2. ASSUME NEW x, x \in On(h, i) PROVE x \in On(g, i)
    <3>1. PICK v, j, k : v \in Workers /\ j \in 1 .. Len(h[v]) /\ k \in Where(i, h[v][j]) /\ x = <<v, j, k>>
      BY <2>2, OnIs
    <3>2. g[v][j] = h[v][j] /\ j \in 1 .. Len(g[v])
      <4>1. CASE v # w
        BY <3>1, <4>1
      <4>2. CASE v = w
        <5>1. j \in 1 .. n /\ j \in 1 .. n + 1
          BY <1>2, <1>4, <3>1, <4>2
        <5> QED
          BY <1>2, <1>3, <4>2, <5>1
      <4> QED
        BY <4>1, <4>2
    <3> QED
      BY <3>1, <3>2, OnIs
  <2>3. ASSUME NEW k \in Where(i, c) PROVE <<w, n + 1, k>> \in On(g, i)
    <3>1. n + 1 \in 1 .. Len(g[w]) /\ g[w][n + 1] = c
      BY <1>2, <1>3
    <3> QED
      BY <3>1, OnIs
  <2> QED
    BY <2>1, <2>2, <2>3
<1>6. ASSUME Where(i, c) = {} PROVE On(g, i) = On(h, i)
  BY <1>5, <1>6
<1>7. ASSUME On(h, i) = {}, Alone(Where(i, c)) PROVE Alone(On(g, i))
  <2>1. PICK y : Where(i, c) = {y}
    BY <1>7 DEF Alone
  <2>2. On(g, i) = {<<w, n + 1, y>>}
    BY <1>5, <1>7, <2>1
  <2> QED
    BY <2>2 DEF Alone
<1> QED
  BY <1>6, <1>7

(* The first chunk of a line taken. *)
LEMMA OnTaken ==
  ASSUME NEW h \in Lines, NEW g \in Lines, NEW w \in Workers, h[w] # <<>>,
         g[w] = Tail(h[w]), \A v \in Workers \ {w} : g[v] = h[v], NEW i
  PROVE  /\ On(h, i) = {} => On(g, i) = {} /\ Where(i, h[w][1]) = {}
         /\ Alone(On(h, i)) => \/ Alone(On(g, i)) /\ Where(i, h[w][1]) = {}
                               \/ On(g, i) = {} /\ Alone(Where(i, h[w][1]))
<1>1. h[w] \in Seq(Numbers)
  BY DEF Lines
<1>2. PICK n, u, t : n = Len(h[w]) /\ u = h[w] /\ t = g[w]
  OBVIOUS
<1>3. /\ n \in Nat \ {0} /\ Len(u) = n /\ Len(t) = n - 1 /\ \A j \in 1 .. n - 1 : t[j] = u[j + 1]
  <2>1. u \in Seq(Numbers) /\ u # <<>> /\ t = Tail(u) /\ n = Len(u)
    BY <1>1, <1>2
  <2>2. Len(Tail(u)) = Len(u) - 1 /\ \A j \in 1 .. Len(Tail(u)) : Tail(u)[j] = u[j + 1]
    BY <2>1, HeadTailProperties
  <2>3. Len(u) \in Nat \ {0}
    BY <2>1, EmptySeq
  <2> QED
    BY <2>1, <2>2, <2>3
<1>4. \A j : j \in 1 .. n <=> j = 1 \/ (j - 1 \in 1 .. n - 1 /\ j \in Int /\ (j - 1) + 1 = j)
  BY <1>3
<1>5. \A j \in 1 .. n - 1 : j + 1 \in 1 .. n /\ j + 1 # 1
  BY <1>3
<1>6. \A k \in Where(i, h[w][1]) : <<w, 1, k>> \in On(h, i)
  <2>1. 1 \in 1 .. Len(h[w])
    BY <1>2, <1>3
  <2> QED
    BY <2>1, OnIs
<1>7. ASSUME NEW v \in Workers, NEW j \in 1 .. Len(g[v]), NEW k \in Where(i, g[v][j])
      PROVE  <<v, IF v = w THEN j + 1 ELSE j, k>> \in On(h, i)
  <2>1. CASE v = w
    <3>1. j \in 1 .. n - 1 /\ j + 1 \in 1 .. Len(h[w]) /\ g[v][j] = h[w][j + 1]
      BY <1>2, <1>3, <1>5, <2>1
    <3>2. k \in Where(i, h[w][j + 1])
      BY <3>1
    <3> QED
      BY <2>1, <3>1, <3>2, OnIs
  <2>2. CASE v # w
    <3>1. g[v] = h[v]
      BY <2>2
    <3> QED
      BY <2>2, <3>1, OnIs
  <2> QED
    BY <2>1, <2>2
<1>8. ASSUME On(h, i) = {} PROVE On(g, i) = {} /\ Where(i, h[w][1]) = {}
  <2>1. On(g, i) = {}
    BY <1>7, <1>8, OnIs
  <2>2. Where(i, h[w][1]) = {}
    BY <1>6, <1>8
  <2> QED
    BY <2>1, <2>2
<1>9. ASSUME Alone(On(h, i))
      PROVE  \/ Alone(On(g, i)) /\ Where(i, h[w][1]) = {}
             \/ On(g, i) = {} /\ Alone(Where(i, h[w][1]))
  <2>1. PICK x : On(h, i) = {x}
    BY <1>9 DEF Alone
  <2>2. x \in On(h, i)
    BY <2>1
  <2>3. PICK v, j, k : v \in Workers /\ j \in 1 .. Len(h[v]) /\ k \in Where(i, h[v][j]) /\ x = <<v, j, k>>
    BY <2>2, OnIs
  <2>4. \A z \in On(h, i) : z = <<v, j, k>>
    BY <2>1, <2>3
  <2>5. CASE v = w /\ j = 1
    <3>1. \A y \in Where(i, h[w][1]) : y = k
      BY <1>6, <2>4
    <3>2. Where(i, h[w][1]) = {k}
      BY <2>3, <2>5, <3>1
    <3>3. ASSUME NEW z \in On(g, i) PROVE FALSE
      <4>1. PICK v2, j2, k2 : /\ v2 \in Workers /\ j2 \in 1 .. Len(g[v2])
                              /\ k2 \in Where(i, g[v2][j2]) /\ z = <<v2, j2, k2>>
        BY <3>3, OnIs
      <4>2. <<v2, IF v2 = w THEN j2 + 1 ELSE j2, k2>> = <<v, j, k>>
        BY <1>7, <2>4, <4>1
      <4>3. v2 = w /\ j2 + 1 = 1
        BY <2>5, <4>2
      <4>4. j2 \in 1 .. n - 1
        BY <1>2, <1>3, <4>1, <4>3
      <4> QED
        BY <1>5, <4>3, <4>4
    <3> QED
      BY <3>2, <3>3 DEF Alone
  <2>6. CASE ~(v = w /\ j = 1)
    <3>1. Where(i, h[w][1]) = {}
      <4>1. ASSUME NEW y \in Where(i, h[w][1]) PROVE FALSE
        <5>1. <<w, 1, y>> = <<v, j, k>>
          BY <1>6, <2>4
        <5> QED
          BY <2>6, <5>1
      <4> QED
        BY <4>1
    <3>2. PICK l : l = IF v = w THEN j - 1 ELSE j
      OBVIOUS
    <3>3. l \in 1 .. Len(g[v]) /\ k \in Where(i, g[v][l]) /\ (v = w => l + 1 = j)
      <4>1. CASE v = w
        <5>1. j \in 1 .. n /\ j # 1
          BY <1>2, <2>3, <2>6, <4>1
        <5>2. j - 1 \in 1 .. n - 1 /\ (j - 1) + 1 = j
          BY <1>4, <5>1
        <5>3. l = j - 1
          BY <3>2, <4>1
        <5>4. l \in 1 .. Len(g[v]) /\ g[v][l] = h[v][j]
          BY <1>2, <1>3, <4>1, <5>2, <5>3
        <5> QED
          BY <2>3, <5>2, <5>3, <5>4
      <4>2. CASE v # w
        <5>1. g[v] = h[v] /\ l = j
          BY <2>3, <3>2, <4>2
        <5> QED
          BY <2>3, <4>2, <5>1
      <4> QED
        BY <4>1, <4>2
    <3>4. <<v, l, k>> \in On(g, i)
      BY <2>3, <3>3, OnIs
    <3>5. ASSUME NEW z \in On(g, i) PROVE z = <<v, l, k>>
      <4>1. PICK v2, j2, k2 : /\ v2 \in Workers /\ j2 \in 1 .. Len(g[v2])
                              /\ k2 \in Where(i, g[v2][j2]) /\ z = <<v2, j2, k2>>
        BY <3>5, OnIs
      <4>2. <<v2, IF v2 = w THEN j2 + 1 ELSE j2, k2>> = <<v, j, k>>
        BY <1>7, <2>4, <4>1
      <4>3. v2 = v /\ k2 = k /\ j = (IF v = w THEN j2 + 1 ELSE j2)
        BY <4>2
      <4>4. j2 = l
        <5>1. CASE v = w
          <6>1. j2 \in 1 .. n - 1 /\ l \in 1 .. n - 1
            BY <1>2, <1>3, <3>3, <4>1, <4>3, <5>1
          <6>2. j2 + 1 = l + 1
            BY <3>3, <4>3, <5>1
          <6> QED
            BY <1>3, <6>1, <6>2
        <5>2. CASE v # w
          BY <3>2, <4>3, <5>2
        <5> QED
          BY <5>1, <5>2
      <4> QED
        BY <4>1, <4>3, <4>4
    <3>6. On(g, i) = {<<v, l, k>>}
      BY <3>4, <3>5
    <3> QED
      BY <3>1, <3>6 DEF Alone
  <2> QED
    BY <2>5, <2>6
<1> QED
  BY <1>8, <1>9

(* A chunk replaced by one that holds the same records. *)
LEMMA OnReplaced ==
  ASSUME NEW h \in Lines, NEW g \in Lines, NEW i,
         \A v \in Workers : Len(g[v]) = Len(h[v]),
         \A v \in Workers : \A j \in 1 .. Len(h[v]) : Where(i, g[v][j]) = Where(i, h[v][j])
  PROVE  On(g, i) = On(h, i)
<1>1. \A x : x \in On(g, i) <=> x \in On(h, i)
  BY OnIs
<1> QED
  BY <1>1

LEMMA SlotAppended ==
  ASSUME NEW h \in Lines, NEW g \in Lines, NEW w \in Workers, NEW c \in Numbers,
         g[w] = Append(h[w], c), \A v \in Workers \ {w} : g[v] = h[v], IsFiniteSet(Slots(h))
  PROVE  IsFiniteSet(Slots(g)) /\ Cardinality(Slots(g)) = Cardinality(Slots(h)) + 1
<1>1. h[w] \in Seq(Numbers)
  BY DEF Lines
<1>2. PICK n : n = Len(h[w])
  OBVIOUS
<1>3. n \in Nat /\ Len(g[w]) = n + 1
  BY <1>1, <1>2, LenProperties, AppendProperties
<1>4. \A j : j \in 1 .. n + 1 <=> j \in 1 .. n \/ j = n + 1
  BY <1>3
<1>5. \A x : x \in Slots(g) <=> x \in Slots(h) \/ x = <<w, n + 1>>
  <2>1. \A v \in Workers : \A j : j \in 1 .. Len(g[v]) <=> j \in 1 .. Len(h[v]) \/ (v = w /\ j = n + 1)
    BY <1>2, <1>3, <1>4
  <2> QED
    BY <2>1, SlotsAre
<1>6. <<w, n + 1>> \notin Slots(h)
  <2>1. n + 1 \notin 1 .. n
    BY <1>3
  <2> QED
    BY <1>2, <2>1, SlotsAre
<1>7. Slots(g) = Slots(h) \cup {<<w, n + 1>>}
  BY <1>5
<1> QED
  BY <1>6, <1>7, FS_AddElement

LEMMA SlotTaken ==
  ASSUME NEW h \in Lines, NEW g \in Lines, NEW w \in Workers, h[w] # <<>>,
         g[w] = Tail(h[w]), \A v \in Workers \ {w} : g[v] = h[v], IsFiniteSet(Slots(h))
  PROVE  /\ IsFiniteSet(Slots(g)) /\ Cardinality(Slots(g)) = Cardinality(Slots(h)) - 1
         /\ Slots(h) # {}
<1>1. h[w] \in Seq(Numbers)
  BY DEF Lines
<1>2. PICK n : n = Len(h[w])
  OBVIOUS
<1>3. n \in Nat \ {0} /\ Len(g[w]) = n - 1
  BY <1>1, <1>2, EmptySeq, HeadTailProperties
<1>4. \A j : j \in 1 .. n - 1 <=> j \in 1 .. n /\ j # n
  BY <1>3
<1>5. \A x : x \in Slots(g) <=> x \in Slots(h) /\ x # <<w, n>>
  <2>1. \A v \in Workers : \A j : j \in 1 .. Len(g[v]) <=> j \in 1 .. Len(h[v]) /\ ~(v = w /\ j = n)
    BY <1>2, <1>3, <1>4
  <2> QED
    BY <2>1, SlotsAre
<1>6. <<w, n>> \in Slots(h)
  <2>1. n \in 1 .. n
    BY <1>3
  <2> QED
    BY <1>2, <2>1, SlotsAre
<1>7. Slots(g) = Slots(h) \ {<<w, n>>}
  BY <1>5
<1> QED
  BY <1>6, <1>7, FS_RemoveElement

LEMMA SlotsReplaced ==
  ASSUME NEW h, NEW g, \A v \in Workers : Len(g[v]) = Len(h[v])
  PROVE  Slots(g) = Slots(h)
BY DEF Slots

(***************************************************************************)
(* The line of a worker: what it wrote back, what it signs, what is to do. *)
(***************************************************************************)
Signing(a) == IF a = <<>> THEN <<>> ELSE <<a>>
InLine(f, a, t) == f \o Signing(a) \o t

LEMMA SigningTyped ==
  ASSUME NEW a \in Numbers
  PROVE  Signing(a) \in Seq(Numbers)
<1>1. CASE a = <<>>
  BY <1>1, EmptySeq DEF Signing
<1>2. CASE a # <<>>
  <2>1. <<a>> \in Seq(Numbers)
    OBVIOUS
  <2> QED
    BY <1>2, <2>1 DEF Signing
<1> QED
  BY <1>1, <1>2

LEMMA LineTyped ==
  ASSUME NEW f \in Seq(Numbers), NEW a \in Numbers, NEW t \in Seq(Numbers)
  PROVE  f \o Signing(a) \in Seq(Numbers) /\ InLine(f, a, t) \in Seq(Numbers)
<1>1. f \o Signing(a) \in Seq(Numbers)
  BY SigningTyped, JoinedAt
<1>2. (f \o Signing(a)) \o t \in Seq(Numbers)
  BY <1>1, JoinedAt
<1> QED
  BY <1>1, <1>2 DEF InLine

LEMMA LineAppended ==
  ASSUME NEW f \in Seq(Numbers), NEW a \in Numbers, NEW t \in Seq(Numbers), NEW c \in Numbers
  PROVE  InLine(f, a, Append(t, c)) = Append(InLine(f, a, t), c)
<1>1. f \o Signing(a) \in Seq(Numbers)
  BY LineTyped
<1>2. (f \o Signing(a)) \o Append(t, c) = Append((f \o Signing(a)) \o t, c)
  BY <1>1, JoinedAppend
<1> QED
  BY <1>2, Zenon DEF InLine

LEMMA TailJoined ==
  ASSUME NEW f \in Seq(Numbers), f # <<>>, NEW t \in Seq(Numbers)
  PROVE  /\ f \o t # <<>> /\ (f \o t)[1] = f[1] /\ Tail(f) \in Seq(Numbers)
         /\ Tail(f \o t) = Tail(f) \o t
<1>1. PICK n, l : n = Len(f) /\ l = Len(t)
  OBVIOUS
<1>2. n \in Nat \ {0} /\ l \in Nat
  BY <1>1, EmptySeq, LenProperties
<1>3. PICK u, g : u = f \o t /\ g = Tail(f)
  OBVIOUS
<1>4. u \in Seq(Numbers) /\ Len(u) = n + l /\ \A k \in 1 .. n + l : u[k] = IF k <= n THEN f[k] ELSE t[k - n]
  BY <1>1, <1>3, JoinedAt
<1>5. u # <<>>
  BY <1>3, NoneJoined
<1>6. g \in Seq(Numbers) /\ Len(g) = n - 1 /\ \A k \in 1 .. n - 1 : g[k] = f[k + 1]
  BY <1>1, <1>3, HeadTailProperties
<1>7. PICK v : v = g \o t
  OBVIOUS
<1>8. /\ v \in Seq(Numbers) /\ Len(v) = (n - 1) + l
      /\ \A k \in 1 .. (n - 1) + l : v[k] = IF k <= n - 1 THEN g[k] ELSE t[k - (n - 1)]
  <2>1. PICK p : p = Len(g)
    OBVIOUS
  <2>2. /\ v \in Seq(Numbers) /\ Len(v) = p + l
        /\ \A k \in 1 .. p + l : v[k] = IF k <= p THEN g[k] ELSE t[k - p]
    BY <1>1, <1>6, <1>7, <2>1, JoinedAt
  <2>3. p = n - 1
    BY <1>6, <2>1
  <2> QED
    BY <2>2, <2>3, Zenon
<1>9. PICK x : x = Tail(u)
  OBVIOUS
<1>10. x \in Seq(Numbers) /\ Len(x) = (n + l) - 1 /\ \A k \in 1 .. (n + l) - 1 : x[k] = u[k + 1]
  BY <1>4, <1>5, <1>9, HeadTailProperties
<1>11. (n + l) - 1 = (n - 1) + l
  BY <1>2
<1>12. ASSUME NEW k \in 1 .. (n - 1) + l PROVE x[k] = v[k]
  <2>1. k + 1 \in 1 .. n + l /\ k \in Int
    BY <1>2
  <2>2. x[k] = u[k + 1]
    BY <1>10, <1>11
  <2>3. CASE k <= n - 1
    <3>1. k \in 1 .. n - 1 /\ k + 1 <= n
      BY <1>2, <2>3
    <3> QED
      BY <1>4, <1>6, <1>8, <2>1, <2>2, <2>3, <3>1
  <2>4. CASE ~(k <= n - 1)
    <3>1. ~(k + 1 <= n) /\ (k + 1) - n = k - (n - 1)
      BY <1>2, <2>1, <2>4
    <3> QED
      BY <1>4, <1>8, <2>1, <2>2, <2>4, <3>1
  <2> QED
    BY <2>3, <2>4
<1>13. x = v
  BY <1>8, <1>10, <1>11, <1>12, SeqEqual
<1>14. u[1] = f[1]
  <2>1. 1 \in 1 .. n + l /\ 1 <= n
    BY <1>2
  <2> QED
    BY <1>4, <2>1
<1> QED
  BY <1>3, <1>5, <1>6, <1>7, <1>9, <1>13, <1>14

LEMMA LineTaken ==
  ASSUME NEW f \in Seq(Numbers), f # <<>>, NEW a \in Numbers, NEW t \in Seq(Numbers)
  PROVE  /\ InLine(f, a, t) # <<>> /\ InLine(f, a, t)[1] = f[1]
         /\ InLine(Tail(f), a, t) = Tail(InLine(f, a, t))
<1>1. PICK s, g : s = Signing(a) /\ g = f \o s
  OBVIOUS
<1>2. s \in Seq(Numbers) /\ g \in Seq(Numbers)
  BY <1>1, SigningTyped, LineTyped
<1>3. g # <<>> /\ g[1] = f[1] /\ Tail(g) = Tail(f) \o s
  BY <1>1, <1>2, TailJoined
<1>4. g \o t # <<>> /\ (g \o t)[1] = g[1] /\ Tail(g \o t) = Tail(g) \o t
  BY <1>2, <1>3, TailJoined
<1> QED
  BY <1>1, <1>3, <1>4, Zenon DEF InLine

LEMMA LineRead ==
  ASSUME NEW f \in Seq(Numbers), NEW t \in Seq(Numbers), t # <<>>, Head(t) # <<>>
  PROVE  InLine(f, Head(t), Tail(t)) = InLine(f, <<>>, t)
<1>1. PICK c, r, one : c = Head(t) /\ r = Tail(t) /\ one = <<c>>
  OBVIOUS
<1>2. c \in Numbers /\ r \in Seq(Numbers) /\ one \in Seq(Numbers)
  <2>1. Head(t) \in Numbers /\ Tail(t) \in Seq(Numbers)
    BY HeadTailProperties
  <2>2. <<c>> \in Seq(Numbers)
    BY <1>1, <2>1
  <2> QED
    BY <1>1, <2>1, <2>2
<1>3. one \o r = t
  <2>1. PICK n : n = Len(t)
    OBVIOUS
  <2>2. n \in Nat \ {0}
    BY <2>1, EmptySeq
  <2>3. Len(r) = n - 1 /\ (\A k \in 1 .. n - 1 : r[k] = t[k + 1]) /\ c = t[1]
    <3>1. Len(Tail(t)) = Len(t) - 1 /\ \A k \in 1 .. Len(Tail(t)) : Tail(t)[k] = t[k + 1]
      BY HeadTailProperties
    <3>2. Head(t) = t[1]
      OBVIOUS
    <3> QED
      BY <1>1, <2>1, <3>1, <3>2
  <2>4. Len(one) = 1 /\ one[1] = c
    BY <1>1
  <2>5. PICK u : u = one \o r
    OBVIOUS
  <2>6. /\ u \in Seq(Numbers) /\ Len(u) = 1 + (n - 1)
        /\ \A k \in 1 .. 1 + (n - 1) : u[k] = IF k <= 1 THEN one[k] ELSE r[k - 1]
    <3>1. PICK p, o : p = Len(r) /\ o = Len(one)
      OBVIOUS
    <3>2. /\ u \in Seq(Numbers) /\ Len(u) = o + p
          /\ \A k \in 1 .. o + p : u[k] = IF k <= o THEN one[k] ELSE r[k - o]
      BY <1>2, <2>5, <3>1, JoinedAt
    <3>3. p = n - 1 /\ o = 1
      BY <2>3, <2>4, <3>1
    <3> QED
      BY <3>2, <3>3, Zenon
  <2>7. 1 + (n - 1) = n
    BY <2>2
  <2>8. ASSUME NEW k \in 1 .. n PROVE u[k] = t[k]
    <3>1. CASE k = 1
      BY <2>3, <2>4, <2>6, <2>7, <3>1
    <3>2. CASE k # 1
      <4>1. ~(k <= 1) /\ k - 1 \in 1 .. n - 1 /\ (k - 1) + 1 = k
        BY <2>2, <3>2
      <4> QED
        BY <2>3, <2>6, <2>7, <4>1
    <3> QED
      BY <3>1, <3>2
  <2>9. u = t
    BY <2>1, <2>6, <2>7, <2>8, SeqEqual
  <2> QED
    BY <2>5, <2>9
<1>4. (f \o one) \o r = f \o (one \o r)
  BY <1>2, ConcatAssociative
<1>5. f \o <<>> = f
  BY ConcatEmptySeq
<1>6. Signing(c) = one /\ Signing(<<>>) = <<>>
  BY <1>1 DEF Signing
<1> QED
  BY <1>1, <1>3, <1>4, <1>5, <1>6, Zenon DEF InLine

LEMMA LineMiddle ==
  ASSUME NEW f \in Seq(Numbers), NEW x \in Numbers, NEW t \in Seq(Numbers)
  PROVE  /\ Len(f) \in Nat /\ Len(t) \in Nat /\ Len(Append(f, x) \o t) = (Len(f) + 1) + Len(t)
         /\ \A k \in 1 .. (Len(f) + 1) + Len(t) :
              (Append(f, x) \o t)[k] = IF k <= Len(f) THEN f[k]
                                       ELSE IF k = Len(f) + 1 THEN x ELSE t[k - (Len(f) + 1)]
<1>1. PICK n, l, g : n = Len(f) /\ l = Len(t) /\ g = Append(f, x)
  OBVIOUS
<1>2. n \in Nat /\ l \in Nat
  BY <1>1, LenProperties
<1>3. g \in Seq(Numbers) /\ Len(g) = n + 1 /\ g[n + 1] = x /\ \A k \in 1 .. n : g[k] = f[k]
  <2>1. /\ Append(f, x) \in Seq(Numbers) /\ Len(Append(f, x)) = Len(f) + 1
        /\ Append(f, x)[Len(f) + 1] = x /\ \A k \in 1 .. Len(f) : Append(f, x)[k] = f[k]
    BY AppendProperties
  <2> QED
    BY <1>1, <2>1
<1>4. PICK u : u = g \o t
  OBVIOUS
<1>5. Len(u) = (n + 1) + l /\ \A k \in 1 .. (n + 1) + l : u[k] = IF k <= n + 1 THEN g[k] ELSE t[k - (n + 1)]
  BY <1>1, <1>3, <1>4, JoinedAt
<1>6. ASSUME NEW k \in 1 .. (n + 1) + l
      PROVE  u[k] = IF k <= n THEN f[k] ELSE IF k = n + 1 THEN x ELSE t[k - (n + 1)]
  <2>1. CASE k <= n
    <3>1. k \in 1 .. n /\ k <= n + 1
      BY <1>2, <2>1
    <3> QED
      BY <1>3, <1>5, <2>1, <3>1
  <2>2. CASE k = n + 1
    <3>1. ~(k <= n) /\ k <= n + 1
      BY <1>2, <2>2
    <3> QED
      BY <1>3, <1>5, <2>2, <3>1
  <2>3. CASE ~(k <= n) /\ k # n + 1
    <3>1. ~(k <= n + 1)
      BY <1>2, <2>3
    <3> QED
      BY <1>5, <2>3, <3>1
  <2> QED
    BY <2>1, <2>2, <2>3
<1> QED
  BY <1>1, <1>2, <1>4, <1>5, <1>6

LEMMA LineWritten ==
  ASSUME NEW f \in Seq(Numbers), NEW a \in Numbers, a # <<>>, NEW t \in Seq(Numbers), NEW c \in Numbers
  PROVE  /\ Len(InLine(Append(f, c), <<>>, t)) = Len(InLine(f, a, t))
         /\ \A k \in 1 .. Len(InLine(f, a, t)) :
              \/ InLine(Append(f, c), <<>>, t)[k] = InLine(f, a, t)[k]
              \/ InLine(f, a, t)[k] = a /\ InLine(Append(f, c), <<>>, t)[k] = c
<1>1. PICK old, new : old = Append(f, a) \o t /\ new = Append(f, c) \o t
  OBVIOUS
<1>2. PICK n, l : n = Len(f) /\ l = Len(t)
  OBVIOUS
<1>3. /\ Len(old) = (n + 1) + l
      /\ \A k \in 1 .. (n + 1) + l :
           old[k] = IF k <= n THEN f[k] ELSE IF k = n + 1 THEN a ELSE t[k - (n + 1)]
  BY <1>1, <1>2, LineMiddle
<1>4. /\ Len(new) = (n + 1) + l
      /\ \A k \in 1 .. (n + 1) + l :
           new[k] = IF k <= n THEN f[k] ELSE IF k = n + 1 THEN c ELSE t[k - (n + 1)]
  BY <1>1, <1>2, LineMiddle
<1>5. InLine(f, a, t) = old
  <2>1. Append(f, a) = f \o <<a>>
    BY AppendIsConcat
  <2>2. Signing(a) = <<a>>
    BY DEF Signing
  <2> QED
    BY <1>1, <2>1, <2>2, Zenon DEF InLine
<1>6. InLine(Append(f, c), <<>>, t) = new
  <2>1. Append(f, c) \in Seq(Numbers)
    BY AppendProperties
  <2>2. Append(f, c) \o <<>> = Append(f, c)
    BY <2>1, ConcatEmptySeq
  <2>3. Signing(<<>>) = <<>>
    BY DEF Signing
  <2> QED
    BY <1>1, <2>2, <2>3, Zenon DEF InLine
<1>7. Len(new) = Len(old) /\ \A k \in 1 .. Len(old) : new[k] = old[k] \/ (old[k] = a /\ new[k] = c)
  BY <1>3, <1>4
<1> QED
  BY <1>5, <1>6, <1>7

-----------------------------------------------------------------------------
(***************************************************************************)
(* The invariants.                                                         *)
(***************************************************************************)
Waits == axfr \in {"poll", "read", "write"}
Submits == axfr \in {"submit", "push", "drain"}

PipeTyped ==
  /\ pos \in 1 .. Len(Input) + 1
  /\ rrset \in Numbers /\ out \in Numbers /\ Packed(chunks)
  /\ toWorker \in [Workers -> Seq(Numbers)]
  /\ atWorker \in [Workers -> Numbers]
  /\ fromWorker \in [Workers -> Seq(Numbers)]
  /\ outstanding \in Nat

(* What each place in doAXFR and sendRRSetToWorker knows of the others. *)
Control ==
  /\ Waits => mustSign
  /\ axfr \in {"poll", "read"} => (wantWrite <=> rrset # <<>>)
  /\ axfr = "write" => wantWrite /\ rrset # <<>>
  /\ Waits => \/ ret = "push" /\ ~final /\ pos <= Len(Input)
              \/ ret \in {"shut", "pop"} /\ final /\ pos = Len(Input) + 1
  /\ axfr = "poll" /\ ret = "push" => rrset # <<>>
  /\ Waits /\ ret = "pop" => rrset = <<>>
  /\ axfr \in {"shut", "pop"} => final /\ rrset = <<>> /\ pos = Len(Input) + 1
  /\ axfr = "pop" => outstanding = 0
  /\ ~mustSign => outstanding = 0
  /\ Submits => ~final
  /\ Submits \/ axfr \in {"shut", "pop"} => ~wantWrite

(* The pending records are the last ones, of one RRset; whole when sent. *)
Collected ==
  /\ \A k \in 1 .. Len(rrset) : /\ rrset[k] = pos - Len(rrset) + (k - 1)
                                /\ rrset[k] \in Records /\ Input[rrset[k]] = Input[rrset[1]]
  /\ Waits /\ rrset # <<>> => pos = Len(Input) + 1 \/ Input[pos] # Input[rrset[1]]
  /\ axfr = "push" => pos <= Len(Input) /\ (rrset = <<>> \/ Input[pos] = Input[rrset[1]])

(* Once an RRset was sent, something is outstanding until the flush. *)
SomethingSent ==
  /\ mustSign => \E i \in Records : Input[i] # Input[1]
  /\ mustSign /\ Submits => outstanding > 0 \/ Len(rrset) = pos - 1
  /\ axfr = "read" /\ ret = "push" /\ rrset = <<>> => \E w \in Workers \ ready : Held(w) # <<>>

(* The sockets carry whole RRsets, signed ones on the way back. *)
WholeSet(c) ==
  /\ c \in Numbers /\ c # <<>>
  /\ \A k \in 1 .. Len(c) : c[k] = c[1] + (k - 1) /\ c[k] \in Records /\ Input[c[k]] = Input[c[1]]
  /\ c[1] + (Len(c) - 1) = Len(Input) \/ Input[c[1] + Len(c)] # Input[c[1]]
SignedSet(c) == \E b \in Numbers : WholeSet(b) /\ c = Signed(b)

Sockets ==
  \A w \in Workers : /\ \A k \in 1 .. Len(toWorker[w]) : WholeSet(toWorker[w][k])
                     /\ atWorker[w] = <<>> \/ WholeSet(atWorker[w])
                     /\ \A k \in 1 .. Len(fromWorker[w]) : SignedSet(fromWorker[w][k])

(* d_outstanding counts what is with the workers. *)
Counted == axfr # "done" => IsFiniteSet(Slots(Line)) /\ outstanding = Cardinality(Slots(Line))

(* A record that was submitted is in one place, any other in none. *)
InOne(i, s, e, h) ==
  \/ Alone(Where(i, s)) /\ Where(i, e) = {} /\ On(h, i) = {}
  \/ Where(i, s) = {} /\ Alone(Where(i, e)) /\ On(h, i) = {}
  \/ Where(i, s) = {} /\ Where(i, e) = {} /\ Alone(On(h, i))
InNone(i, s, e, h) == Where(i, s) = {} /\ Where(i, e) = {} /\ On(h, i) = {}
Placed ==
  axfr # "done" => \A i \in Records : IF i < pos THEN InOne(i, rrset, Emitted, Line)
                                      ELSE InNone(i, rrset, Emitted, Line)

PipeInv ==
  PipeTyped /\ Control /\ Collected /\ SomethingSent /\ Sockets /\ SetsWhole /\ Counted /\ Placed

-----------------------------------------------------------------------------
(* The types are kept. *)
LEMMA SignedTyped ==
  ASSUME NEW c \in Numbers, c # <<>>
  PROVE  Signed(c) \in Numbers
<1>1. c[1] \in Int
  <2>1. 1 \in 1 .. Len(c)
    BY EmptySeq DEF Numbers
  <2> QED
    BY <2>1, ElementOfSeq DEF Numbers
<1>2. PICK p : p = -c[1]
  OBVIOUS
<1>3. p \in Int
  BY <1>1, <1>2
<1>4. Append(c, p) \in Numbers
  BY <1>3, Appended
<1> QED
  BY <1>2, <1>4 DEF Signed

LEMMA SeqMoves ==
  ASSUME NEW s \in Seq(Numbers)
  PROVE  /\ s # <<>> => Head(s) \in Numbers /\ Tail(s) \in Seq(Numbers)
         /\ \A c \in Numbers : Append(s, c) \in Seq(Numbers)
BY HeadTailProperties, AppendProperties

LEMMA PipeInit ==
  ASSUME PipeAssumption, SigningInit
  PROVE  PipeTyped
<1>1. <<>> \in Numbers /\ <<>> \in Seq(Numbers)
  BY EmptySeq DEF Numbers
<1>2. pos \in 1 .. Len(Input) + 1 /\ outstanding \in Nat
  BY DEF PipeAssumption, SigningInit
<1>3. /\ toWorker \in [Workers -> Seq(Numbers)] /\ atWorker \in [Workers -> Numbers]
      /\ fromWorker \in [Workers -> Seq(Numbers)]
  BY <1>1 DEF SigningInit
<1>4. Packed(chunks)
  <2>1. PICK none : none = <<>>
    OBVIOUS
  <2>2. chunks = <<none>> /\ none \in Numbers
    BY <1>1, <2>1 DEF SigningInit
  <2>3. chunks \in Seq(Numbers) /\ Len(chunks) = 1 /\ chunks[1] = none /\ chunks # <<>>
    <3>1. <<none>> \in Seq(Numbers) /\ Len(<<none>>) = 1 /\ <<none>>[1] = none
      BY <2>2
    <3>2. <<none>> # <<>>
      BY <3>1, EmptySeq
    <3> QED
      BY <2>2, <3>1, <3>2
  <2>4. Len(none) = 0
    BY <2>1, EmptySeq
  <2>5. Len(chunks[Len(chunks)]) <= MaxChunk
    BY <2>3, <2>4 DEF PipeAssumption
  <2>6. \A k \in 1 .. Len(chunks) - 1 : FALSE
    BY <2>3
  <2> QED
    BY <2>3, <2>5, <2>6 DEF Packed
<1> QED
  BY <1>1, <1>2, <1>3, <1>4 DEF PipeTyped, SigningInit

LEMMA SendTyped ==
  ASSUME PipeAssumption, PipeTyped, NEW r, SendRRSetToWorker(r)
  PROVE  rrset' \in Numbers /\ Packed(chunks')
<1>1. <<>> \in Numbers
  BY EmptySeq DEF Numbers
<1>2. Packed(AddSignedToChunks(rrset))
  BY Filled DEF PipeTyped
<1> QED
  BY <1>1, <1>2 DEF SendRRSetToWorker, PipeTyped

LEMMA WriteTyped ==
  ASSUME PipeTyped, NEW w \in Workers, WriteTo(w)
  PROVE  rrset' \in Numbers /\ toWorker' \in [Workers -> Seq(Numbers)] /\ outstanding' \in Nat
<1>1. <<>> \in Numbers /\ Append(toWorker[w], rrset) \in Seq(Numbers)
  BY EmptySeq, SeqMoves DEF Numbers, PipeTyped
<1>2. rrset' \in Numbers /\ outstanding' \in Nat
  BY <1>1 DEF WriteTo, PipeTyped
<1>3. CASE w \in closed
  BY <1>2, <1>3 DEF WriteTo, PipeTyped
<1>4. CASE w \notin closed
  <2>1. toWorker' = [toWorker EXCEPT ![w] = Append(toWorker[w], rrset)]
    BY <1>4 DEF WriteTo
  <2> QED
    BY <1>1, <1>2, <2>1 DEF PipeTyped
<1> QED
  BY <1>3, <1>4

LEMMA PopTyped ==
  ASSUME PipeAssumption, PipeTyped, PopChunk, out' = out \o chunks[1]
  PROVE  /\ Packed(chunks') /\ out' \in Numbers /\ Emitted' = Emitted
         /\ chunks[1] = <<>> => Emitted = out
<1>1. PICK left : left = (IF Len(chunks) = 1 THEN <<<<>>>> ELSE Tail(chunks))
  OBVIOUS
<1>2. Packed(chunks) /\ out \in Numbers /\ chunks' = left
  BY <1>1 DEF PipeTyped, PopChunk
<1>3. /\ Packed(left) /\ chunks[1] \in Numbers /\ chunks[1] \o Row(left) = Row(chunks)
      /\ (chunks[1] = <<>> => Row(chunks) = <<>>)
  BY <1>1, <1>2, FirstChunk
<1>4. out \o chunks[1] \in Numbers
  BY <1>2, <1>3, ConcatProperties DEF Numbers
<1>5. Row(left) \in Numbers
  BY <1>3, FlattenTyped DEF Packed
<1>6. (out \o chunks[1]) \o Row(left) = out \o (chunks[1] \o Row(left))
  BY <1>2, <1>3, <1>5, RowAssociative
<1>7. Emitted' = (out \o chunks[1]) \o Row(left)
  BY <1>2 DEF Emitted, Row
<1>8. Emitted = out \o Row(chunks)
  BY DEF Emitted, Row
<1>9. Emitted' = Emitted
  BY <1>3, <1>6, <1>7, <1>8, Zenon
<1>10. out \o <<>> = out
  BY <1>2, ConcatEmptySeq DEF Numbers
<1>11. chunks[1] = <<>> => Emitted = out
  BY <1>3, <1>8, <1>10, Zenon
<1> QED
  BY <1>2, <1>3, <1>4, <1>9, <1>11

LEMMA TypedStep ==
  ASSUME PipeAssumption, PipeTyped, Collected, SigningNext
  PROVE  PipeTyped'
<1>1. CASE Submit
  <2>1. rrset' \in Numbers /\ Packed(chunks')
    BY <1>1, SendTyped DEF Submit, PipeTyped
  <2> QED
    BY <1>1, <2>1 DEF Submit, PipeTyped, workers
<1>2. CASE Push
  <2>1. pos \in Int /\ pos' \in 1 .. Len(Input) + 1
    BY <1>2 DEF Push, Collected, PipeTyped, PipeAssumption
  <2>2. Append(rrset, pos) \in Numbers
    BY Appended DEF PipeTyped
  <2> QED
    BY <1>2, <2>1, <2>2 DEF Push, PipeTyped, workers
<1>3. CASE Drain
  BY <1>3, PopTyped DEF Drain, PipeTyped, workers
<1>4. CASE Flush
  <2>1. rrset' \in Numbers /\ Packed(chunks')
    BY <1>4, SendTyped DEF Flush
  <2> QED
    BY <1>4, <2>1 DEF Flush, PipeTyped, workers
<1>5. CASE Shut
  <2>1. <<>> \in Numbers
    BY EmptySeq DEF Numbers
  <2> QED
    BY <1>5, <2>1 DEF Shut, PipeTyped, workers
<1>6. CASE GetFinal
  <2>1. <<>> \in Numbers
    BY EmptySeq DEF Numbers
  <2>2. Packed(chunks') /\ out' \in Numbers
    BY <1>6, PopTyped DEF GetFinal
  <2> QED
    BY <1>6, <2>1, <2>2 DEF GetFinal, PipeTyped, workers
<1>7. CASE CloseSockets
  BY <1>7 DEF CloseSockets, PipeTyped, workers
<1>8. CASE Poll
  <2>1. /\ rrset' \in Numbers /\ toWorker' \in [Workers -> Seq(Numbers)] /\ outstanding' \in Nat
    BY <1>8, WriteTyped DEF Poll, PipeTyped, Writable
  <2> QED
    BY <1>8, <2>1 DEF Poll, PipeTyped
<1>9. CASE ReadMore
  BY <1>9 DEF ReadMore, PipeTyped, workers
<1>10. CASE Write
  <2>1. /\ rrset' \in Numbers /\ toWorker' \in [Workers -> Seq(Numbers)] /\ outstanding' \in Nat
    BY <1>10, WriteTyped DEF Write
  <2> QED
    BY <1>10, <2>1 DEF Write, PipeTyped
<1>11. ASSUME NEW w \in Workers, Read(w) PROVE PipeTyped'
  <2>1. fromWorker[w] \in Seq(Numbers)
    BY DEF PipeTyped
  <2>2. fromWorker[w] # <<>> => /\ Head(fromWorker[w]) \in Numbers /\ Tail(fromWorker[w]) \in Seq(Numbers)
                                /\ Packed(AddSignedToChunks(Head(fromWorker[w])))
    BY <2>1, SeqMoves, Filled DEF PipeTyped
  <2>3. fromWorker' \in [Workers -> Seq(Numbers)] /\ Packed(chunks') /\ outstanding' \in Nat
    <3>1. CASE w \notin eof /\ fromWorker[w] # <<>>
      <4>1. /\ fromWorker' = [fromWorker EXCEPT ![w] = Tail(fromWorker[w])]
            /\ chunks' = AddSignedToChunks(Head(fromWorker[w])) /\ outstanding' = outstanding - 1
            /\ outstanding > 0
        BY <1>11, <3>1 DEF Read
      <4> QED
        BY <2>2, <3>1, <4>1 DEF PipeTyped
    <3>2. CASE ~(w \notin eof /\ fromWorker[w] # <<>>)
      BY <1>11, <3>2 DEF Read, PipeTyped
    <3> QED
      BY <3>1, <3>2
  <2> QED
    BY <1>11, <2>3 DEF Read, PipeTyped
<1>12. CASE Fail
  BY <1>12 DEF Fail, PipeTyped, workers
<1>13. ASSUME NEW w \in Workers, WorkerRead(w) PROVE PipeTyped'
  <2>1. Head(toWorker[w]) \in Numbers /\ Tail(toWorker[w]) \in Seq(Numbers)
    BY <1>13, SeqMoves DEF WorkerRead, PipeTyped
  <2> QED
    BY <1>13, <2>1 DEF WorkerRead, PipeTyped
<1>14. ASSUME NEW w \in Workers, WorkerWrite(w) PROVE PipeTyped'
  <2>1. Signed(atWorker[w]) \in Numbers /\ <<>> \in Numbers
    BY <1>14, SignedTyped, EmptySeq DEF WorkerWrite, PipeTyped, Numbers
  <2>2. Append(fromWorker[w], Signed(atWorker[w])) \in Seq(Numbers)
    BY <2>1, SeqMoves DEF PipeTyped
  <2>3. fromWorker' \in [Workers -> Seq(Numbers)] /\ atWorker' \in [Workers -> Numbers]
    BY <1>14, <2>1, <2>2 DEF WorkerWrite, PipeTyped
  <2> QED
    BY <1>14, <2>3 DEF WorkerWrite, PipeTyped
<1>15. ASSUME NEW w \in Workers, WorkerEnds(w) PROVE PipeTyped'
  BY <1>15 DEF WorkerEnds, PipeTyped
<1>16. ASSUME NEW w \in Workers, WorkerDies(w) PROVE PipeTyped'
  BY <1>16 DEF WorkerDies, PipeTyped
<1> QED
  BY <1>1, <1>2, <1>3, <1>4, <1>5, <1>6, <1>7, <1>8, <1>9, <1>10, <1>11, <1>12, <1>13, <1>14, <1>15, <1>16
     DEF SigningNext, Transfer, Worker

-----------------------------------------------------------------------------
(***************************************************************************)
(* What a step does to the records: every action is one of these moves.    *)
(***************************************************************************)
OthersSame(w) == \A v \in Workers \ {w} : Line'[v] = Line[v]
Same == rrset' = rrset /\ pos' = pos /\ Line' = Line /\ Emitted' = Emitted /\ outstanding' = outstanding
Collects ==
  /\ pos <= Len(Input) /\ rrset' = Append(rrset, pos) /\ pos' = pos + 1
  /\ Line' = Line /\ Emitted' = Emitted /\ outstanding' = outstanding
Sends(w) ==
  /\ rrset # <<>> /\ rrset' = <<>> /\ Line'[w] = Append(Line[w], rrset) /\ OthersSame(w)
  /\ pos' = pos /\ Emitted' = Emitted /\ outstanding' = outstanding + 1
Emits(w) ==
  /\ Line[w] # <<>> /\ SignedSet(Line[w][1])
  /\ Line'[w] = Tail(Line[w]) /\ OthersSame(w) /\ Emitted' = Emitted \o Line[w][1]
  /\ pos' = pos /\ rrset' = rrset /\ outstanding' = outstanding - 1
Signs ==
  /\ \A w \in Workers : /\ Len(Line'[w]) = Len(Line[w])
                        /\ \A k \in 1 .. Len(Line[w]) :
                             \/ Line'[w][k] = Line[w][k]
                             \/ WholeSet(Line[w][k]) /\ Line'[w][k] = Signed(Line[w][k])
  /\ pos' = pos /\ rrset' = rrset /\ Emitted' = Emitted /\ outstanding' = outstanding
Passes ==
  /\ ~mustSign /\ rrset' = <<>> /\ Emitted' = Emitted \o rrset
  /\ pos' = pos /\ Line' = Line /\ outstanding' = outstanding
Moves == Same \/ Collects \/ (\E w \in Workers : Sends(w) \/ Emits(w)) \/ Signs \/ Passes

LEMMA LineIs ==
  ASSUME PipeTyped
  PROVE  Line \in Lines /\ \A w \in Workers : /\ Line[w] = InLine(fromWorker[w], atWorker[w], toWorker[w])
                                              /\ Line[w] = Held(w)
<1>1. \A w \in Workers : Held(w) = InLine(fromWorker[w], atWorker[w], toWorker[w])
  BY DEF Held, InLine, Signing
<1>2. \A w \in Workers : InLine(fromWorker[w], atWorker[w], toWorker[w]) \in Seq(Numbers)
  BY LineTyped DEF PipeTyped
<1> QED
  BY <1>1, <1>2 DEF Line, Lines

LEMMA LineNextIs ==
  ASSUME PipeTyped'
  PROVE  Line' \in Lines /\ \A w \in Workers : /\ Line'[w] = InLine(fromWorker'[w], atWorker'[w], toWorker'[w])
                                               /\ Line'[w] = Held(w)'
<1>1. \A w \in Workers : Held(w)' = InLine(fromWorker'[w], atWorker'[w], toWorker'[w])
  BY DEF Held, InLine, Signing
<1>2. \A w \in Workers : InLine(fromWorker'[w], atWorker'[w], toWorker'[w]) \in Seq(Numbers)
  BY LineTyped DEF PipeTyped
<1> QED
  BY <1>1, <1>2 DEF Line, Lines

LEMMA LineSame ==
  ASSUME UNCHANGED <<toWorker, atWorker, fromWorker>>
  PROVE  Line' = Line
BY DEF Line, Held

LEMMA EmittedSame ==
  ASSUME UNCHANGED <<chunks, out>>
  PROVE  Emitted' = Emitted
BY DEF Emitted

LEMMA EmittedFilled ==
  ASSUME PipeAssumption, PipeTyped, NEW c \in Numbers, chunks' = AddSignedToChunks(c), out' = out
  PROVE  Emitted \in Numbers /\ Emitted' = Emitted \o c
<1>1. Row(AddSignedToChunks(c)) = Row(chunks) \o c
  BY Filled DEF PipeTyped
<1>2. Row(chunks) \in Numbers
  BY FlattenTyped DEF PipeTyped, Packed
<1>3. (out \o Row(chunks)) \o c = out \o (Row(chunks) \o c)
  BY <1>2, RowAssociative DEF PipeTyped
<1>4. Emitted' = out \o Row(AddSignedToChunks(c))
  BY DEF Emitted, Row
<1>5. Emitted = out \o Row(chunks)
  BY DEF Emitted, Row
<1>6. out \o Row(chunks) \in Numbers
  BY <1>2, ConcatProperties DEF Numbers, PipeTyped
<1>7. Emitted' = Emitted \o c
  BY <1>1, <1>3, <1>4, <1>5, Zenon
<1> QED
  BY <1>5, <1>6, <1>7

LEMMA EmittedTyped ==
  ASSUME PipeTyped
  PROVE  Emitted \in Numbers
<1>1. Row(chunks) \in Numbers
  BY FlattenTyped DEF PipeTyped, Packed
<1>2. out \o Row(chunks) \in Numbers
  BY <1>1, ConcatProperties DEF Numbers, PipeTyped
<1> QED
  BY <1>2 DEF Emitted, Row

LEMMA SendMoves ==
  ASSUME PipeAssumption, PipeTyped, NEW r, SendRRSetToWorker(r),
         UNCHANGED <<pos, workers, outstanding, out>>
  PROVE  Same \/ Passes
<1>1. Line' = Line
  BY LineSame DEF workers
<1>2. CASE mustSign
  <2>1. rrset' = rrset /\ chunks' = chunks
    BY <1>2 DEF SendRRSetToWorker
  <2> QED
    BY <1>1, <2>1, EmittedSame DEF Same
<1>3. CASE ~mustSign
  <2>1. rrset' = <<>> /\ chunks' = AddSignedToChunks(rrset)
    BY <1>3 DEF SendRRSetToWorker
  <2>2. Emitted' = Emitted \o rrset
    BY <2>1, EmittedFilled DEF PipeTyped
  <2> QED
    BY <1>1, <1>3, <2>1, <2>2 DEF Passes
<1> QED
  BY <1>2, <1>3

LEMMA WriteMoves ==
  ASSUME PipeTyped, PipeTyped', NEW w \in Workers, WriteTo(w), rrset # <<>>,
         UNCHANGED <<pos, atWorker, fromWorker, chunks, out>>
  PROVE  Same \/ Sends(w)
<1>1. Emitted' = Emitted
  BY EmittedSame
<1>2. CASE w \in closed
  <2>1. UNCHANGED <<toWorker, rrset, outstanding>>
    BY <1>2 DEF WriteTo
  <2>2. Line' = Line
    BY <2>1, LineSame
  <2> QED
    BY <1>1, <2>1, <2>2 DEF Same
<1>3. CASE w \notin closed
  <2>1. /\ toWorker' = [toWorker EXCEPT ![w] = Append(toWorker[w], rrset)]
        /\ rrset' = <<>> /\ outstanding' = outstanding + 1
    BY <1>3 DEF WriteTo
  <2>2. toWorker'[w] = Append(toWorker[w], rrset) /\ \A v \in Workers \ {w} : toWorker'[v] = toWorker[v]
    BY <2>1 DEF PipeTyped
  <2>3. Line'[w] = InLine(fromWorker[w], atWorker[w], Append(toWorker[w], rrset))
    BY <2>2, LineNextIs
  <2>4. InLine(fromWorker[w], atWorker[w], Append(toWorker[w], rrset))
          = Append(InLine(fromWorker[w], atWorker[w], toWorker[w]), rrset)
    BY LineAppended DEF PipeTyped
  <2>5. Line[w] = InLine(fromWorker[w], atWorker[w], toWorker[w])
    BY LineIs
  <2>6. Line'[w] = Append(Line[w], rrset)
    BY <2>3, <2>4, <2>5, Zenon
  <2>7. OthersSame(w)
    BY <2>2, LineIs, LineNextIs DEF OthersSame
  <2> QED
    BY <1>1, <2>1, <2>6, <2>7 DEF Sends
<1> QED
  BY <1>2, <1>3

LEMMA ReadMoves ==
  ASSUME PipeAssumption, PipeTyped, PipeTyped', Sockets, NEW w \in Workers, Read(w)
  PROVE  Same \/ Emits(w)
<1>1. CASE w \notin eof /\ fromWorker[w] # <<>>
  <2>1. /\ fromWorker' = [fromWorker EXCEPT ![w] = Tail(fromWorker[w])]
        /\ chunks' = AddSignedToChunks(Head(fromWorker[w])) /\ outstanding' = outstanding - 1
        /\ UNCHANGED <<pos, rrset, toWorker, atWorker, out>>
    BY <1>1 DEF Read
  <2>2. fromWorker'[w] = Tail(fromWorker[w]) /\ \A v \in Workers \ {w} : fromWorker'[v] = fromWorker[v]
    BY <2>1 DEF PipeTyped
  <2>3. PICK f, a, t : f = fromWorker[w] /\ a = atWorker[w] /\ t = toWorker[w]
    OBVIOUS
  <2>4. f \in Seq(Numbers) /\ a \in Numbers /\ t \in Seq(Numbers) /\ f # <<>>
    BY <1>1, <2>3 DEF PipeTyped
  <2>5. /\ InLine(f, a, t) # <<>> /\ InLine(f, a, t)[1] = f[1]
        /\ InLine(Tail(f), a, t) = Tail(InLine(f, a, t))
    BY <2>4, LineTaken
  <2>6. Line[w] = InLine(f, a, t)
    BY <2>3, LineIs
  <2>7. Line'[w] = InLine(Tail(f), a, t)
    BY <2>1, <2>2, <2>3, LineNextIs
  <2>8. Line[w] # <<>> /\ Line[w][1] = f[1] /\ Line'[w] = Tail(Line[w])
    BY <2>5, <2>6, <2>7, Zenon
  <2>9. f[1] \in Numbers /\ Head(f) = f[1] /\ SignedSet(f[1])
    <3>1. 1 \in 1 .. Len(f)
      BY <2>4, EmptySeq
    <3>2. f[1] \in Numbers
      BY <2>4, <3>1, ElementOfSeq
    <3>3. SignedSet(f[1])
      BY <2>3, <3>1 DEF Sockets
    <3> QED
      BY <3>2, <3>3
  <2>10. Emitted' = Emitted \o f[1]
    BY <2>1, <2>3, <2>9, EmittedFilled
  <2>11. OthersSame(w)
    BY <2>1, <2>2, LineIs, LineNextIs DEF OthersSame
  <2>12. SignedSet(Line[w][1]) /\ Emitted' = Emitted \o Line[w][1]
    BY <2>8, <2>9, <2>10
  <2> QED
    BY <2>1, <2>8, <2>11, <2>12 DEF Emits
<1>2. CASE ~(w \notin eof /\ fromWorker[w] # <<>>)
  <2>1. UNCHANGED <<pos, rrset, toWorker, atWorker, fromWorker, out, chunks, outstanding>>
    BY <1>2 DEF Read
  <2> QED
    BY <2>1, LineSame, EmittedSame DEF Same
<1> QED
  BY <1>1, <1>2

LEMMA WorkerReadMoves ==
  ASSUME PipeTyped, PipeTyped', Sockets, NEW w \in Workers, WorkerRead(w)
  PROVE  Same
<1>1. /\ atWorker[w] = <<>> /\ toWorker[w] # <<>>
      /\ atWorker' = [atWorker EXCEPT ![w] = Head(toWorker[w])]
      /\ toWorker' = [toWorker EXCEPT ![w] = Tail(toWorker[w])]
      /\ UNCHANGED <<pos, rrset, fromWorker, outstanding, chunks, out>>
  BY DEF WorkerRead
<1>2. /\ atWorker'[w] = Head(toWorker[w]) /\ toWorker'[w] = Tail(toWorker[w])
      /\ \A v \in Workers \ {w} : atWorker'[v] = atWorker[v] /\ toWorker'[v] = toWorker[v]
  BY <1>1 DEF PipeTyped
<1>3. PICK f, t : f = fromWorker[w] /\ t = toWorker[w]
  OBVIOUS
<1>4. f \in Seq(Numbers) /\ t \in Seq(Numbers) /\ t # <<>>
  BY <1>1, <1>3 DEF PipeTyped
<1>5. Head(t) # <<>>
  <2>1. 1 \in 1 .. Len(t) /\ Head(t) = t[1]
    BY <1>4, EmptySeq
  <2>2. WholeSet(t[1])
    BY <1>3, <2>1 DEF Sockets
  <2> QED
    BY <2>1, <2>2 DEF WholeSet
<1>6. InLine(f, Head(t), Tail(t)) = InLine(f, <<>>, t)
  BY <1>4, <1>5, LineRead
<1>7. Line[w] = InLine(f, <<>>, t)
  BY <1>1, <1>3, LineIs
<1>8. Line'[w] = InLine(f, Head(t), Tail(t))
  BY <1>1, <1>2, <1>3, LineNextIs
<1>9. Line'[w] = Line[w]
  BY <1>6, <1>7, <1>8, Zenon
<1>10. \A v \in Workers : Line'[v] = Line[v]
  BY <1>1, <1>2, <1>9, LineIs, LineNextIs
<1>11. Line' = Line
  BY <1>10 DEF Line
<1> QED
  BY <1>1, <1>11, EmittedSame DEF Same

LEMMA WorkerWriteMoves ==
  ASSUME PipeTyped, PipeTyped', Sockets, NEW w \in Workers, WorkerWrite(w), axfr # "done"
  PROVE  Signs
<1>1. /\ atWorker[w] # <<>> /\ atWorker' = [atWorker EXCEPT ![w] = <<>>]
      /\ fromWorker' = [fromWorker EXCEPT ![w] = Append(fromWorker[w], Signed(atWorker[w]))]
      /\ UNCHANGED <<pos, rrset, toWorker, outstanding, chunks, out>>
  BY DEF WorkerWrite
<1>2. /\ atWorker'[w] = <<>> /\ fromWorker'[w] = Append(fromWorker[w], Signed(atWorker[w]))
      /\ \A v \in Workers \ {w} : atWorker'[v] = atWorker[v] /\ fromWorker'[v] = fromWorker[v]
  BY <1>1 DEF PipeTyped
<1>3. PICK f, a, t, c : f = fromWorker[w] /\ a = atWorker[w] /\ t = toWorker[w] /\ c = Signed(a)
  OBVIOUS
<1>4. f \in Seq(Numbers) /\ a \in Numbers /\ a # <<>> /\ t \in Seq(Numbers) /\ WholeSet(a)
  BY <1>1, <1>3 DEF PipeTyped, Sockets
<1>5. c \in Numbers
  BY <1>3, <1>4, SignedTyped
<1>6. PICK old, new : old = InLine(f, a, t) /\ new = InLine(Append(f, c), <<>>, t)
  OBVIOUS
<1>7. Len(new) = Len(old) /\ \A k \in 1 .. Len(old) : new[k] = old[k] \/ (old[k] = a /\ new[k] = c)
  BY <1>4, <1>5, <1>6, LineWritten
<1>8. Line[w] = old
  BY <1>3, <1>6, LineIs
<1>9. Line'[w] = new
  BY <1>1, <1>2, <1>3, <1>6, LineNextIs
<1>10. ASSUME NEW v \in Workers
       PROVE  /\ Len(Line'[v]) = Len(Line[v])
              /\ \A k \in 1 .. Len(Line[v]) :
                   \/ Line'[v][k] = Line[v][k]
                   \/ WholeSet(Line[v][k]) /\ Line'[v][k] = Signed(Line[v][k])
  <2>1. CASE v = w
    BY <1>3, <1>4, <1>7, <1>8, <1>9, <2>1
  <2>2. CASE v # w
    <3>1. Line'[v] = Line[v]
      BY <1>1, <1>2, <2>2, LineIs, LineNextIs
    <3> QED
      BY <3>1
  <2> QED
    BY <2>1, <2>2
<1> QED
  BY <1>1, <1>10, EmittedSame DEF Signs

LEMMA EveryMove ==
  ASSUME PipeAssumption, PipeTyped, PipeTyped', Control, Collected, Sockets, SigningNext, axfr # "done"
  PROVE  Moves
<1>1. CASE Submit
  <2>1. CASE rrset # <<>> /\ Input[rrset[1]] # Input[pos]
    BY <1>1, <2>1, SendMoves DEF Submit, Moves
  <2>2. CASE ~(rrset # <<>> /\ Input[rrset[1]] # Input[pos])
    BY <1>1, <2>2, LineSame, EmittedSame DEF Submit, workers, Same, Moves
  <2> QED
    BY <2>1, <2>2
<1>2. CASE Push
  BY <1>2, LineSame, EmittedSame DEF Push, Collected, workers, Collects, Moves
<1>3. CASE Drain
  BY <1>3, LineSame, PopTyped DEF Drain, workers, Same, Moves
<1>4. CASE Flush
  BY <1>4, SendMoves DEF Flush, Moves
<1>5. CASE Shut
  BY <1>5, LineSame, EmittedSame DEF Shut, Control, workers, Same, Moves
<1>6. CASE GetFinal
  BY <1>6, LineSame, PopTyped DEF GetFinal, Control, workers, Same, Moves
<1>7. CASE CloseSockets
  BY <1>7, LineSame, EmittedSame DEF CloseSockets, workers, Same, Moves
<1>8. CASE Poll
  <2>1. CASE wantWrite /\ Writable # {}
    <3>1. PICK w \in Writable : WriteTo(w)
      BY <1>8, <2>1 DEF Poll
    <3>2. w \in Workers /\ rrset # <<>>
      BY <1>8, <2>1 DEF Poll, Control, Writable
    <3>3. UNCHANGED <<pos, atWorker, fromWorker, chunks, out>>
      BY <1>8 DEF Poll
    <3> QED
      BY <3>1, <3>2, <3>3, WriteMoves DEF Moves
  <2>2. CASE ~(wantWrite /\ Writable # {})
    BY <1>8, <2>2, LineSame, EmittedSame DEF Poll, Same, Moves
  <2> QED
    BY <2>1, <2>2
<1>9. CASE ReadMore
  BY <1>9, LineSame, EmittedSame DEF ReadMore, workers, Same, Moves
<1>10. CASE Write
  <2>1. PICK w \in Workers : WriteTo(w)
    BY <1>10 DEF Write
  <2>2. rrset # <<>> /\ UNCHANGED <<pos, atWorker, fromWorker, chunks, out>>
    BY <1>10 DEF Write, Control
  <2> QED
    BY <2>1, <2>2, WriteMoves DEF Moves
<1>11. ASSUME NEW w \in Workers, Read(w) PROVE Moves
  BY <1>11, ReadMoves DEF Moves
<1>12. CASE Fail
  BY <1>12, LineSame, EmittedSame DEF Fail, workers, Same, Moves
<1>13. ASSUME NEW w \in Workers, WorkerRead(w) PROVE Moves
  BY <1>13, WorkerReadMoves DEF Moves
<1>14. ASSUME NEW w \in Workers, WorkerWrite(w) PROVE Moves
  BY <1>14, WorkerWriteMoves DEF Moves
<1>15. ASSUME NEW w \in Workers, WorkerEnds(w) PROVE Moves
  BY <1>15, LineSame, EmittedSame DEF WorkerEnds, Same, Moves
<1>16. ASSUME NEW w \in Workers, WorkerDies(w) PROVE Moves
  BY <1>16, LineSame, EmittedSame DEF WorkerDies, Same, Moves
<1> QED
  BY <1>1, <1>2, <1>3, <1>4, <1>5, <1>6, <1>7, <1>8, <1>9, <1>10, <1>11, <1>12, <1>13, <1>14, <1>15, <1>16
     DEF SigningNext, Transfer, Worker

-----------------------------------------------------------------------------
(* The moves keep every record in its one place, and the count. *)
LEMMA WhereEmpty ==
  ASSUME NEW i
  PROVE  Where(i, <<>>) = {}
BY DEF Where

LEMMA RecordsAre ==
  ASSUME PipeAssumption
  PROVE  Len(Input) \in Nat /\ Records = 1 .. Len(Input) /\ \A i \in Records : i \in Nat /\ i > 0
BY DEF PipeAssumption, Records

LEMMA FirstPlaces ==
  ASSUME SigningInit, PipeTyped
  PROVE  Line \in Lines /\ (\A i : On(Line, i) = {}) /\ Slots(Line) = {} /\ Emitted = <<>>
<1>1. PICK h : h = Line
  OBVIOUS
<1>2. h \in Lines /\ \A w \in Workers : Len(h[w]) = 0
  <2>1. ASSUME NEW w \in Workers PROVE Len(h[w]) = 0
    <3>1. fromWorker[w] = <<>> /\ atWorker[w] = <<>> /\ toWorker[w] = <<>>
      BY <2>1 DEF SigningInit
    <3>2. h[w] = (<<>> \o <<>>) \o <<>>
      BY <1>1, <3>1, LineIs DEF InLine, Signing
    <3>3. <<>> \o <<>> = <<>> /\ Len(<<>>) = 0
      OBVIOUS
    <3> QED
      BY <3>2, <3>3
  <2> QED
    BY <1>1, <2>1, LineIs
<1>3. \A i : On(h, i) = {}
  <2>1. ASSUME NEW i, NEW x \in On(h, i) PROVE FALSE
    <3>1. PICK w \in Workers : \E j \in 1 .. Len(h[w]) : \E k \in Where(i, h[w][j]) : x = <<w, j, k>>
      BY <1>2, OnIs
    <3> QED
      BY <1>2, <3>1
  <2> QED
    BY <2>1
<1>4. Slots(h) = {}
  BY <1>2, SlotsAre
<1>5. Emitted = <<>>
  <2>1. PICK none : none = <<>>
    OBVIOUS
  <2>2. none \in Numbers /\ chunks = <<none>> /\ out = none
    BY <2>1, EmptySeq DEF SigningInit, Numbers
  <2>3. Row(<<none>>) = none
    BY <2>2, FlattenOne
  <2>4. none \o none = none
    BY <2>1
  <2> QED
    BY <2>1, <2>2, <2>3, <2>4, Zenon DEF Emitted, Row
<1> QED
  BY <1>1, <1>2, <1>3, <1>4, <1>5

LEMMA CountedStep ==
  ASSUME PipeTyped, PipeTyped', Moves, axfr # "done", Counted
  PROVE  Counted'
<1>1. PICK h, g : h = Line /\ g = Line'
  OBVIOUS
<1>2. h \in Lines /\ g \in Lines
  BY <1>1, LineIs, LineNextIs
<1>3. IsFiniteSet(Slots(h)) /\ outstanding = Cardinality(Slots(h)) /\ outstanding \in Nat
  BY <1>1 DEF Counted, PipeTyped
<1>4. SUFFICES IsFiniteSet(Slots(g)) /\ outstanding' = Cardinality(Slots(g))
  <2>1. ASSUME IsFiniteSet(Slots(g)) /\ outstanding' = Cardinality(Slots(g))
        PROVE  Counted'
    <3>1. Slots(Line)' = Slots(g)
      BY <1>1 DEF Slots
    <3> QED
      BY <2>1, <3>1 DEF Counted
  <2> QED
    BY <2>1
<1>5. CASE g = h /\ outstanding' = outstanding
  BY <1>3, <1>5
<1>6. ASSUME NEW w \in Workers, Sends(w)
      PROVE  IsFiniteSet(Slots(g)) /\ outstanding' = Cardinality(Slots(g))
  <2>1. g[w] = Append(h[w], rrset) /\ rrset \in Numbers /\ \A v \in Workers \ {w} : g[v] = h[v]
    BY <1>1, <1>6 DEF Sends, OthersSame, PipeTyped
  <2>2. IsFiniteSet(Slots(g)) /\ Cardinality(Slots(g)) = Cardinality(Slots(h)) + 1
    BY <1>2, <1>3, <2>1, SlotAppended
  <2> QED
    BY <1>3, <1>6, <2>2 DEF Sends
<1>7. ASSUME NEW w \in Workers, Emits(w)
      PROVE  IsFiniteSet(Slots(g)) /\ outstanding' = Cardinality(Slots(g))
  <2>1. h[w] # <<>> /\ g[w] = Tail(h[w]) /\ \A v \in Workers \ {w} : g[v] = h[v]
    BY <1>1, <1>7 DEF Emits, OthersSame
  <2>2. IsFiniteSet(Slots(g)) /\ Cardinality(Slots(g)) = Cardinality(Slots(h)) - 1
    BY <1>2, <1>3, <2>1, SlotTaken
  <2> QED
    BY <1>3, <1>7, <2>2 DEF Emits
<1>8. CASE Signs
  <2>1. \A v \in Workers : Len(g[v]) = Len(h[v])
    BY <1>1, <1>8 DEF Signs
  <2>2. Slots(g) = Slots(h)
    BY <2>1, SlotsReplaced
  <2> QED
    BY <1>3, <1>8, <2>2 DEF Signs
<1> QED
  BY <1>1, <1>5, <1>6, <1>7, <1>8 DEF Moves, Same, Collects, Passes

LEMMA PlacedStep ==
  ASSUME PipeAssumption, PipeTyped, PipeTyped', Moves, axfr # "done", Placed
  PROVE  Placed'
<1>1. PICK h, g, e, d, s, r : h = Line /\ g = Line' /\ e = Emitted /\ d = Emitted' /\ s = rrset /\ r = rrset'
  OBVIOUS
<1>2. h \in Lines /\ g \in Lines /\ e \in Numbers /\ s \in Numbers /\ pos \in Nat
  BY <1>1, LineIs, LineNextIs, EmittedTyped DEF PipeTyped
<1>3. SUFFICES ASSUME NEW i \in Records
               PROVE  IF i < pos' THEN InOne(i, r, d, g) ELSE InNone(i, r, d, g)
  <2>1. ASSUME \A i \in Records : IF i < pos' THEN InOne(i, r, d, g) ELSE InNone(i, r, d, g)
        PROVE  Placed'
    <3>1. \A i : On(Line, i)' = On(g, i)
      BY <1>1 DEF On
    <3>2. \A i : /\ InOne(i, rrset, Emitted, Line)' = InOne(i, r, d, g)
                 /\ InNone(i, rrset, Emitted, Line)' = InNone(i, r, d, g)
      BY <1>1, <3>1 DEF InOne, InNone, Where
    <3> QED
      BY <2>1, <3>2 DEF Placed
  <2> QED
    BY <2>1
<1>4. i \in Nat /\ i > 0
  BY RecordsAre
<1>5. IF i < pos THEN InOne(i, s, e, h) ELSE InNone(i, s, e, h)
  BY <1>1 DEF Placed
<1>6. CASE Same
  BY <1>1, <1>5, <1>6 DEF Same
<1>7. CASE Collects
  <2>1. r = Append(s, pos) /\ d = e /\ g = h /\ pos' = pos + 1
    BY <1>1, <1>7 DEF Collects
  <2>2. Where(i, Append(s, pos)) = IF i = pos THEN Where(i, s) \cup {Len(s) + 1} ELSE Where(i, s)
    BY <1>2, WherePushed
  <2>3. CASE i = pos
    <3>1. InNone(i, s, e, h)
      BY <1>2, <1>5, <2>3
    <3>2. Where(i, r) = {Len(s) + 1}
      BY <2>1, <2>2, <2>3, <3>1 DEF InNone
    <3>3. InOne(i, r, d, g)
      BY <2>1, <3>1, <3>2 DEF InOne, InNone, Alone
    <3> QED
      BY <1>2, <2>1, <2>3, <3>3
  <2>4. CASE i # pos
    <3>1. Where(i, r) = Where(i, s)
      BY <2>1, <2>2, <2>4
    <3>2. i < pos' <=> i < pos
      BY <1>2, <1>4, <2>1, <2>4
    <3> QED
      BY <1>5, <2>1, <3>1, <3>2 DEF InOne, InNone
  <2> QED
    BY <2>3, <2>4
<1>8. ASSUME NEW w \in Workers, Sends(w)
      PROVE  IF i < pos' THEN InOne(i, r, d, g) ELSE InNone(i, r, d, g)
  <2>1. g[w] = Append(h[w], s) /\ (\A v \in Workers \ {w} : g[v] = h[v]) /\ r = <<>> /\ d = e /\ pos' = pos
    BY <1>1, <1>8 DEF Sends, OthersSame
  <2>2. /\ Where(i, s) = {} => On(g, i) = On(h, i)
        /\ On(h, i) = {} /\ Alone(Where(i, s)) => Alone(On(g, i))
    BY <1>2, <2>1, OnAppended
  <2>3. Where(i, r) = {}
    BY <2>1, WhereEmpty
  <2> QED
    BY <1>5, <2>1, <2>2, <2>3 DEF InOne, InNone
<1>9. ASSUME NEW w \in Workers, Emits(w)
      PROVE  IF i < pos' THEN InOne(i, r, d, g) ELSE InNone(i, r, d, g)
  <2>1. PICK c : c = h[w][1]
    OBVIOUS
  <2>2. /\ h[w] # <<>> /\ g[w] = Tail(h[w]) /\ (\A v \in Workers \ {w} : g[v] = h[v])
        /\ d = e \o c /\ r = s /\ pos' = pos
    BY <1>1, <1>9, <2>1 DEF Emits, OthersSame
  <2>3. c \in Numbers
    <3>1. h[w] \in Seq(Numbers)
      BY <1>2 DEF Lines
    <3>2. 1 \in 1 .. Len(h[w])
      BY <2>2, <3>1, EmptySeq
    <3> QED
      BY <2>1, <3>1, <3>2, ElementOfSeq
  <2>4. /\ On(h, i) = {} => On(g, i) = {} /\ Where(i, c) = {}
        /\ Alone(On(h, i)) => \/ Alone(On(g, i)) /\ Where(i, c) = {}
                              \/ On(g, i) = {} /\ Alone(Where(i, c))
    BY <1>2, <2>1, <2>2, OnTaken
  <2>5. /\ Where(i, c) = {} => Where(i, d) = Where(i, e)
        /\ Where(i, e) = {} /\ Alone(Where(i, c)) => Alone(Where(i, d))
    BY <1>2, <2>2, <2>3, JoinedAlone
  <2> QED
    BY <1>5, <2>2, <2>4, <2>5 DEF InOne, InNone
<1>10. CASE Signs
  <2>1. r = s /\ d = e /\ pos' = pos
    BY <1>1, <1>10 DEF Signs
  <2>2. \A v \in Workers : Len(g[v]) = Len(h[v])
    BY <1>1, <1>10 DEF Signs
  <2>3. ASSUME NEW v \in Workers, NEW k \in 1 .. Len(h[v])
        PROVE  Where(i, g[v][k]) = Where(i, h[v][k])
    <3>1. CASE g[v][k] = h[v][k]
      BY <3>1
    <3>2. CASE WholeSet(h[v][k]) /\ g[v][k] = Signed(h[v][k])
      <4>1. PICK c : c = h[v][k]
        OBVIOUS
      <4>2. c \in Numbers /\ c # <<>> /\ \A j \in 1 .. Len(c) : c[j] \in Records
        BY <3>2, <4>1 DEF WholeSet
      <4>3. 1 \in 1 .. Len(c)
        BY <4>2, EmptySeq DEF Numbers
      <4>4. c[1] > 0
        BY <4>2, <4>3, RecordsAre
      <4>5. Where(i, Signed(c)) = Where(i, c)
        BY <1>4, <4>2, <4>4, WhereSigned
      <4> QED
        BY <3>2, <4>1, <4>5
    <3> QED
      BY <1>1, <1>10, <3>1, <3>2 DEF Signs
  <2>4. On(g, i) = On(h, i)
    BY <1>2, <2>2, <2>3, OnReplaced
  <2> QED
    BY <1>5, <2>1, <2>4 DEF InOne, InNone
<1>11. CASE Passes
  <2>1. r = <<>> /\ d = e \o s /\ g = h /\ pos' = pos
    BY <1>1, <1>11 DEF Passes
  <2>2. /\ Where(i, s) = {} => Where(i, d) = Where(i, e)
        /\ Where(i, e) = {} /\ Alone(Where(i, s)) => Alone(Where(i, d))
    BY <1>2, <2>1, JoinedAlone
  <2>3. Where(i, r) = {}
    BY <2>1, WhereEmpty
  <2> QED
    BY <1>5, <2>1, <2>2, <2>3 DEF InOne, InNone
<1> QED
  BY <1>6, <1>7, <1>8, <1>9, <1>10, <1>11 DEF Moves

-----------------------------------------------------------------------------
(* A signed RRset after whole ones leaves all whole. *)
Followed(e, k) ==
  LET i == e[k]
  IN i > 0 => /\ k < Len(e)
              /\ IF i < Len(Input) /\ Input[i + 1] = Input[i]
                 THEN e[k + 1] = i + 1
                 ELSE e[k + 1] < 0 /\ Input[-e[k + 1]] = Input[i]

LEMMA SetJoined ==
  ASSUME PipeAssumption, NEW e \in Numbers, NEW b, WholeSet(b),
         \A k \in DOMAIN e : Followed(e, k)
  PROVE  \A k \in DOMAIN (e \o Signed(b)) : Followed(e \o Signed(b), k)
<1>1. PICK n, l, c, u, p : n = Len(e) /\ l = Len(b) /\ c = Signed(b) /\ u = e \o c /\ p = b[1]
  OBVIOUS
<1>2. /\ b \in Numbers /\ b # <<>>
      /\ \A k \in 1 .. l : b[k] = p + (k - 1) /\ b[k] \in Records /\ Input[b[k]] = Input[p]
      /\ p + (l - 1) = Len(Input) \/ Input[p + l] # Input[p]
  BY <1>1 DEF WholeSet
<1>3. n \in Nat /\ l \in Nat \ {0} /\ DOMAIN e = 1 .. n /\ (\A k \in 1 .. n : e[k] \in Int) /\ 1 \in 1 .. l
  <2>1. l \in Nat \ {0}
    BY <1>1, <1>2, EmptySeq DEF Numbers
  <2>2. n \in Nat /\ DOMAIN e = 1 .. n
    BY <1>1, LenProperties DEF Numbers
  <2>3. \A k \in 1 .. n : e[k] \in Int
    BY <1>1, ElementOfSeq DEF Numbers
  <2> QED
    BY <2>1, <2>2, <2>3
<1>4. p \in Records /\ p \in Nat /\ p > 0
  BY <1>1, <1>2, <1>3, RecordsAre
<1>5. PICK o : o = -p
  OBVIOUS
<1>6. o \in Int /\ o < 0 /\ -o = p
  BY <1>4, <1>5
<1>7. /\ c \in Numbers /\ Len(c) = l + 1 /\ c[l + 1] = o /\ \A k \in 1 .. l : c[k] = b[k]
  <2>1. c = Append(b, o)
    BY <1>1, <1>5 DEF Signed
  <2>2. /\ Append(b, o) \in Numbers /\ Len(Append(b, o)) = Len(b) + 1
        /\ (\A k \in 1 .. Len(b) : Append(b, o)[k] = b[k]) /\ Append(b, o)[Len(b) + 1] = o
    BY <1>2, <1>6, Appended
  <2> QED
    BY <1>1, <2>1, <2>2, Zenon
<1>8. /\ u \in Numbers /\ Len(u) = n + (l + 1)
      /\ \A k \in 1 .. n + (l + 1) : u[k] = IF k <= n THEN e[k] ELSE c[k - n]
  <2>1. PICK m : m = Len(c)
    OBVIOUS
  <2>2. /\ u \in Numbers /\ Len(u) = n + m
        /\ \A k \in 1 .. n + m : u[k] = IF k <= n THEN e[k] ELSE c[k - n]
    <3>1. e \in Seq(Int) /\ c \in Seq(Int)
      BY <1>7 DEF Numbers
    <3>2. /\ e \o c \in Seq(Int) /\ Len(e \o c) = Len(e) + Len(c)
          /\ \A k \in 1 .. Len(e) + Len(c) : (e \o c)[k] = IF k <= Len(e) THEN e[k] ELSE c[k - Len(e)]
      BY <3>1, ConcatProperties
    <3> QED
      BY <1>1, <2>1, <3>2, Zenon DEF Numbers
  <2>3. m = l + 1
    BY <1>7, <2>1
  <2> QED
    BY <2>2, <2>3, Zenon
<1>9. DOMAIN u = 1 .. n + (l + 1)
  BY <1>8, LenProperties DEF Numbers
<1>10. ASSUME NEW k \in DOMAIN u PROVE Followed(u, k)
  <2>1. k \in 1 .. n + (l + 1) /\ k \in Int
    BY <1>3, <1>9
  <2>2. CASE k <= n
    <3>1. k \in 1 .. n /\ u[k] = e[k] /\ Followed(e, k)
      BY <1>3, <1>8, <2>1, <2>2
    <3>2. k < n => k + 1 \in 1 .. n + (l + 1) /\ k + 1 <= n /\ k < n + (l + 1)
      BY <1>3, <2>1
    <3>3. k < n => u[k + 1] = e[k + 1]
      BY <1>8, <3>2
    <3> QED
      BY <1>1, <1>8, <3>1, <3>2, <3>3 DEF Followed
  <2>3. CASE k > n /\ k <= n + l
    <3>1. PICK j : j = k - n
      OBVIOUS
    <3>2. j \in 1 .. l /\ k = n + j /\ ~(k <= n) /\ k + 1 \in 1 .. n + (l + 1) /\ ~(k + 1 <= n) /\ k < n + (l + 1)
      BY <1>3, <2>1, <2>3, <3>1
    <3>3. (k + 1) - n = j + 1
      BY <1>3, <3>2
    <3>4. PICK i : i = p + (j - 1)
      OBVIOUS
    <3>5. u[k] = i /\ u[k + 1] = c[j + 1] /\ i \in Records /\ Input[i] = Input[p] /\ i \in Nat /\ i > 0
      <4>1. u[k] = c[k - n] /\ u[k + 1] = c[(k + 1) - n]
        BY <1>8, <2>1, <3>2
      <4>2. c[j] = b[j] /\ b[j] = i /\ i \in Records /\ Input[i] = Input[p]
        BY <1>2, <1>7, <3>2, <3>4
      <4> QED
        BY <3>1, <3>3, <4>1, <4>2, RecordsAre
    <3>6. CASE j < l
      <4>1. j + 1 \in 1 .. l /\ i + 1 = p + ((j + 1) - 1)
        BY <1>3, <1>4, <3>2, <3>4, <3>6
      <4>2. c[j + 1] = i + 1 /\ i + 1 \in Records /\ Input[i + 1] = Input[p]
        BY <1>2, <1>7, <4>1
      <4>3. i < Len(Input) /\ Input[i + 1] = Input[i]
        BY <3>5, <4>2, RecordsAre
      <4> QED
        BY <1>8, <3>2, <3>5, <4>2, <4>3 DEF Followed
    <3>7. CASE j = l
      <4>1. i + 1 = p + l /\ i = p + (l - 1)
        BY <1>3, <1>4, <3>4, <3>7
      <4>2. ~(i < Len(Input) /\ Input[i + 1] = Input[i])
        BY <1>2, <3>5, <4>1, RecordsAre
      <4>3. u[k + 1] = o
        BY <1>7, <3>5, <3>7
      <4>4. u[k + 1] < 0 /\ Input[-u[k + 1]] = Input[i]
        BY <1>6, <3>5, <4>3
      <4> QED
        BY <1>8, <3>2, <3>5, <4>2, <4>4 DEF Followed
    <3> QED
      BY <1>3, <3>2, <3>6, <3>7
  <2>4. CASE k > n + l
    <3>1. k = n + (l + 1) /\ ~(k <= n) /\ k - n = l + 1
      BY <1>3, <2>1, <2>4
    <3>2. u[k] = o
      BY <1>7, <1>8, <2>1, <3>1
    <3> QED
      BY <1>6, <3>2 DEF Followed
  <2> QED
    BY <1>3, <2>1, <2>2, <2>3, <2>4
<1> QED
  BY <1>1, <1>10

LEMMA SetsWholeIs ==
  SetsWhole <=> (mustSign => \A k \in DOMAIN Emitted : Followed(Emitted, k))
BY DEF SetsWhole, Followed

LEMMA SetsWholeStep ==
  ASSUME PipeAssumption, PipeTyped, Moves, mustSign' = mustSign, SetsWhole
  PROVE  SetsWhole'
<1>1. PICK e, d : e = Emitted /\ d = Emitted'
  OBVIOUS
<1>2. SUFFICES ASSUME mustSign PROVE \A k \in DOMAIN d : Followed(d, k)
  <2>1. SetsWhole' <=> (mustSign' => \A k \in DOMAIN d : Followed(d, k))
    BY <1>1 DEF SetsWhole, Followed
  <2> QED
    BY <2>1
<1>3. \A k \in DOMAIN e : Followed(e, k)
  BY <1>1, <1>2, SetsWholeIs
<1>4. CASE d = e
  BY <1>3, <1>4
<1>5. ASSUME NEW w \in Workers, Emits(w) PROVE \A k \in DOMAIN d : Followed(d, k)
  <2>1. PICK c : c = Line[w][1]
    OBVIOUS
  <2>2. SignedSet(c) /\ d = e \o c
    BY <1>1, <1>5, <2>1 DEF Emits
  <2>3. PICK b \in Numbers : WholeSet(b) /\ c = Signed(b)
    BY <2>2 DEF SignedSet
  <2>4. e \in Numbers
    BY <1>1, EmittedTyped
  <2>5. \A k \in DOMAIN (e \o Signed(b)) : Followed(e \o Signed(b), k)
    BY <1>3, <2>3, <2>4, SetJoined
  <2> QED
    BY <2>2, <2>3, <2>5
<1> QED
  BY <1>1, <1>2, <1>4, <1>5 DEF Moves, Same, Collects, Sends, Signs, Passes

-----------------------------------------------------------------------------
(* What is sent is whole. *)
LEMMA CollectedWhole ==
  ASSUME PipeAssumption, PipeTyped, Collected, Waits, rrset # <<>>
  PROVE  WholeSet(rrset)
<1>1. PICK s, l, p : s = rrset /\ l = Len(rrset) /\ p = rrset[1]
  OBVIOUS
<1>2. s \in Numbers /\ s # <<>> /\ l \in Nat \ {0} /\ 1 \in 1 .. l /\ pos \in Nat
  <2>1. s \in Numbers /\ s # <<>> /\ pos \in Nat
    BY <1>1 DEF PipeTyped
  <2>2. l \in Nat \ {0}
    BY <1>1, <2>1, EmptySeq DEF Numbers
  <2> QED
    BY <2>1, <2>2
<1>3. /\ \A k \in 1 .. l : s[k] = pos - l + (k - 1) /\ s[k] \in Records /\ Input[s[k]] = Input[p]
      /\ pos = Len(Input) + 1 \/ Input[pos] # Input[p]
  BY <1>1 DEF Collected
<1>4. p = pos - l
  BY <1>1, <1>2, <1>3
<1>5. \A k \in 1 .. l : s[k] = p + (k - 1)
  BY <1>2, <1>3, <1>4
<1>6. p + l = pos /\ p + (l - 1) = pos - 1
  BY <1>2, <1>4
<1>7. p + (l - 1) = Len(Input) \/ Input[p + l] # Input[p]
  BY <1>2, <1>3, <1>6, RecordsAre
<1> QED
  BY <1>1, <1>2, <1>3, <1>5, <1>7 DEF WholeSet

LEMMA SeqAt ==
  ASSUME NEW s \in Seq(Numbers)
  PROVE  /\ s # <<>> => /\ 1 \in 1 .. Len(s) /\ Head(s) = s[1]
                        /\ \A k \in 1 .. Len(Tail(s)) : k + 1 \in 1 .. Len(s) /\ Tail(s)[k] = s[k + 1]
         /\ \A c \in Numbers : \A k \in 1 .. Len(Append(s, c)) :
              (k \in 1 .. Len(s) /\ Append(s, c)[k] = s[k]) \/ Append(s, c)[k] = c
<1>1. Len(s) \in Nat
  BY LenProperties
<1>2. ASSUME s # <<>>
      PROVE  /\ 1 \in 1 .. Len(s) /\ Head(s) = s[1]
             /\ \A k \in 1 .. Len(Tail(s)) : k + 1 \in 1 .. Len(s) /\ Tail(s)[k] = s[k + 1]
  <2>1. Len(s) # 0 /\ 1 \in 1 .. Len(s)
    BY <1>1, <1>2, EmptySeq
  <2>2. Len(Tail(s)) = Len(s) - 1 /\ \A k \in 1 .. Len(Tail(s)) : Tail(s)[k] = s[k + 1]
    BY <1>2, HeadTailProperties
  <2>3. PICK n, m : n = Len(s) /\ m = Len(Tail(s))
    OBVIOUS
  <2>4. \A k \in 1 .. m : k + 1 \in 1 .. n
    BY <1>1, <2>2, <2>3
  <2> QED
    BY <2>1, <2>2, <2>3, <2>4
<1>3. ASSUME NEW c \in Numbers, NEW k \in 1 .. Len(Append(s, c))
      PROVE  (k \in 1 .. Len(s) /\ Append(s, c)[k] = s[k]) \/ Append(s, c)[k] = c
  <2>1. /\ Len(Append(s, c)) = Len(s) + 1 /\ Append(s, c)[Len(s) + 1] = c
        /\ \A j \in 1 .. Len(s) : Append(s, c)[j] = s[j]
    BY AppendProperties
  <2>2. PICK n, u : n = Len(s) /\ u = Append(s, c)
    OBVIOUS
  <2>3. k \in 1 .. n \/ k = n + 1
    BY <1>1, <2>1, <2>2
  <2> QED
    BY <2>1, <2>2, <2>3
<1> QED
  BY <1>2, <1>3

LEMMA SocketsWritten ==
  ASSUME PipeTyped, Sockets, NEW w \in Workers, WriteTo(w), WholeSet(rrset),
         UNCHANGED <<atWorker, fromWorker>>
  PROVE  Sockets'
<1>1. CASE w \in closed
  BY <1>1 DEF WriteTo, Sockets
<1>2. CASE w \notin closed
  <2>1. toWorker' = [toWorker EXCEPT ![w] = Append(toWorker[w], rrset)]
    BY <1>2 DEF WriteTo
  <2>2. toWorker'[w] = Append(toWorker[w], rrset) /\ \A v \in Workers \ {w} : toWorker'[v] = toWorker[v]
    BY <2>1 DEF PipeTyped
  <2>3. \A k \in 1 .. Len(toWorker'[w]) : WholeSet(toWorker'[w][k])
    <3>1. PICK s, c, u : s = toWorker[w] /\ c = rrset /\ u = Append(s, c)
      OBVIOUS
    <3>2. s \in Seq(Numbers) /\ c \in Numbers /\ WholeSet(c) /\ \A k \in 1 .. Len(s) : WholeSet(s[k])
      BY <3>1 DEF PipeTyped, Sockets
    <3>3. \A k \in 1 .. Len(u) : (k \in 1 .. Len(s) /\ u[k] = s[k]) \/ u[k] = c
      BY <3>1, <3>2, SeqAt
    <3>4. \A k \in 1 .. Len(u) : WholeSet(u[k])
      BY <3>2, <3>3
    <3> QED
      BY <2>2, <3>1, <3>4
  <2>4. ASSUME NEW v \in Workers
        PROVE  /\ \A k \in 1 .. Len(toWorker'[v]) : WholeSet(toWorker'[v][k])
               /\ atWorker'[v] = <<>> \/ WholeSet(atWorker'[v])
               /\ \A k \in 1 .. Len(fromWorker'[v]) : SignedSet(fromWorker'[v][k])
    BY <2>2, <2>3 DEF Sockets
  <2> QED
    BY <2>4 DEF Sockets, SignedSet, WholeSet
<1> QED
  BY <1>1, <1>2

LEMMA SocketsStep ==
  ASSUME PipeAssumption, PipeTyped, Control, Collected, Sockets, SigningNext
  PROVE  Sockets'
<1>1. CASE UNCHANGED <<toWorker, atWorker, fromWorker>>
  <2>1. ASSUME NEW v \in Workers
        PROVE  /\ \A k \in 1 .. Len(toWorker'[v]) : WholeSet(toWorker'[v][k])
               /\ atWorker'[v] = <<>> \/ WholeSet(atWorker'[v])
               /\ \A k \in 1 .. Len(fromWorker'[v]) : SignedSet(fromWorker'[v][k])
    BY <1>1 DEF Sockets
  <2> QED
    BY <2>1 DEF Sockets, SignedSet, WholeSet
<1>2. CASE Poll
  <2>1. CASE wantWrite /\ Writable # {}
    <3>1. PICK w \in Writable : WriteTo(w)
      BY <1>2, <2>1 DEF Poll
    <3>2. w \in Workers /\ rrset # <<>> /\ Waits
      BY <1>2, <2>1 DEF Poll, Control, Writable, Waits
    <3>3. WholeSet(rrset)
      BY <3>2, CollectedWhole
    <3>4. UNCHANGED <<atWorker, fromWorker>>
      BY <1>2 DEF Poll
    <3> QED
      BY <3>1, <3>2, <3>3, <3>4, SocketsWritten
  <2>2. CASE ~(wantWrite /\ Writable # {})
    BY <1>1, <1>2, <2>2 DEF Poll
  <2> QED
    BY <2>1, <2>2
<1>3. CASE Write
  <2>1. PICK w \in Workers : WriteTo(w)
    BY <1>3 DEF Write
  <2>2. rrset # <<>> /\ Waits /\ UNCHANGED <<atWorker, fromWorker>>
    BY <1>3 DEF Write, Control, Waits
  <2>3. WholeSet(rrset)
    BY <2>2, CollectedWhole
  <2> QED
    BY <2>1, <2>2, <2>3, SocketsWritten
<1>4. ASSUME NEW w \in Workers, Read(w) PROVE Sockets'
  <2>1. CASE w \notin eof /\ fromWorker[w] # <<>>
    <3>1. fromWorker' = [fromWorker EXCEPT ![w] = Tail(fromWorker[w])] /\ UNCHANGED <<toWorker, atWorker>>
      BY <1>4, <2>1 DEF Read
    <3>2. fromWorker'[w] = Tail(fromWorker[w]) /\ \A v \in Workers \ {w} : fromWorker'[v] = fromWorker[v]
      BY <3>1 DEF PipeTyped
    <3>3. \A k \in 1 .. Len(fromWorker'[w]) : SignedSet(fromWorker'[w][k])
      <4>1. PICK s : s = fromWorker[w]
        OBVIOUS
      <4>2. s \in Seq(Numbers) /\ s # <<>> /\ \A k \in 1 .. Len(s) : SignedSet(s[k])
        BY <2>1, <4>1 DEF PipeTyped, Sockets
      <4>3. \A k \in 1 .. Len(Tail(s)) : k + 1 \in 1 .. Len(s) /\ Tail(s)[k] = s[k + 1]
        BY <4>2, SeqAt
      <4>4. \A k \in 1 .. Len(Tail(s)) : SignedSet(Tail(s)[k])
        BY <4>2, <4>3
      <4> QED
        BY <3>2, <4>1, <4>4
    <3>4. ASSUME NEW v \in Workers
          PROVE  /\ \A k \in 1 .. Len(toWorker'[v]) : WholeSet(toWorker'[v][k])
                 /\ atWorker'[v] = <<>> \/ WholeSet(atWorker'[v])
                 /\ \A k \in 1 .. Len(fromWorker'[v]) : SignedSet(fromWorker'[v][k])
      BY <3>1, <3>2, <3>3 DEF Sockets
    <3> QED
      BY <3>4 DEF Sockets, SignedSet, WholeSet
  <2>2. CASE ~(w \notin eof /\ fromWorker[w] # <<>>)
    BY <1>1, <1>4, <2>2 DEF Read
  <2> QED
    BY <2>1, <2>2
<1>5. ASSUME NEW w \in Workers, WorkerRead(w) PROVE Sockets'
  <2>1. /\ toWorker[w] # <<>> /\ UNCHANGED fromWorker
        /\ atWorker' = [atWorker EXCEPT ![w] = Head(toWorker[w])]
        /\ toWorker' = [toWorker EXCEPT ![w] = Tail(toWorker[w])]
    BY <1>5 DEF WorkerRead
  <2>2. /\ atWorker'[w] = Head(toWorker[w]) /\ toWorker'[w] = Tail(toWorker[w])
        /\ \A v \in Workers \ {w} : atWorker'[v] = atWorker[v] /\ toWorker'[v] = toWorker[v]
    BY <2>1 DEF PipeTyped
  <2>3. WholeSet(atWorker'[w]) /\ \A k \in 1 .. Len(toWorker'[w]) : WholeSet(toWorker'[w][k])
    <3>1. PICK s : s = toWorker[w]
      OBVIOUS
    <3>2. s \in Seq(Numbers) /\ s # <<>> /\ \A k \in 1 .. Len(s) : WholeSet(s[k])
      BY <2>1, <3>1 DEF PipeTyped, Sockets
    <3>3. /\ 1 \in 1 .. Len(s) /\ Head(s) = s[1]
          /\ \A k \in 1 .. Len(Tail(s)) : k + 1 \in 1 .. Len(s) /\ Tail(s)[k] = s[k + 1]
      BY <3>2, SeqAt
    <3>4. WholeSet(Head(s)) /\ \A k \in 1 .. Len(Tail(s)) : WholeSet(Tail(s)[k])
      BY <3>2, <3>3
    <3> QED
      BY <2>2, <3>1, <3>4
  <2>4. ASSUME NEW v \in Workers
        PROVE  /\ \A k \in 1 .. Len(toWorker'[v]) : WholeSet(toWorker'[v][k])
               /\ atWorker'[v] = <<>> \/ WholeSet(atWorker'[v])
               /\ \A k \in 1 .. Len(fromWorker'[v]) : SignedSet(fromWorker'[v][k])
    BY <2>1, <2>2, <2>3 DEF Sockets
  <2> QED
    BY <2>4 DEF Sockets, SignedSet, WholeSet
<1>6. ASSUME NEW w \in Workers, WorkerWrite(w) PROVE Sockets'
  <2>1. UNCHANGED toWorker /\ atWorker' = [atWorker EXCEPT ![w] = <<>>] /\ atWorker[w] # <<>>
    BY <1>6 DEF WorkerWrite
  <2>2. atWorker'[w] = <<>> /\ \A v \in Workers \ {w} : atWorker'[v] = atWorker[v]
    BY <2>1 DEF PipeTyped
  <2>3. CASE axfr = "done"
    <3>1. UNCHANGED fromWorker
      BY <1>6, <2>3 DEF WorkerWrite
    <3>2. ASSUME NEW v \in Workers
          PROVE  /\ \A k \in 1 .. Len(toWorker'[v]) : WholeSet(toWorker'[v][k])
                 /\ atWorker'[v] = <<>> \/ WholeSet(atWorker'[v])
                 /\ \A k \in 1 .. Len(fromWorker'[v]) : SignedSet(fromWorker'[v][k])
      BY <2>1, <2>2, <3>1 DEF Sockets
    <3> QED
      BY <3>2 DEF Sockets, SignedSet, WholeSet
  <2>4. CASE axfr # "done"
    <3>1. fromWorker' = [fromWorker EXCEPT ![w] = Append(fromWorker[w], Signed(atWorker[w]))]
      BY <1>6, <2>4 DEF WorkerWrite
    <3>2. /\ fromWorker'[w] = Append(fromWorker[w], Signed(atWorker[w]))
          /\ \A v \in Workers \ {w} : fromWorker'[v] = fromWorker[v]
      BY <3>1 DEF PipeTyped
    <3>3. \A k \in 1 .. Len(fromWorker'[w]) : SignedSet(fromWorker'[w][k])
      <4>1. PICK s, a, c, u : s = fromWorker[w] /\ a = atWorker[w] /\ c = Signed(a) /\ u = Append(s, c)
        OBVIOUS
      <4>2. /\ s \in Seq(Numbers) /\ a \in Numbers /\ a # <<>> /\ WholeSet(a)
            /\ \A k \in 1 .. Len(s) : SignedSet(s[k])
        BY <2>1, <4>1 DEF PipeTyped, Sockets
      <4>3. c \in Numbers /\ SignedSet(c)
        BY <4>1, <4>2, SignedTyped DEF SignedSet
      <4>4. \A k \in 1 .. Len(u) : (k \in 1 .. Len(s) /\ u[k] = s[k]) \/ u[k] = c
        BY <4>1, <4>2, <4>3, SeqAt
      <4>5. \A k \in 1 .. Len(u) : SignedSet(u[k])
        BY <4>2, <4>3, <4>4
      <4> QED
        BY <3>2, <4>1, <4>5
    <3>4. ASSUME NEW v \in Workers
          PROVE  /\ \A k \in 1 .. Len(toWorker'[v]) : WholeSet(toWorker'[v][k])
                 /\ atWorker'[v] = <<>> \/ WholeSet(atWorker'[v])
                 /\ \A k \in 1 .. Len(fromWorker'[v]) : SignedSet(fromWorker'[v][k])
      BY <2>1, <2>2, <3>2, <3>3 DEF Sockets
    <3> QED
      BY <3>4 DEF Sockets, SignedSet, WholeSet
  <2> QED
    BY <2>3, <2>4
<1>7. CASE Submit \/ Push \/ Drain \/ Flush \/ Shut \/ GetFinal \/ CloseSockets \/ ReadMore \/ Fail
  BY <1>1, <1>7 DEF Submit, Push, Drain, Flush, Shut, GetFinal, CloseSockets, ReadMore, Fail, workers
<1>8. ASSUME NEW w \in Workers, WorkerEnds(w) \/ WorkerDies(w) PROVE Sockets'
  BY <1>1, <1>8 DEF WorkerEnds, WorkerDies
<1> QED
  BY <1>2, <1>3, <1>4, <1>5, <1>6, <1>7, <1>8 DEF SigningNext, Transfer, Worker

-----------------------------------------------------------------------------
(* Where doAXFR is, and what it then knows. *)
LEMMA FlushAsks ==
  ASSUME PipeAssumption, PipeTyped, Collected, SomethingSent,
         mustSign, axfr = "submit", pos > Len(Input)
  PROVE  outstanding > 0
<1>1. SUFFICES ASSUME ~(outstanding > 0) PROVE FALSE
  OBVIOUS
<1>2. PICK l : l = Len(Input)
  OBVIOUS
<1>3. l \in Nat /\ Records = 1 .. l /\ pos = l + 1
  BY <1>2, RecordsAre DEF PipeTyped
<1>4. Len(rrset) = pos - 1
  BY <1>1 DEF SomethingSent, Submits
<1>5. Len(rrset) = l
  BY <1>3, <1>4
<1>6. \A k \in 1 .. l : rrset[k] = pos - l + (k - 1) /\ Input[rrset[k]] = Input[rrset[1]]
  BY <1>5 DEF Collected
<1>7. \A k \in 1 .. l : rrset[k] = k
  BY <1>3, <1>6
<1>8. PICK i \in Records : Input[i] # Input[1]
  BY DEF SomethingSent
<1>9. i \in 1 .. l /\ 1 \in 1 .. l
  BY <1>3, <1>8
<1> QED
  BY <1>6, <1>7, <1>8, <1>9

LEMMA ControlStep ==
  ASSUME PipeAssumption, PipeTyped, Control, Collected, SomethingSent, SigningNext
  PROVE  Control'
<1> USE DEF Control, Waits, Submits
<1>0. outstanding \in Nat /\ pos \in Nat /\ pos <= Len(Input) + 1 /\ Len(Input) \in Nat /\ mustSign' = mustSign
  BY DEF PipeTyped, PipeAssumption, SigningNext
<1>1. CASE Submit
  <2>1. CASE rrset # <<>> /\ Input[rrset[1]] # Input[pos]
    <3>1. SendRRSetToWorker("push") /\ ~final' /\ UNCHANGED <<pos, outstanding, final>> /\ pos <= Len(Input)
      BY <1>1, <2>1 DEF Submit
    <3>2. CASE mustSign
      BY <1>0, <1>1, <2>1, <3>1, <3>2 DEF SendRRSetToWorker, Submit
    <3>3. CASE ~mustSign
      BY <1>0, <1>1, <2>1, <3>1, <3>3 DEF SendRRSetToWorker, Submit
    <3> QED
      BY <3>2, <3>3
  <2>2. CASE ~(rrset # <<>> /\ Input[rrset[1]] # Input[pos])
    BY <1>0, <1>1, <2>2 DEF Submit
  <2> QED
    BY <2>1, <2>2
<1>2. CASE Push
  BY <1>0, <1>2 DEF Push, send
<1>3. CASE Drain
  BY <1>0, <1>3 DEF Drain, send
<1>4. CASE Flush
  <2>1. SendRRSetToWorker("shut") /\ final' /\ UNCHANGED <<pos, outstanding>> /\ pos = Len(Input) + 1
    BY <1>0, <1>4 DEF Flush
  <2>2. CASE mustSign
    <3>1. outstanding > 0
      BY <1>4, <2>2, FlushAsks DEF Flush
    <3>2. axfr' = "poll" /\ wantWrite' = (rrset # <<>>) /\ rrset' = rrset /\ ret' = "shut"
      BY <2>1, <2>2, <3>1 DEF SendRRSetToWorker
    <3> QED
      BY <1>0, <2>1, <2>2, <3>2
  <2>3. CASE ~mustSign
    <3>1. axfr' = "shut" /\ rrset' = <<>> /\ UNCHANGED wantWrite /\ ~wantWrite
      BY <1>4, <2>1, <2>3 DEF SendRRSetToWorker, Flush
    <3> QED
      BY <1>0, <2>1, <2>3, <3>1
  <2> QED
    BY <2>2, <2>3
<1>5. CASE Shut
  BY <1>0, <1>5 DEF Shut
<1>6. CASE GetFinal
  BY <1>0, <1>6 DEF GetFinal, send
<1>7. CASE CloseSockets
  BY <1>0, <1>7 DEF CloseSockets, send
<1>8. CASE Poll
  <2>1. CASE wantWrite /\ Writable # {}
    <3>1. PICK w \in Writable : WriteTo(w) /\ (w \notin closed => axfr' = "read")
      BY <1>8, <2>1 DEF Poll
    <3> QED
      BY <1>0, <1>8, <3>1 DEF Poll, WriteTo
  <2>2. CASE ~(wantWrite /\ Writable # {})
    BY <1>0, <1>8, <2>2 DEF Poll
  <2> QED
    BY <2>1, <2>2
<1>9. CASE ReadMore
  <2>1. CASE outstanding > 0 /\ final
    BY <1>0, <1>9, <2>1 DEF ReadMore, workers
  <2>2. CASE ~(outstanding > 0 /\ final)
    BY <1>0, <1>9, <2>2 DEF ReadMore, workers
  <2> QED
    BY <2>1, <2>2
<1>10. CASE Write
  <2>1. PICK w \in Workers : WriteTo(w) /\ (w \notin closed => axfr' = ret)
    BY <1>10 DEF Write
  <2> QED
    BY <1>0, <1>10, <2>1 DEF Write, WriteTo
<1>11. ASSUME NEW w \in Workers, Read(w) PROVE Control'
  BY <1>0, <1>11 DEF Read
<1>12. CASE Fail
  BY <1>0, <1>12 DEF Fail, send
<1>13. ASSUME NEW w \in Workers, WorkerRead(w) \/ WorkerWrite(w) \/ WorkerEnds(w) \/ WorkerDies(w)
       PROVE  Control'
  BY <1>0, <1>13 DEF WorkerRead, WorkerWrite, WorkerEnds, WorkerDies, send
<1> QED
  BY <1>1, <1>2, <1>3, <1>4, <1>5, <1>6, <1>7, <1>8, <1>9, <1>10, <1>11, <1>12, <1>13
     DEF SigningNext, Transfer, Worker

LEMMA CollectedPush ==
  ASSUME PipeAssumption, PipeTyped, Collected, Push
  PROVE  \A k \in 1 .. Len(rrset') : /\ rrset'[k] = pos' - Len(rrset') + (k - 1)
                                     /\ rrset'[k] \in Records /\ Input[rrset'[k]] = Input[rrset'[1]]
<1>1. PICK s, l, t, p : s = rrset /\ l = Len(s) /\ t = rrset' /\ p = pos
  OBVIOUS
<1>2. t = Append(s, p) /\ pos' = p + 1 /\ s \in Numbers /\ p \in Nat /\ p > 0
  BY <1>1 DEF Push, PipeTyped
<1>3. /\ l \in Nat /\ Len(t) = l + 1 /\ (\A k \in 1 .. l : t[k] = s[k]) /\ t[l + 1] = p
  <2>1. /\ Len(s) \in Nat /\ Len(Append(s, p)) = Len(s) + 1
        /\ (\A k \in 1 .. Len(s) : Append(s, p)[k] = s[k]) /\ Append(s, p)[Len(s) + 1] = p
    BY <1>2, Appended
  <2> QED
    BY <1>1, <1>2, <2>1, Zenon
<1>4. \A k \in 1 .. l : s[k] = p - l + (k - 1) /\ s[k] \in Records /\ Input[s[k]] = Input[s[1]]
  BY <1>1 DEF Collected
<1>5. p \in Records /\ (s = <<>> \/ Input[p] = Input[s[1]])
  BY <1>1, <1>2, RecordsAre DEF Collected, Push
<1>6. ASSUME NEW k \in 1 .. l + 1
      PROVE  t[k] = (p + 1) - (l + 1) + (k - 1) /\ t[k] \in Records /\ Input[t[k]] = Input[t[1]]
  <2>1. (p + 1) - (l + 1) = p - l
    BY <1>2, <1>3
  <2>2. CASE k \in 1 .. l
    <3>1. 1 \in 1 .. l
      BY <1>3, <2>2
    <3> QED
      BY <1>3, <1>4, <2>1, <2>2, <3>1
  <2>3. CASE k = l + 1
    <3>1. t[k] = p /\ p - l + (k - 1) = p
      BY <1>2, <1>3, <2>3
    <3>2. Input[p] = Input[t[1]]
      <4>1. CASE l = 0
        BY <1>3, <2>3, <3>1, <4>1
      <4>2. CASE l # 0
        <5>1. 1 \in 1 .. l /\ s # <<>>
          BY <1>1, <1>3, <4>2, EmptySeq
        <5> QED
          BY <1>3, <1>5, <5>1
      <4> QED
        BY <4>1, <4>2
    <3> QED
      BY <1>5, <2>1, <3>1, <3>2
  <2> QED
    BY <1>3, <2>2, <2>3
<1> QED
  BY <1>1, <1>2, <1>3, <1>6

LEMMA CollectedStep ==
  ASSUME PipeAssumption, PipeTyped, Control, Collected, SomethingSent, SigningNext
  PROVE  Collected'
<1>0. outstanding \in Nat /\ pos \in Nat /\ pos <= Len(Input) + 1 /\ Len(Input) \in Nat /\ mustSign' = mustSign
  BY DEF PipeTyped, PipeAssumption, SigningNext
<1>none. Len(<<>>) = 0 /\ \A k \in 1 .. 0 : FALSE
  OBVIOUS
<1>1. CASE Submit
  <2>1. CASE rrset # <<>> /\ Input[rrset[1]] # Input[pos]
    <3>1. SendRRSetToWorker("push") /\ ~final' /\ pos' = pos /\ pos <= Len(Input)
      BY <1>1, <2>1 DEF Submit, Control, Submits
    <3>2. CASE mustSign
      <4>1. axfr' = "poll" /\ rrset' = rrset
        BY <3>1, <3>2 DEF SendRRSetToWorker
      <4> QED
        BY <2>1, <3>1, <4>1 DEF Collected
    <3>3. CASE ~mustSign
      <4>1. axfr' = "push" /\ rrset' = <<>>
        BY <3>1, <3>3 DEF SendRRSetToWorker
      <4> QED
        BY <1>none, <3>1, <4>1 DEF Collected
    <3> QED
      BY <3>2, <3>3
  <2>2. CASE ~(rrset # <<>> /\ Input[rrset[1]] # Input[pos])
    <3>1. axfr' = "push" /\ UNCHANGED <<rrset, pos>> /\ pos <= Len(Input)
      BY <1>1, <2>2 DEF Submit
    <3> QED
      BY <2>2, <3>1 DEF Collected, Waits
  <2> QED
    BY <2>1, <2>2
<1>2. CASE Push
  <2>1. axfr' \in {"drain", "submit"}
    BY <1>2 DEF Push
  <2> QED
    BY <1>2, <2>1, CollectedPush DEF Collected, Waits
<1>3. CASE Drain \/ CloseSockets \/ Fail
  BY <1>3 DEF Drain, CloseSockets, Fail, Collected, Waits
<1>4. CASE Flush
  <2>1. SendRRSetToWorker("shut") /\ pos' = pos /\ pos = Len(Input) + 1
    BY <1>0, <1>4 DEF Flush
  <2>2. CASE rrset' = rrset
    BY <2>1, <2>2 DEF Collected, SendRRSetToWorker
  <2>3. CASE rrset' = <<>>
    BY <1>none, <2>1, <2>3 DEF Collected, SendRRSetToWorker
  <2> QED
    BY <2>1, <2>2, <2>3 DEF SendRRSetToWorker
<1>5. CASE Shut \/ GetFinal
  <2>1. rrset' = <<>> /\ axfr' # "push"
    BY <1>5 DEF Shut, GetFinal
  <2> QED
    BY <1>none, <2>1 DEF Collected
<1>6. CASE Poll
  <2>1. CASE rrset' = <<>> /\ axfr' # "push"
    BY <1>none, <2>1 DEF Collected
  <2>2. CASE rrset' = rrset /\ axfr' # "push"
    BY <1>6, <2>2 DEF Poll, Collected, Waits
  <2>3. axfr' # "push" /\ (rrset' = rrset \/ rrset' = <<>>)
    BY <1>6 DEF Poll, WriteTo
  <2> QED
    BY <2>1, <2>2, <2>3
<1>7. CASE ReadMore
  <2>1. UNCHANGED <<rrset, pos>> /\ axfr = "read"
    BY <1>7 DEF ReadMore
  <2>2. axfr' = "push" => pos <= Len(Input) /\ rrset = <<>>
    BY <1>0, <1>7 DEF ReadMore, Control, Waits
  <2> QED
    BY <2>1, <2>2 DEF Collected, Waits
<1>8. CASE Write
  <2>1. PICK w \in Workers : WriteTo(w) /\ (w \notin closed => axfr' = ret)
    BY <1>8 DEF Write
  <2>2. CASE w \in closed
    <3>1. axfr' = "close" /\ UNCHANGED <<rrset, pos>>
      BY <1>8, <2>1, <2>2 DEF Write, WriteTo
    <3> QED
      BY <3>1 DEF Collected, Waits
  <2>3. CASE w \notin closed
    <3>1. rrset' = <<>> /\ pos' = pos /\ axfr' = ret
      BY <1>8, <2>1, <2>3 DEF Write, WriteTo
    <3>2. ret = "push" => pos <= Len(Input)
      BY <1>8 DEF Write, Control, Waits
    <3> QED
      BY <1>none, <3>1, <3>2 DEF Collected
  <2> QED
    BY <2>2, <2>3
<1>9. ASSUME NEW w \in Workers, Read(w) PROVE Collected'
  BY <1>9 DEF Read, Collected, Waits
<1>10. ASSUME NEW w \in Workers, WorkerRead(w) \/ WorkerWrite(w) \/ WorkerEnds(w) \/ WorkerDies(w)
       PROVE  Collected'
  BY <1>10 DEF WorkerRead, WorkerWrite, WorkerEnds, WorkerDies, Collected, Waits
<1> QED
  BY <1>1, <1>2, <1>3, <1>4, <1>5, <1>6, <1>7, <1>8, <1>9, <1>10 DEF SigningNext, Transfer, Worker

-----------------------------------------------------------------------------
(* Something stays outstanding. *)
LEMMA HeldCounts ==
  ASSUME PipeTyped, Counted, axfr # "done", NEW w \in Workers, Held(w) # <<>>
  PROVE  outstanding > 0
<1>1. PICK h : h = Line
  OBVIOUS
<1>2. h \in Lines /\ h[w] = Held(w)
  BY <1>1, LineIs
<1>3. h[w] \in Seq(Numbers) /\ h[w] # <<>>
  BY <1>2 DEF Lines
<1>4. 1 \in 1 .. Len(h[w])
  BY <1>3, EmptySeq
<1>5. Slots(h) # {}
  BY <1>4, SlotsAre
<1>6. IsFiniteSet(Slots(h)) /\ outstanding = Cardinality(Slots(h)) /\ outstanding \in Nat
  BY <1>1 DEF Counted, PipeTyped
<1>7. Cardinality(Slots(h)) # 0
  BY <1>5, <1>6, FS_EmptySet
<1> QED
  BY <1>6, <1>7

LEMMA HeldStays ==
  ASSUME PipeTyped, PipeTyped', NEW w \in Workers, Held(w) # <<>>,
         Line'[w] = Line[w] \/ Signs
  PROVE  Held(w)' # <<>>
<1>1. Line[w] = Held(w) /\ Line'[w] = Held(w)' /\ Line \in Lines /\ Line' \in Lines
  BY LineIs, LineNextIs
<1>2. Line[w] \in Seq(Numbers) /\ Line'[w] \in Seq(Numbers) /\ Line[w] # <<>>
  BY <1>1 DEF Lines
<1>3. Len(Line'[w]) = Len(Line[w])
  BY DEF Signs
<1>4. Len(Line[w]) # 0 /\ Len(<<>>) = 0
  BY <1>2, EmptySeq
<1>5. Line'[w] # <<>>
  BY <1>3, <1>4
<1> QED
  BY <1>1, <1>5

LEMMA SomethingSentStep ==
  ASSUME PipeAssumption, PipeTyped, PipeTyped', Control, Collected, SomethingSent, Sockets, Counted,
         SigningNext, axfr # "done"
  PROVE  SomethingSent'
<1>0. outstanding \in Nat /\ outstanding' \in Nat /\ pos \in Nat /\ mustSign' = mustSign
  BY DEF PipeTyped, SigningNext
<1>several. mustSign => \E i \in Records : Input[i] # Input[1]
  BY DEF SomethingSent
<1>1. CASE Submit
  <2>1. CASE rrset # <<>> /\ Input[rrset[1]] # Input[pos] /\ mustSign
    <3>1. axfr' = "poll"
      BY <1>1, <2>1 DEF Submit, SendRRSetToWorker, Control, Submits
    <3> QED
      BY <1>0, <1>several, <3>1 DEF SomethingSent, Submits
  <2>2. CASE rrset # <<>> /\ Input[rrset[1]] # Input[pos] /\ ~mustSign
    <3>1. axfr' # "read"
      BY <1>1, <2>2 DEF Submit, SendRRSetToWorker
    <3> QED
      BY <1>0, <2>2, <3>1 DEF SomethingSent
  <2>3. CASE ~(rrset # <<>> /\ Input[rrset[1]] # Input[pos])
    BY <1>0, <1>1, <2>3 DEF Submit, SomethingSent, Submits
  <2> QED
    BY <2>1, <2>2, <2>3
<1>2. CASE Push
  <2>1. /\ rrset' = Append(rrset, pos) /\ pos' = pos + 1 /\ outstanding' = outstanding /\ axfr' \in {"drain", "submit"}
        /\ rrset \in Numbers
    BY <1>2 DEF Push, PipeTyped
  <2>2. Len(rrset') = Len(rrset) + 1 /\ Len(rrset) \in Nat
    BY <1>0, <2>1, Appended
  <2>3. mustSign => outstanding > 0 \/ Len(rrset) = pos - 1
    BY <1>2 DEF Push, SomethingSent, Submits
  <2>4. mustSign => outstanding' > 0 \/ Len(rrset') = pos' - 1
    BY <1>0, <2>1, <2>2, <2>3
  <2> QED
    BY <1>0, <1>several, <2>1, <2>4 DEF SomethingSent
<1>3. CASE Drain
  BY <1>0, <1>3 DEF Drain, SomethingSent, Submits, send
<1>4. CASE Flush
  <2>1. axfr' \in {"poll", "shut"}
    BY <1>4 DEF Flush, SendRRSetToWorker
  <2> QED
    BY <1>0, <1>several, <2>1 DEF SomethingSent, Submits
<1>5. CASE Shut \/ GetFinal \/ CloseSockets \/ Fail
  <2>1. axfr' \in {"poll", "pop", "close", "done"}
    BY <1>5 DEF Shut, GetFinal, CloseSockets, Fail
  <2> QED
    BY <1>0, <1>several, <2>1 DEF SomethingSent, Submits
<1>6. CASE Poll
  <2>1. axfr' \in {"read", "close"} /\ ready' = Readable /\ ret' = ret
    BY <1>6 DEF Poll, WriteTo
  <2>2. ASSUME axfr' = "read", ret' = "push", rrset' = <<>>
        PROVE  \E w \in Workers \ ready' : Held(w)' # <<>>
    <3>1. rrset # <<>>
      BY <1>6, <2>1, <2>2 DEF Poll, Control
    <3>2. wantWrite /\ Writable # {}
      BY <1>6, <2>2, <3>1 DEF Poll
    <3>3. PICK w \in Writable : WriteTo(w)
      BY <1>6, <3>2 DEF Poll
    <3>4. w \in Workers /\ w \notin ready' /\ w \notin closed
      BY <2>1 DEF Writable, Readable
    <3>5. Same \/ Sends(w)
      BY <1>6, <3>1, <3>3, <3>4, WriteMoves DEF Poll
    <3>6. Sends(w)
      BY <2>2, <3>1, <3>5 DEF Same
    <3>7. Line'[w] # <<>>
      <4>1. PICK s : s = Line[w]
        OBVIOUS
      <4>2. s \in Seq(Numbers) /\ rrset \in Numbers
        BY <3>4, <4>1, LineIs DEF Lines, PipeTyped
      <4>3. Len(Append(s, rrset)) = Len(s) + 1 /\ Len(s) \in Nat
        BY <4>2, AppendProperties, LenProperties
      <4>4. Append(s, rrset) # <<>>
        BY <4>2, <4>3, AppendProperties
      <4>5. Line'[w] = Append(s, rrset)
        BY <3>6, <4>1 DEF Sends
      <4> QED
        BY <4>4, <4>5
    <3>8. Held(w)' = Line'[w]
      BY <3>4, LineNextIs
    <3> QED
      BY <3>4, <3>7, <3>8
  <2> QED
    BY <1>0, <1>several, <2>1, <2>2 DEF SomethingSent, Submits
<1>7. CASE ReadMore
  <2>1. axfr = "read" /\ UNCHANGED <<rrset, pos, outstanding, ret>> /\ UNCHANGED <<toWorker, atWorker, fromWorker>>
    BY <1>7 DEF ReadMore, workers
  <2>2. ASSUME axfr' = "read", ret' = "push", rrset' = <<>>
        PROVE  \E w \in Workers \ ready' : Held(w)' # <<>>
    <3>1. ~final
      BY <2>1, <2>2 DEF Control, Waits
    <3>2. axfr' = IF wantWrite THEN "write" ELSE ret
      BY <1>7, <3>1 DEF ReadMore
    <3> QED
      BY <2>1, <2>2, <3>2
  <2>3. ASSUME axfr' \in {"submit", "push", "drain"} PROVE outstanding' > 0
    <3>1. axfr' = ret /\ ~wantWrite
      BY <1>7, <2>1, <2>3 DEF ReadMore
    <3>2. rrset = <<>> /\ ret = "push"
      BY <2>1, <2>3, <3>1 DEF Control, Waits
    <3>3. PICK w \in Workers : Held(w) # <<>>
      BY <2>1, <3>2 DEF SomethingSent
    <3>4. outstanding > 0
      BY <3>3, HeldCounts
    <3> QED
      BY <2>1, <3>4
  <2> QED
    BY <1>0, <1>several, <2>2, <2>3 DEF SomethingSent, Submits
<1>8. CASE Write
  <2>1. PICK w \in Workers : WriteTo(w) /\ (w \notin closed => axfr' = ret)
    BY <1>8 DEF Write
  <2>2. CASE w \in closed
    <3>1. axfr' = "close"
      BY <2>1, <2>2 DEF WriteTo
    <3> QED
      BY <1>0, <1>several, <3>1 DEF SomethingSent, Submits
  <2>3. CASE w \notin closed
    <3>1. axfr' = ret /\ outstanding' = outstanding + 1
      BY <2>1, <2>3 DEF WriteTo
    <3>2. ret # "read"
      BY <1>8 DEF Write, Control, Waits
    <3>3. outstanding' > 0
      BY <1>0, <3>1
    <3> QED
      BY <1>0, <1>several, <3>1, <3>2, <3>3 DEF SomethingSent
  <2> QED
    BY <2>2, <2>3
<1>9. ASSUME NEW w \in Workers, Read(w) PROVE SomethingSent'
  <2>1. axfr = "read" /\ axfr' = "read" /\ ret' = ret /\ rrset' = rrset /\ w \in ready
        /\ ready' \subseteq ready
    BY <1>9 DEF Read
  <2>2. ASSUME ret' = "push", rrset' = <<>>
        PROVE  \E v \in Workers \ ready' : Held(v)' # <<>>
    <3>1. PICK v \in Workers \ ready : Held(v) # <<>>
      BY <2>1, <2>2 DEF SomethingSent
    <3>2. v # w /\ v \in Workers \ ready'
      BY <2>1, <3>1
    <3>3. Same \/ Emits(w)
      BY <1>9, ReadMoves
    <3>4. Line'[v] = Line[v]
      BY <3>2, <3>3 DEF Same, Emits, OthersSame
    <3>5. Held(v)' # <<>>
      BY <3>1, <3>4, HeldStays
    <3> QED
      BY <3>2, <3>5
  <2> QED
    BY <1>0, <1>several, <2>1, <2>2 DEF SomethingSent, Submits
<1>10. ASSUME NEW w \in Workers, WorkerRead(w) \/ WorkerWrite(w) \/ WorkerEnds(w) \/ WorkerDies(w)
       PROVE  SomethingSent'
  <2>1. UNCHANGED <<axfr, ret, ready, rrset, pos, outstanding>>
    BY <1>10 DEF WorkerRead, WorkerWrite, WorkerEnds, WorkerDies, send
  <2>2. Line' = Line \/ Signs
    <3>1. WorkerRead(w) => Line' = Line
      BY WorkerReadMoves DEF Same
    <3>2. WorkerWrite(w) => Signs
      BY WorkerWriteMoves
    <3>3. WorkerEnds(w) \/ WorkerDies(w) => Line' = Line
      BY LineSame DEF WorkerEnds, WorkerDies
    <3> QED
      BY <1>10, <3>1, <3>2, <3>3
  <2>3. ASSUME axfr' = "read", ret' = "push", rrset' = <<>>
        PROVE  \E v \in Workers \ ready' : Held(v)' # <<>>
    <3>1. PICK v \in Workers \ ready : Held(v) # <<>>
      BY <2>1, <2>3 DEF SomethingSent
    <3>2. Held(v)' # <<>>
      BY <2>2, <3>1, HeldStays
    <3> QED
      BY <2>1, <3>1, <3>2
  <2> QED
    BY <1>0, <1>several, <2>1, <2>3 DEF SomethingSent, Submits
<1> QED
  BY <1>1, <1>2, <1>3, <1>4, <1>5, <1>6, <1>7, <1>8, <1>9, <1>10 DEF SigningNext, Transfer, Worker

-----------------------------------------------------------------------------
(* The inductive invariant. *)
LEMMA DoneStays ==
  ASSUME SigningNext, axfr = "done"
  PROVE  /\ axfr' = "done"
         /\ UNCHANGED <<mustSign, pos, rrset, outstanding, chunks, final, out, ready, wantWrite, ret>>
<1>1. PICK w \in Workers : WorkerRead(w) \/ WorkerWrite(w) \/ WorkerEnds(w) \/ WorkerDies(w)
  BY DEF SigningNext, Transfer, Worker, Submit, Push, Drain, Flush, Shut, GetFinal, CloseSockets, Fail,
         Poll, ReadMore, Write, Read
<1> QED
  BY <1>1 DEF SigningNext, WorkerRead, WorkerWrite, WorkerEnds, WorkerDies, send

LEMMA SetsWholeSame ==
  ASSUME SetsWhole, UNCHANGED <<mustSign, chunks, out>>
  PROVE  SetsWhole'
<1>1. PICK e, d : e = Emitted /\ d = Emitted'
  OBVIOUS
<1>2. e = d
  BY <1>1, EmittedSame
<1>3. mustSign => \A k \in DOMAIN e : Followed(e, k)
  BY <1>1, SetsWholeIs
<1>4. SetsWhole' <=> (mustSign' => \A k \in DOMAIN d : Followed(d, k))
  BY <1>1 DEF SetsWhole, Followed
<1> QED
  BY <1>2, <1>3, <1>4

LEMMA PipeStep ==
  ASSUME PipeAssumption, PipeInv, SigningNext
  PROVE  PipeInv'
<1>1. PipeTyped /\ Control /\ Collected /\ SomethingSent /\ Sockets /\ SetsWhole /\ Counted /\ Placed
  BY DEF PipeInv
<1>2. PipeTyped'
  BY <1>1, TypedStep
<1>3. Control' /\ Collected' /\ Sockets'
  BY <1>1, ControlStep, CollectedStep, SocketsStep
<1>4. CASE axfr # "done"
  <2>1. Moves
    BY <1>1, <1>2, <1>4, EveryMove
  <2>2. mustSign' = mustSign
    BY DEF SigningNext
  <2>3. SomethingSent' /\ SetsWhole' /\ Counted' /\ Placed'
    BY <1>1, <1>2, <1>4, <2>1, <2>2, SomethingSentStep, SetsWholeStep, CountedStep, PlacedStep
  <2> QED
    BY <1>2, <1>3, <2>3 DEF PipeInv
<1>5. CASE axfr = "done"
  <2>1. axfr' = "done" /\ UNCHANGED <<mustSign, chunks, out>>
    BY <1>5, DoneStays
  <2>2. SetsWhole'
    BY <1>1, <2>1, SetsWholeSame
  <2>3. SomethingSent'
    BY <1>1, <2>1 DEF SomethingSent, Submits
  <2>4. Counted' /\ Placed'
    BY <2>1 DEF Counted, Placed
  <2> QED
    BY <1>2, <1>3, <2>2, <2>3, <2>4 DEF PipeInv
<1> QED
  BY <1>4, <1>5

LEMMA PipeStutters ==
  ASSUME PipeInv, UNCHANGED signingVars
  PROVE  PipeInv'
<1>1. /\ UNCHANGED <<mustSign, pos, rrset, outstanding, chunks, final, out, axfr, ready, wantWrite, ret>>
      /\ UNCHANGED <<toWorker, atWorker, fromWorker>>
  BY DEF signingVars, workers, send
<1>2. PipeTyped' /\ Control' /\ Collected'
  BY <1>1 DEF PipeInv, PipeTyped, Control, Collected, Waits, Submits
<1>3. Line' = Line /\ Emitted' = Emitted
  BY <1>1, LineSame, EmittedSame
<1>4. \A w : Held(w)' = Held(w)
  BY <1>1 DEF Held
<1>5. SomethingSent'
  <2>1. /\ mustSign => \E i \in Records : Input[i] # Input[1]
        /\ mustSign /\ Submits => outstanding > 0 \/ Len(rrset) = pos - 1
    BY DEF PipeInv, SomethingSent
  <2>2. axfr = "read" /\ ret = "push" /\ rrset = <<>> => \E w \in Workers \ ready : Held(w) # <<>>
    BY DEF PipeInv, SomethingSent
  <2>3. mustSign' /\ Submits' => outstanding' > 0 \/ Len(rrset') = pos' - 1
    BY <1>1, <2>1 DEF Submits
  <2>4. axfr' = "read" /\ ret' = "push" /\ rrset' = <<>> => \E w \in Workers \ ready' : Held(w)' # <<>>
    BY <1>1, <1>4, <2>2, Zenon
  <2>5. mustSign' => \E i \in Records : Input[i] # Input[1]
    BY <1>1, <2>1
  <2> QED
    BY <2>3, <2>4, <2>5 DEF SomethingSent
<1>6. Sockets'
  <2>1. ASSUME NEW v \in Workers
        PROVE  /\ \A k \in 1 .. Len(toWorker'[v]) : WholeSet(toWorker'[v][k])
               /\ atWorker'[v] = <<>> \/ WholeSet(atWorker'[v])
               /\ \A k \in 1 .. Len(fromWorker'[v]) : SignedSet(fromWorker'[v][k])
    BY <1>1 DEF PipeInv, Sockets
  <2> QED
    BY <2>1 DEF Sockets, SignedSet, WholeSet
<1>7. SetsWhole'
  BY <1>1, SetsWholeSame DEF PipeInv
<1>8. Counted'
  <2>1. Slots(Line)' = Slots(Line)
    BY <1>3 DEF Slots
  <2> QED
    BY <1>1, <2>1 DEF PipeInv, Counted
<1>9. Placed'
  <2>1. \A i : /\ InOne(i, rrset, Emitted, Line)' = InOne(i, rrset, Emitted, Line)
               /\ InNone(i, rrset, Emitted, Line)' = InNone(i, rrset, Emitted, Line)
    BY <1>1, <1>3 DEF InOne, InNone, Where, On
  <2> QED
    BY <1>1, <2>1 DEF PipeInv, Placed
<1> QED
  BY <1>2, <1>5, <1>6, <1>7, <1>8, <1>9 DEF PipeInv

LEMMA PipeStarts ==
  ASSUME PipeAssumption, SigningInit
  PROVE  PipeInv
<1>1. PipeTyped
  BY PipeInit
<1>2. /\ pos = 1 /\ rrset = <<>> /\ axfr = "submit" /\ ~final /\ ~wantWrite /\ outstanding = 0
      /\ mustSign => \E i \in Records : Input[i] # Input[1]
  BY DEF SigningInit
<1>3. Control /\ Collected
  BY <1>2 DEF Control, Collected, Waits, Submits
<1>4. SomethingSent
  BY <1>2 DEF SomethingSent
<1>5. Sockets
  <2>1. \A w \in Workers : toWorker[w] = <<>> /\ atWorker[w] = <<>> /\ fromWorker[w] = <<>>
    BY DEF SigningInit
  <2> QED
    BY <2>1 DEF Sockets
<1>6. (\A i : On(Line, i) = {}) /\ Slots(Line) = {} /\ Emitted = <<>>
  BY <1>1, FirstPlaces
<1>7. SetsWhole
  BY <1>6, SetsWholeIs
<1>8. Counted
  BY <1>2, <1>6, FS_EmptySet DEF Counted
<1>9. Placed
  <2>1. ASSUME NEW i \in Records
        PROVE  ~(i < pos) /\ InNone(i, rrset, Emitted, Line)
    BY <1>2, <1>6, WhereEmpty, RecordsAre DEF InNone
  <2> QED
    BY <2>1 DEF Placed
<1> QED
  BY <1>1, <1>3, <1>4, <1>5, <1>7, <1>8, <1>9 DEF PipeInv

(***************************************************************************)
(* Wherever the transfer and its workers stop, records are collected by    *)
(* RRset, the sockets carry whole RRsets, d_outstanding counts them, and   *)
(* each submitted record is in one place.                                  *)
(***************************************************************************)
THEOREM PipeInvariant == SigningSpec => []PipeInv
<1>1. SigningInit => PipeInv
  BY PipeAssumption, PipeStarts
<1>2. PipeInv /\ [SigningNext]_signingVars => PipeInv'
  BY PipeAssumption, PipeStep, PipeStutters
<1> QED
  BY <1>1, <1>2, PTL DEF SigningSpec

LEMMA OnePlace ==
  ASSUME NEW i, InOne(i, rrset, Emitted, Line)
  PROVE  Copies(i, rrset) + Cardinality(AtWorkers(i)) + Copies(i, Emitted) = 1
<1>1. /\ Copies(i, rrset) = Cardinality(Where(i, rrset))
      /\ Copies(i, Emitted) = Cardinality(Where(i, Emitted))
      /\ AtWorkers(i) = On(Line, i)
  BY AtWorkersIs DEF Copies
<1> QED
  BY <1>1, CountAlone DEF InOne

(***************************************************************************)
(* No record that was submitted to the pipe is lost or doubled, whatever   *)
(* the interleaving of doAXFR and the signing threads, and whichever die.  *)
(***************************************************************************)
THEOREM NothingLostSafe == SigningSpec => []NothingLost
<1>1. ASSUME PipeInv PROVE NothingLost
  <2>1. ASSUME axfr # "done", NEW i \in 1 .. pos - 1
        PROVE  Copies(i, rrset) + Cardinality(AtWorkers(i)) + Copies(i, Emitted) = 1
    <3>1. pos \in 1 .. Len(Input) + 1
      BY <1>1 DEF PipeInv, PipeTyped
    <3>2. i \in Records /\ i < pos
      BY <3>1, PipeAssumption, RecordsAre
    <3>3. InOne(i, rrset, Emitted, Line)
      BY <1>1, <2>1, <3>2 DEF PipeInv, Placed
    <3> QED
      BY <3>3, OnePlace
  <2> QED
    BY <2>1, Zenon DEF NothingLost
<1> QED
  BY <1>1, PipeInvariant, PTL

(***************************************************************************)
(* The chunks give the client each RRset unbroken and with its signature,  *)
(* however the signing threads answer.                                     *)
(***************************************************************************)
THEOREM SetsWholeSafe == SigningSpec => []SetsWhole
<1>1. PipeInv => SetsWhole
  BY DEF PipeInv
<1> QED
  BY <1>1, PipeInvariant, PTL

LEMMA AllSentStep ==
  ASSUME PipeAssumption, PipeInv, SigningNext, axfr = "pop", axfr' = "close", chunks[1] = <<>>
  PROVE  \A i \in Records : Copies(i, out) = 1
<1>1. GetFinal
  BY DEF SigningNext, Transfer, Worker, Submit, Push, Drain, Flush, Shut, CloseSockets, Fail, Poll, ReadMore,
         Write, Read, WorkerRead, WorkerWrite, WorkerEnds, WorkerDies
<1>2. Emitted = out
  BY <1>1, PopTyped DEF GetFinal, PipeInv
<1>3. rrset = <<>> /\ pos = Len(Input) + 1 /\ outstanding = 0
  BY DEF PipeInv, Control
<1>4. Slots(Line) = {}
  BY <1>3, FS_EmptySet DEF PipeInv, Counted
<1>5. \A i : On(Line, i) = {}
  <2>1. ASSUME NEW w \in Workers, NEW j \in 1 .. Len(Line[w]) PROVE FALSE
    BY <1>4, SlotsAre
  <2>2. Line \in Lines
    BY LineIs DEF PipeInv
  <2> QED
    BY <2>1, <2>2, OnIs
<1>6. ASSUME NEW i \in Records PROVE Copies(i, out) = 1
  <2>1. i < pos
    BY <1>3, RecordsAre
  <2>2. InOne(i, rrset, Emitted, Line)
    BY <2>1 DEF PipeInv, Placed
  <2>3. Where(i, rrset) = {} /\ On(Line, i) = {}
    BY <1>3, <1>5, WhereEmpty
  <2>4. ~Alone({})
    BY DEF Alone
  <2>5. Alone(Where(i, out))
    BY <1>2, <2>2, <2>3, <2>4 DEF InOne
  <2> QED
    BY <2>5, CountAlone DEF Copies
<1> QED
  BY <1>6

(***************************************************************************)
(* The empty chunk that makes doAXFR stop means that the client has each   *)
(* record, once: getChunk does not answer it while chunks are outstanding. *)
(***************************************************************************)
THEOREM AllSentSafe == SigningSpec => AllSent
<1>1. PipeInv /\ [SigningNext]_signingVars =>
        [axfr = "pop" /\ axfr' = "close" /\ chunks[1] = <<>> =>
           \A i \in Records : Copies(i, out) = 1]_signingVars
  <2>1. SUFFICES ASSUME PipeInv, SigningNext, axfr = "pop", axfr' = "close", chunks[1] = <<>>
                 PROVE  \A i \in Records : Copies(i, out) = 1
    OBVIOUS
  <2> QED
    BY <2>1, PipeAssumption, AllSentStep
<1> QED
  BY <1>1, PipeInvariant, PTL DEF SigningSpec, AllSent
=============================================================================
