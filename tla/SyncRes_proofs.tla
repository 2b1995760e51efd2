--------------------------- MODULE SyncRes_proofs ---------------------------
(***************************************************************************)
(* The recursor's resolutions, for any tree of zones, any set of zones     *)
(* whose servers are misconfigured and any answers those give: a server    *)
(* that failed is left alone for as long as its throttle promises, and the *)
(* caches hold nothing untrue about a name outside of those zones.         *)
(***************************************************************************)
EXTENDS SyncRes, TLAPS, SequenceTheorems, FiniteSetTheorems

(***************************************************************************)
(* The calls under way: a sequence of records with the fields of a Frame.  *)
(***************************************************************************)
IsFrame(f) ==
  {"at", "qname", "qtype", "depth", "ret", "beenthere", "callers", "fresh", "auth",
   "nameservers", "flawed", "tns", "ips", "ip", "tcp"} \subseteq DOMAIN f
IsStack(s) == (\E S : s \in Seq(S)) /\ \A i \in 1 .. Len(s) : IsFrame(s[i])
Frames == IsStack(stack)

LEMMA FrameIsFrame ==
  ASSUME NEW n, NEW type, NEW depth, NEW beenthere
  PROVE  IsFrame(Frame(n, type, depth, beenthere))
BY DEF IsFrame, Frame

(* What the steps do to the stack: the innermost call changes, calls another one, or *)
(* ends, and its caller goes on.                                                     *)
Changed(s, f) == [s EXCEPT ![Len(s)] = f]
Calling(s, g) == Append(s, g)
Returned(s, g) == Append(SubSeq(s, 1, Len(s) - 2), g)

LEMMA TopOfStack ==
  ASSUME NEW s, IsStack(s), s # <<>>
  PROVE  Len(s) \in Nat \ {0} /\ Len(s) \in 1 .. Len(s) /\ IsFrame(s[Len(s)])
<1>1. PICK S : s \in Seq(S)
  BY DEF IsStack
<1>2. Len(s) \in Nat \ {0}
  BY <1>1, EmptySeq
<1> QED
  BY <1>2 DEF IsStack

LEMMA TopChanged ==
  ASSUME NEW s, IsStack(s), s # <<>>, NEW f, IsFrame(f)
  PROVE  /\ IsStack(Changed(s, f)) /\ Changed(s, f) # <<>>
         /\ Len(Changed(s, f)) = Len(s) /\ Changed(s, f)[Len(s)] = f
         /\ \A i \in 1 .. Len(s) - 1 : Changed(s, f)[i] = s[i]
<1>1. PICK S : s \in Seq(S)
  BY DEF IsStack
<1>2. PICK R : R = S \cup {f}
  OBVIOUS
<1>3. s \in Seq(R) /\ f \in R /\ Len(s) \in Nat \ {0}
  BY <1>1, <1>2, TopOfStack, LenProperties
<1>4. PICK t : t = Changed(s, f)
  OBVIOUS
<1>5. t \in Seq(R) /\ Len(t) = Len(s) /\ \A j \in 1 .. Len(s) : t[j] = IF j = Len(s) THEN f ELSE s[j]
  BY <1>3, <1>4, ExceptSeq DEF Changed
<1>6. t # <<>>
  BY <1>3, <1>5, EmptySeq
<1>7. \A i \in 1 .. Len(s) : IsFrame(t[i])
  BY <1>5 DEF IsStack
<1>8. IsStack(t)
  BY <1>5, <1>7 DEF IsStack
<1>9. t[Len(s)] = f /\ \A i \in 1 .. Len(s) - 1 : t[i] = s[i]
  <2>1. Len(s) \in 1 .. Len(s) /\ \A i \in 1 .. Len(s) - 1 : i \in 1 .. Len(s) /\ i # Len(s)
    BY <1>3
  <2> QED
    BY <1>5, <2>1, Zenon
<1> QED
  BY <1>4, <1>5, <1>6, <1>8, <1>9, Zenon

LEMMA TopCalls ==
  ASSUME NEW s, IsStack(s), NEW g, IsFrame(g)
  PROVE  /\ IsStack(Calling(s, g)) /\ Calling(s, g) # <<>>
         /\ Len(s) \in Nat /\ Len(Calling(s, g)) = Len(s) + 1 /\ Calling(s, g)[Len(s) + 1] = g
         /\ \A i \in 1 .. Len(s) : Calling(s, g)[i] = s[i]
<1>1. PICK S : s \in Seq(S)
  BY DEF IsStack
<1>2. PICK R : R = S \cup {g}
  OBVIOUS
<1>3. s \in Seq(R) /\ g \in R /\ Len(s) \in Nat
  BY <1>1, <1>2, LenProperties
<1>4. PICK t : t = Calling(s, g)
  OBVIOUS
<1>5. /\ t \in Seq(R) /\ t # <<>> /\ Len(t) = Len(s) + 1 /\ t[Len(s) + 1] = g
      /\ \A i \in 1 .. Len(s) : t[i] = s[i]
  BY <1>3, <1>4, AppendProperties DEF Calling
<1>6. IsStack(t)
  BY <1>3, <1>5 DEF IsStack
<1> QED
  BY <1>3, <1>4, <1>5, <1>6, Zenon

LEMMA TopReturns ==
  ASSUME NEW s, IsStack(s), s # <<>>, Len(s) # 1
  PROVE  /\ Len(s) - 1 \in 1 .. Len(s) /\ IsFrame(s[Len(s) - 1])
         /\ \A g : IsFrame(g) =>
              /\ IsStack(Returned(s, g)) /\ Returned(s, g) # <<>>
              /\ Len(Returned(s, g)) = Len(s) - 1 /\ Returned(s, g)[Len(s) - 1] = g
              /\ \A i \in 1 .. Len(s) - 2 : Returned(s, g)[i] = s[i]
<1>1. PICK S : s \in Seq(S)
  BY DEF IsStack
<1>2. PICK n : n = Len(s) - 2 /\ n \in Nat /\ Len(s) = n + 2
  <2>1. PICK k \in Nat \ {0} : k = Len(s)
    BY TopOfStack, Zenon
  <2>2. k # 1
    BY <2>1, Zenon
  <2>3. k - 2 \in Nat /\ k = k - 2 + 2
    BY <2>2
  <2> QED
    BY <2>1, <2>3, Zenon
<1>3. PICK p : p = SubSeq(s, 1, n)
  OBVIOUS
<1>4. p \in Seq(S) /\ Len(p) = n /\ \A i \in 1 .. n : p[i] = s[i]
  <2>1. 1 \in Int /\ n \in Int /\ \A i \in 1 .. n : s[i] \in S
    BY <1>1, <1>2, LenProperties
  <2>2. /\ SubSeq(s, 1, n) \in Seq(S)
        /\ Len(SubSeq(s, 1, n)) = IF 1 <= n THEN n - 1 + 1 ELSE 0
        /\ \A i \in 1 .. n - 1 + 1 : SubSeq(s, 1, n)[i] = s[1 + i - 1]
    BY <2>1, SubSeqProperties
  <2>3. \A i \in 1 .. n : i \in 1 .. n - 1 + 1 /\ 1 + i - 1 = i
    BY <1>2
  <2>4. n = IF 1 <= n THEN n - 1 + 1 ELSE 0
    BY <1>2
  <2> QED
    BY <1>3, <2>2, <2>3, <2>4, Zenon
<1>5. IsStack(p)
  <2>1. \A i \in 1 .. Len(p) : i \in 1 .. Len(s)
    BY <1>2, <1>4
  <2> QED
    BY <1>4, <2>1, Zenon DEF IsStack
<1>6. ASSUME NEW g, IsFrame(g)
      PROVE  /\ IsStack(Returned(s, g)) /\ Returned(s, g) # <<>>
             /\ Len(Returned(s, g)) = Len(s) - 1 /\ Returned(s, g)[Len(s) - 1] = g
             /\ \A i \in 1 .. Len(s) - 2 : Returned(s, g)[i] = s[i]
  <2>1. /\ IsStack(Calling(p, g)) /\ Calling(p, g) # <<>>
        /\ Len(Calling(p, g)) = Len(p) + 1 /\ Calling(p, g)[Len(p) + 1] = g
        /\ \A i \in 1 .. Len(p) : Calling(p, g)[i] = p[i]
    BY <1>5, <1>6, TopCalls
  <2>2. Returned(s, g) = Calling(p, g)
    BY <1>2, <1>3, Zenon DEF Returned, Calling
  <2>3. Len(p) + 1 = Len(s) - 1 /\ Len(p) = Len(s) - 2
    BY <1>2, <1>4
  <2> QED
    BY <1>2, <1>4, <2>1, <2>2, <2>3, Zenon
<1>7. Len(s) - 1 \in 1 .. Len(s) /\ IsFrame(s[Len(s) - 1])
  BY <1>2 DEF IsStack
<1> QED
  BY <1>6, <1>7

-----------------------------------------------------------------------------
(* The steps of the model, as changes of the stack. *)
LEMMA SetsTop ==
  ASSUME Frames, stack # <<>>, NEW f, IsFrame(f), SetTop(f)
  PROVE  Frames' /\ stack' # <<>> /\ Top' = f /\ Len(stack') = Len(stack)
<1>1. stack' = Changed(stack, f)
  BY DEF SetTop, Changed
<1>2. /\ IsStack(Changed(stack, f)) /\ Changed(stack, f) # <<>>
      /\ Len(Changed(stack, f)) = Len(stack) /\ Changed(stack, f)[Len(stack)] = f
  BY TopChanged DEF Frames
<1> QED
  BY <1>1, <1>2 DEF Frames, Top

LEMMA Returns ==
  ASSUME Frames, stack # <<>>, NEW f, NEW rcode, NEW ret, Return(f, rcode, ret)
  PROVE  Frames' /\ ~At("wait")'
<1>1. CASE Len(stack) = 1
  <2>1. stack' = <<>>
    BY <1>1 DEF Return
  <2> QED
    BY <2>1, EmptySeq DEF Frames, IsStack, At
<1>2. CASE Len(stack) # 1
  <2>1. PICK ips, beenthere, flawed :
          LET g == stack[Len(stack) - 1]
          IN stack' = Append(SubSeq(stack, 1, Len(stack) - 2),
                             [g EXCEPT !.at = IF ips = {} THEN "servers" ELSE "addresses",
                                       !.ips = ips, !.flawed = flawed, !.beenthere = beenthere])
    BY <1>2, Zenon DEF Return
  <2>2. PICK c : c = stack[Len(stack) - 1]
    OBVIOUS
  <2>3. PICK g : g = [c EXCEPT !.at = IF ips = {} THEN "servers" ELSE "addresses",
                               !.ips = ips, !.flawed = flawed, !.beenthere = beenthere]
    OBVIOUS
  <2>4. IsFrame(c)
    BY <1>2, <2>2, TopReturns DEF Frames
  <2>5. IsFrame(g) /\ g.at # "wait"
    BY <2>3, <2>4 DEF IsFrame
  <2>6. stack' = Returned(stack, g)
    BY <2>1, <2>2, <2>3, Zenon DEF Returned
  <2>7. /\ IsStack(Returned(stack, g)) /\ Len(Returned(stack, g)) = Len(stack) - 1
        /\ Returned(stack, g)[Len(stack) - 1] = g
    BY <1>2, <2>5, TopReturns DEF Frames
  <2> QED
    BY <2>5, <2>6, <2>7 DEF Frames, At, Top
<1> QED
  BY <1>1, <1>2

-----------------------------------------------------------------------------
(***************************************************************************)
(* The throttle: what a server failed to answer is throttled for at least  *)
(* as long and for at least the fewest tries, less those it was passed     *)
(* over for, until those are used up; and what is being asked is not       *)
(* throttled at all.                                                       *)
(***************************************************************************)
ThrottleTyped ==
  /\ \A k \in DOMAIN throttle : throttle[k] \in [left : Nat, count : Int]
  /\ \A e \in failed :
       {"asking", "left", "spared"} \subseteq DOMAIN e /\ e.left \in Nat \ {0} /\ e.spared \in Nat
Throttled(e) ==
  /\ e.asking \in DOMAIN throttle /\ throttle[e.asking].left >= e.left
  /\ throttle[e.asking].count + e.spared >= FewestTries
FailuresKept == \A e \in failed : Throttled(e) \/ e.spared > FewestTries
AskedIsFree == At("wait") => Asking \notin DOMAIN throttle
ThrottleInv == Frames /\ ThrottleTyped /\ FailuresKept /\ AskedIsFree

LEMMA Fewest ==
  /\ FewestTries \in Nat
  /\ FewestTries <= ManyTries /\ FewestTries <= TimeoutTries /\ FewestTries <= FailTries
<1>1. \E n \in {ManyTries, TimeoutTries, FailTries} :
        n <= ManyTries /\ n <= TimeoutTries /\ n <= FailTries
  BY ThrottleAssumption
<1>2. PICK n : n = FewestTries
  OBVIOUS
<1>3. n \in {ManyTries, TimeoutTries, FailTries} /\ n <= ManyTries /\ n <= TimeoutTries /\ n <= FailTries
  BY <1>1, <1>2 DEF FewestTries
<1> QED
  BY <1>2, <1>3, ThrottleAssumption

(* A step that does not ask. *)
Calm == UNCHANGED <<throttle, failed>> /\ (At("wait")' => At("wait") /\ Asking' = Asking)
LEMMA CalmStep ==
  ASSUME ThrottleInv, Calm, Frames'
  PROVE  ThrottleInv'
BY DEF ThrottleInv, Calm, ThrottleTyped, FailuresKept, Throttled, AskedIsFree

LEMMA Unasked ==
  ASSUME ThrottleInv, UNCHANGED <<throttle, failed>>, Frames', ~At("wait")'
  PROVE  ThrottleInv'
BY CalmStep DEF Calm

(* A server that was asked fails. *)
LEMMA BlameStep ==
  ASSUME ThrottleInv, At("wait"), Frames', ~At("wait")', Blame, NEW left \in Nat, NEW tries \in Nat,
         ShortThrottle <= left, FewestTries <= tries, throttle' = Throttle(Asking, left, tries)
  PROVE  ThrottleInv'
<1>1. PICK k : k = Asking
  OBVIOUS
<1>2. PICK th, e0 : th = throttle /\ e0 = [asking |-> k, left |-> ShortThrottle, spared |-> 0]
  OBVIOUS
<1>3. k \notin DOMAIN th
  BY <1>1, <1>2 DEF ThrottleInv, AskedIsFree
<1>4. throttle' = [x \in DOMAIN th \cup {k} |-> IF x = k THEN [left |-> left, count |-> tries] ELSE th[x]]
  BY <1>1, <1>2, <1>3 DEF Throttle, With
<1>5. failed' = {e \in failed : e.asking # k} \cup {e0}
  BY <1>1, <1>2 DEF Blame
<1>6. e0.asking = k /\ e0.left = ShortThrottle /\ e0.spared = 0 /\ e0.left \in Nat \ {0}
      /\ {"asking", "left", "spared"} \subseteq DOMAIN e0
  BY <1>2, ThrottleAssumption
<1>7. ThrottleTyped'
  <2>1. \A x \in DOMAIN throttle' : throttle'[x] \in [left : Nat, count : Int]
    BY <1>2, <1>4 DEF ThrottleInv, ThrottleTyped
  <2>2. \A e \in failed' :
          {"asking", "left", "spared"} \subseteq DOMAIN e /\ e.left \in Nat \ {0} /\ e.spared \in Nat
    BY <1>5, <1>6 DEF ThrottleInv, ThrottleTyped
  <2> QED
    BY <2>1, <2>2 DEF ThrottleTyped
<1>8. ASSUME NEW e \in failed'
      PROVE  Throttled(e)' \/ e.spared > FewestTries
  <2>1. CASE e = e0
    <3>1. k \in DOMAIN throttle' /\ throttle'[k].left = left /\ throttle'[k].count = tries
      BY <1>4
    <3> QED
      BY <1>6, <2>1, <3>1, Fewest, ThrottleAssumption DEF Throttled
  <2>2. CASE e \in failed /\ e.asking # k
    <3>1. Throttled(e) \/ e.spared > FewestTries
      BY <2>2 DEF ThrottleInv, FailuresKept
    <3> QED
      BY <1>2, <1>4, <2>2, <3>1 DEF Throttled
  <2> QED
    BY <1>5, <2>1, <2>2
<1> QED
  BY <1>7, <1>8 DEF ThrottleInv, FailuresKept, AskedIsFree

(* An address is passed over, or asked. *)
LEMMA TryAddressStep ==
  ASSUME ThrottleInv, TryAddress
  PROVE  ThrottleInv'
<1>1. Frames /\ stack # <<>> /\ IsFrame(Top)
  BY TopOfStack DEF ThrottleInv, Frames, TryAddress, At, Top
<1>2. PICK ip, k :
        /\ k = [ip |-> ip, qname |-> Top.qname, qtype |-> Top.qtype]
        /\ IF Blocked(k)
           THEN /\ throttle' = With(k, [throttle[k] EXCEPT !.count = @ - 1])
                /\ PassOver(k)
                /\ SetTop(NextAddress(Top, Top.ips \ {ip}))
           ELSE /\ throttle' = Without(k)
                /\ SetTop([Top EXCEPT !.ips = @ \ {ip}, !.ip = ip, !.at = "wait"])
                /\ UNCHANGED failed
  BY Zenon DEF TryAddress
<1>3. PICK th : th = throttle
  OBVIOUS
<1>4. \A x \in DOMAIN th : th[x].left \in Nat /\ th[x].count \in Int /\ th[x] \in [left : Nat, count : Int]
  BY <1>3 DEF ThrottleInv, ThrottleTyped
<1>5. CASE Blocked(k)
  <2>1. PICK f : f = NextAddress(Top, Top.ips \ {ip})
    OBVIOUS
  <2>2. IsFrame(f) /\ f.at # "wait"
    BY <1>1, <2>1 DEF IsFrame, NextAddress
  <2>3. Frames' /\ ~At("wait")'
    BY <1>1, <1>2, <1>5, <2>1, <2>2, SetsTop DEF At
  <2>4. k \in DOMAIN th
    BY <1>3, <1>5 DEF Blocked
  <2>5. throttle' = [x \in DOMAIN th \cup {k} |-> IF x = k THEN [th[k] EXCEPT !.count = @ - 1] ELSE th[x]]
    BY <1>2, <1>3, <1>5 DEF With
  <2>6. /\ \A x \in DOMAIN th : x # k => throttle'[x] = th[x]
        /\ k \in DOMAIN throttle' /\ throttle'[k].left = th[k].left
        /\ throttle'[k].count = th[k].count - 1
        /\ DOMAIN throttle' = DOMAIN th
        /\ \A x \in DOMAIN th : throttle'[x] \in [left : Nat, count : Int]
    BY <1>4, <2>4, <2>5
  <2>7. \A e \in failed' : \/ e \in failed /\ e.asking # k
                           \/ \E o \in failed : o.asking = k /\ e = [o EXCEPT !.spared = @ + 1]
    BY <1>2, <1>5 DEF PassOver
  <2>8. ASSUME NEW e \in failed'
        PROVE  /\ {"asking", "left", "spared"} \subseteq DOMAIN e
               /\ e.left \in Nat \ {0} /\ e.spared \in Nat
               /\ Throttled(e)' \/ e.spared > FewestTries
    <3>1. CASE e \in failed /\ e.asking # k
      <4>1. Throttled(e) \/ e.spared > FewestTries
        BY <3>1 DEF ThrottleInv, FailuresKept
      <4> QED
        BY <1>3, <2>6, <3>1, <4>1 DEF Throttled, ThrottleInv, ThrottleTyped
    <3>2. ASSUME NEW o \in failed, o.asking = k, e = [o EXCEPT !.spared = @ + 1]
          PROVE  /\ {"asking", "left", "spared"} \subseteq DOMAIN e
                 /\ e.left \in Nat \ {0} /\ e.spared \in Nat
                 /\ Throttled(e)' \/ e.spared > FewestTries
      <4>1. /\ {"asking", "left", "spared"} \subseteq DOMAIN o
            /\ o.left \in Nat \ {0} /\ o.spared \in Nat
            /\ Throttled(o) \/ o.spared > FewestTries
        BY <3>2 DEF ThrottleInv, ThrottleTyped, FailuresKept
      <4>2. /\ {"asking", "left", "spared"} \subseteq DOMAIN e
            /\ e.asking = k /\ e.left = o.left /\ e.spared = o.spared + 1
        BY <3>2, <4>1
      <4>3. CASE o.spared > FewestTries
        BY <4>1, <4>2, <4>3, Fewest
      <4>4. CASE Throttled(o)
        <5>1. th[k].left >= o.left /\ th[k].count + o.spared >= FewestTries
          BY <1>3, <3>2, <4>4 DEF Throttled
        <5>2. throttle'[k].left >= e.left /\ throttle'[k].count + e.spared >= FewestTries
          BY <1>4, <2>4, <2>6, <4>1, <4>2, <5>1, Fewest
        <5> QED
          BY <2>6, <4>1, <4>2, <5>2 DEF Throttled
      <4> QED
        BY <4>1, <4>3, <4>4
    <3> QED
      BY <2>7, <3>1, <3>2
  <2>9. ThrottleTyped' /\ FailuresKept'
    BY <2>6, <2>8 DEF ThrottleTyped, FailuresKept
  <2> QED
    BY <2>3, <2>9 DEF ThrottleInv, AskedIsFree
<1>6. CASE ~Blocked(k)
  <2>1. PICK f : f = [Top EXCEPT !.ips = @ \ {ip}, !.ip = ip, !.at = "wait"]
    OBVIOUS
  <2>2. IsFrame(f) /\ f.ip = ip /\ f.qname = Top.qname /\ f.qtype = Top.qtype
    BY <1>1, <2>1 DEF IsFrame
  <2>3. Frames' /\ Top' = f
    BY <1>1, <1>2, <1>6, <2>1, <2>2, SetsTop
  <2>4. Asking' = k
    BY <1>2, <2>2, <2>3 DEF Asking
  <2>5. throttle' = [x \in DOMAIN th \ {k} |-> th[x]]
    BY <1>2, <1>3, <1>6 DEF Without
  <2>6. AskedIsFree'
    BY <2>4, <2>5 DEF AskedIsFree
  <2>7. failed' = failed
    BY <1>2, <1>6
  <2>8. ThrottleTyped'
    BY <1>4, <2>5, <2>7 DEF ThrottleInv, ThrottleTyped
  <2>9. ASSUME NEW e \in failed
        PROVE  Throttled(e)' \/ e.spared > FewestTries
    <3>1. /\ e.left \in Nat \ {0} /\ e.spared \in Nat
          /\ Throttled(e) \/ e.spared > FewestTries
      BY DEF ThrottleInv, ThrottleTyped, FailuresKept
    <3>2. CASE e.asking = k
      <4>1. ASSUME Throttled(e)
            PROVE  e.spared > FewestTries
        <5>1. k \in DOMAIN th /\ th[k].left >= e.left /\ th[k].count + e.spared >= FewestTries
          BY <1>3, <3>2, <4>1 DEF Throttled
        <5>2. ~(th[k].count >= 0)
          BY <1>3, <1>4, <1>6, <3>1, <5>1 DEF Blocked
        <5> QED
          BY <1>4, <3>1, <5>1, <5>2, Fewest
      <4> QED
        BY <3>1, <4>1
    <3>3. CASE e.asking # k
      BY <1>3, <2>5, <3>1, <3>3 DEF Throttled
    <3> QED
      BY <3>2, <3>3
  <2> QED
    BY <2>3, <2>6, <2>7, <2>8, <2>9 DEF ThrottleInv, FailuresKept
<1> QED
  BY <1>5, <1>6

(* Time passes. *)
LEMMA TickStep ==
  ASSUME ThrottleInv, NEW time \in 1 .. TTL, Tick(time)
  PROVE  ThrottleInv'
<1>1. time \in Nat \ {0}
  OBVIOUS
<1>2. stack' = stack
  BY DEF Tick
<1>3. Frames'
  BY <1>2 DEF ThrottleInv, Frames
<1>4. PICK th : th = throttle
  OBVIOUS
<1>5. \A x \in DOMAIN th : th[x] \in [left : Nat, count : Int]
  BY <1>4 DEF ThrottleInv, ThrottleTyped
<1>6. throttle' = [k \in DOMAIN th |-> [th[k] EXCEPT !.left = Older(@, time)]]
  BY <1>4 DEF Tick
<1>7. \A x \in DOMAIN th : /\ throttle'[x] \in [left : Nat, count : Int]
                           /\ throttle'[x].left = Older(th[x].left, time)
                           /\ throttle'[x].count = th[x].count
  BY <1>1, <1>5, <1>6 DEF Older
<1>8. DOMAIN throttle' = DOMAIN th
  BY <1>6
<1>9. ASSUME NEW e \in failed'
      PROVE  /\ {"asking", "left", "spared"} \subseteq DOMAIN e
             /\ e.left \in Nat \ {0} /\ e.spared \in Nat
             /\ Throttled(e)' \/ e.spared > FewestTries
  <2>1. PICK o \in failed : o.left > time /\ e = [o EXCEPT !.left = Older(@, time)]
    BY DEF Tick
  <2>2. /\ {"asking", "left", "spared"} \subseteq DOMAIN o /\ o.left \in Nat \ {0} /\ o.spared \in Nat
        /\ Throttled(o) \/ o.spared > FewestTries
    BY DEF ThrottleInv, ThrottleTyped, FailuresKept
  <2>3. /\ {"asking", "left", "spared"} \subseteq DOMAIN e
        /\ e.asking = o.asking /\ e.spared = o.spared /\ e.left = Older(o.left, time)
    BY <2>1, <2>2
  <2>4. e.left = o.left - time /\ e.left \in Nat \ {0}
    BY <1>1, <2>1, <2>2, <2>3 DEF Older
  <2>5. CASE Throttled(o)
    <3>1. o.asking \in DOMAIN th /\ th[o.asking].left >= o.left
          /\ th[o.asking].count + o.spared >= FewestTries
      BY <1>4, <2>5 DEF Throttled
    <3>2. th[o.asking].left \in Nat
      BY <1>5, <3>1
    <3>3. Older(th[o.asking].left, time) >= o.left - time
      BY <1>1, <2>1, <2>2, <3>1, <3>2 DEF Older
    <3> QED
      BY <1>7, <1>8, <2>2, <2>3, <2>4, <3>1, <3>3 DEF Throttled
  <2> QED
    BY <2>2, <2>3, <2>4, <2>5
<1>10. ThrottleTyped' /\ FailuresKept'
  BY <1>7, <1>8, <1>9 DEF ThrottleTyped, FailuresKept
<1>11. AskedIsFree'
  BY <1>2, <1>4, <1>8 DEF ThrottleInv, AskedIsFree, At, Asking, Top
<1> QED
  BY <1>3, <1>10, <1>11 DEF ThrottleInv

(* The steps that leave the throttle alone. *)
LEMMA ResolveSteps ==
  ASSUME ThrottleInv,
         TooDeep \/ CNAMECacheHit \/ CacheHit \/ FindNameservers \/ Reprime \/ NoServerLeft
           \/ TryNameserver
  PROVE  ThrottleInv'
<1>1. /\ Frames /\ stack # <<>> /\ IsFrame(Top) /\ UNCHANGED <<throttle, failed>>
  <2>1. stack # <<>> /\ UNCHANGED <<throttle, failed>>
    BY DEF TooDeep, CNAMECacheHit, CacheHit, FindNameservers, Reprime, NoServerLeft, TryNameserver,
           At, Shallow, NotCached, unchangedBelow
  <2> QED
    BY <2>1, TopOfStack DEF ThrottleInv, Frames, Top
<1>2. ASSUME NEW f, NEW rcode, NEW ret, Return(f, rcode, ret)
      PROVE  ThrottleInv'
  BY <1>1, <1>2, Returns, Unasked
<1>3. ASSUME NEW f, IsFrame(f), f.at # "wait", SetTop(f)
      PROVE  ThrottleInv'
  <2>1. Frames' /\ Top' = f
    BY <1>1, <1>3, SetsTop
  <2> QED
    BY <1>1, <1>3, <2>1, Unasked DEF At
<1>4. CASE TooDeep
  BY <1>2, <1>4 DEF TooDeep
<1>5. CASE CNAMECacheHit
  <2>1. ASSUME NEW to, NEW ret, Redirect(Top, to, ret)
        PROVE  ThrottleInv'
    <3>1. PICK f : /\ f = [Frame(to, Top.qtype, Top.depth + 1, {}) EXCEPT
                            !.ret = ret, !.fresh = TRUE,
                            !.callers = IF Top.fresh THEN Top.callers ELSE Top.beenthere]
                   /\ SetTop(f)
      BY <2>1 DEF Redirect
    <3>2. IsFrame(f) /\ f.at = "resolve"
      BY <3>1 DEF IsFrame, Frame
    <3> QED
      BY <1>3, <3>1, <3>2
  <2> QED
    BY <1>2, <1>5, <2>1 DEF CNAMECacheHit
<1>6. CASE CacheHit
  BY <1>2, <1>6 DEF CacheHit
<1>7. ASSUME NEW s, NEW bestns, NEW flawed, Consult(s, bestns, flawed)
      PROVE  ThrottleInv'
  <2>1. PICK f : /\ f = [Top EXCEPT !.at = "servers", !.auth = s, !.nameservers = bestns,
                                    !.flawed = flawed, !.beenthere = @ \cup {Visit(s, bestns)}]
                 /\ SetTop(f)
    BY <1>7 DEF Consult
  <2>2. IsFrame(f) /\ f.at = "servers"
    BY <1>1, <2>1 DEF IsFrame
  <2> QED
    BY <1>3, <2>1, <2>2
<1>8. CASE FindNameservers
  BY <1>7, <1>8 DEF FindNameservers
<1>9. CASE Reprime
  <2>1. PICK f : f = [Top EXCEPT !.at = "servers", !.auth = Top.qname, !.nameservers = {}]
    OBVIOUS
  <2>2. IsFrame(f) /\ f.at = "servers"
    BY <1>1, <2>1 DEF IsFrame
  <2> QED
    BY <1>3, <1>7, <1>9, <2>1, <2>2 DEF Reprime
<1>10. CASE NoServerLeft
  BY <1>2, <1>10 DEF NoServerLeft
<1>11. CASE TryNameserver
  <2>1. PICK ns, f :
          /\ f = [Top EXCEPT !.nameservers = @ \ {ns}, !.tns = ns, !.tcp = FALSE]
          /\ IF ns = Top.qname /\ Top.qtype = "A"
             THEN SetTop(f)
             ELSE stack' = Append([stack EXCEPT ![Len(stack)] = f],
                                  Frame(ns, "A", Top.depth + 2, Top.beenthere))
    BY <1>11 DEF TryNameserver
  <2>2. IsFrame(f) /\ f.at = "servers"
    BY <1>1, <1>11, <2>1 DEF IsFrame, TryNameserver, At
  <2>3. CASE SetTop(f)
    BY <1>3, <2>2, <2>3
  <2>4. CASE ~(ns = Top.qname /\ Top.qtype = "A")
    <3>1. PICK g : g = Frame(ns, "A", Top.depth + 2, Top.beenthere)
      OBVIOUS
    <3>2. IsFrame(g) /\ g.at = "resolve"
      BY <3>1, FrameIsFrame DEF Frame
    <3>3. PICK s : s = Changed(stack, f)
      OBVIOUS
    <3>4. IsStack(s)
      BY <1>1, <2>2, <3>3, TopChanged DEF Frames
    <3>5. stack' = Calling(s, g)
      BY <2>1, <2>4, <3>1, <3>3 DEF Changed, Calling
    <3>6. /\ IsStack(Calling(s, g)) /\ Len(Calling(s, g)) = Len(s) + 1
          /\ Calling(s, g)[Len(s) + 1] = g
      BY <3>2, <3>4, TopCalls
    <3>7. Frames' /\ Top' = g
      BY <3>5, <3>6 DEF Frames, Top
    <3> QED
      BY <1>1, <3>2, <3>7, Unasked DEF At
  <2> QED
    BY <2>1, <2>3, <2>4
<1> QED
  BY <1>4, <1>5, <1>6, <1>8, <1>9, <1>10, <1>11

(* What becomes of a query. *)
LEMMA WaitSteps ==
  ASSUME ThrottleInv, NoAnswer \/ Truncated \/ ServerFails \/ Receive
  PROVE  ThrottleInv'
<1>1. Frames /\ stack # <<>> /\ IsFrame(Top) /\ At("wait") /\ Top.at = "wait"
  <2>1. At("wait") /\ stack # <<>> /\ Top.at = "wait"
    BY DEF NoAnswer, Truncated, ServerFails, Receive, At
  <2> QED
    BY <2>1, TopOfStack DEF ThrottleInv, Frames, Top
<1>2. ASSUME NEW f, NEW rcode, NEW ret, Return(f, rcode, ret), UNCHANGED <<throttle, failed>>
      PROVE  ThrottleInv'
  BY <1>1, <1>2, Returns, Unasked
<1>3. ASSUME NEW f, IsFrame(f), f.at # "wait", SetTop(f)
      PROVE  Frames' /\ ~At("wait")'
  BY <1>1, <1>3, SetsTop DEF At
<1>4. ASSUME NEW f, IsFrame(f), f.at # "wait", SetTop(f), UNCHANGED <<throttle, failed>>
      PROVE  ThrottleInv'
  BY <1>3, <1>4, Unasked
<1>5. ASSUME NEW f, IsFrame(f), f.at # "wait", SetTop(f), Blame,
             \/ throttle' = Throttle(Asking, ShortThrottle, TimeoutTries)
             \/ throttle' = Throttle(Asking, LongThrottle, ManyTries)
             \/ throttle' = Throttle(Asking, LongThrottle, FailTries)
      PROVE  ThrottleInv'
  <2>1. Frames' /\ ~At("wait")'
    BY <1>3, <1>5
  <2>2. /\ ShortThrottle \in Nat /\ LongThrottle \in Nat
        /\ ShortThrottle <= ShortThrottle /\ ShortThrottle <= LongThrottle
        /\ ManyTries \in Nat /\ TimeoutTries \in Nat /\ FailTries \in Nat
    BY ThrottleAssumption
  <2> QED
    BY <1>1, <1>5, <2>1, <2>2, Fewest, BlameStep
<1>6. CASE NoAnswer
  <2>1. PICK f : f = NextAddress(Top, Top.ips) /\ SetTop(f)
    BY <1>6 DEF NoAnswer
  <2>2. IsFrame(f) /\ f.at # "wait"
    BY <1>1, <2>1 DEF IsFrame, NextAddress
  <2> QED
    BY <1>4, <1>5, <1>6, <2>1, <2>2 DEF NoAnswer
<1>7. CASE Truncated
  <2>1. UNCHANGED <<throttle, failed>>
    BY <1>7 DEF Truncated, unchangedBelow
  <2>2. CASE Top.tcp
    BY <1>2, <1>7, <2>1, <2>2 DEF Truncated
  <2>3. CASE ~Top.tcp
    <3>1. PICK f : f = [Top EXCEPT !.tcp = TRUE] /\ SetTop(f)
      BY <1>7, <2>3 DEF Truncated
    <3>2. IsFrame(f) /\ f.ip = Top.ip /\ f.qname = Top.qname /\ f.qtype = Top.qtype
      BY <1>1, <3>1 DEF IsFrame
    <3>3. Frames' /\ Top' = f
      BY <1>1, <3>1, <3>2, SetsTop
    <3>4. Asking' = Asking
      BY <3>2, <3>3 DEF Asking
    <3> QED
      BY <1>1, <2>1, <3>3, <3>4, CalmStep DEF Calm
  <2> QED
    BY <2>2, <2>3
<1>8. CASE ServerFails
  <2>1. PICK f : f = [Top EXCEPT !.at = "servers"] /\ SetTop(f)
    BY <1>8 DEF ServerFails
  <2>2. IsFrame(f) /\ f.at # "wait"
    BY <1>1, <2>1 DEF IsFrame
  <2> QED
    BY <1>5, <1>8, <2>1, <2>2 DEF ServerFails
<1>9. CASE Receive
  <2>1. PICK reply : Conclude(reply)
    BY <1>9 DEF Receive
  <2>2. CASE /\ \E rcode : Return(Top, rcode, Ret(reply))
             /\ UNCHANGED <<throttle, failed>>
    BY <1>2, <2>2
  <2>3. CASE /\ \E rr \in Targets(reply) : Redirect(Top, rr.to, Ret(reply))
             /\ UNCHANGED <<throttle, failed>>
    <3>1. PICK rr, f : /\ f = [Frame(rr.to, Top.qtype, Top.depth + 1, {}) EXCEPT
                                !.ret = Ret(reply), !.fresh = TRUE,
                                !.callers = IF Top.fresh THEN Top.callers ELSE Top.beenthere]
                       /\ SetTop(f)
      BY <2>3 DEF Redirect
    <3>2. IsFrame(f) /\ f.at = "resolve"
      BY <3>1 DEF IsFrame, Frame
    <3> QED
      BY <1>4, <2>3, <3>1, <3>2
  <2>4. CASE /\ \E rr \in Deeper(reply) :
                  SetTop([Top EXCEPT !.at = "servers", !.auth = rr.name, !.ret = Ret(reply),
                                     !.nameservers = {x.to : x \in NSs(reply)}])
             /\ UNCHANGED <<throttle, failed>>
    <3>1. PICK rr, f : /\ f = [Top EXCEPT !.at = "servers", !.auth = rr.name, !.ret = Ret(reply),
                                          !.nameservers = {x.to : x \in NSs(reply)}]
                       /\ SetTop(f)
      BY <2>4
    <3>2. IsFrame(f) /\ f.at = "servers"
      BY <1>1, <3>1 DEF IsFrame
    <3> QED
      BY <1>4, <2>4, <3>1, <3>2
  <2>5. CASE /\ SetTop([NextAddress(Top, Top.ips) EXCEPT !.ret = Ret(reply)])
             /\ throttle' = Throttle(Asking, LongThrottle, ManyTries)
             /\ Blame
    <3>1. PICK f : f = [NextAddress(Top, Top.ips) EXCEPT !.ret = Ret(reply)] /\ SetTop(f)
      BY <2>5
    <3>2. IsFrame(f) /\ f.at # "wait"
      BY <1>1, <3>1 DEF IsFrame, NextAddress
    <3> QED
      BY <1>5, <2>5, <3>1, <3>2
  <2> QED
    BY <2>1, <2>2, <2>3, <2>4, <2>5 DEF Conclude
<1> QED
  BY <1>6, <1>7, <1>8, <1>9

LEMMA ThrottleInit ==
  ASSUME Init
  PROVE  ThrottleInv
<1>1. Frames
  BY EmptySeq DEF Init, Frames, IsStack
<1>2. DOMAIN throttle = {} /\ failed = {} /\ stack = <<>>
  BY DEF Init
<1> QED
  BY <1>1, <1>2 DEF ThrottleInv, ThrottleTyped, FailuresKept, AskedIsFree, At

LEMMA ThrottleStep ==
  ASSUME ThrottleInv, [Next]_vars
  PROVE  ThrottleInv'
<1>1. ASSUME NEW q \in Questions, BeginResolve(q)
      PROVE  ThrottleInv'
  <2>1. PICK f : f = Frame(q.qname, q.qtype, 0, {}) /\ stack' = <<f>>
    BY <1>1 DEF BeginResolve
  <2>2. IsFrame(f) /\ f.at = "resolve"
    BY <2>1, FrameIsFrame DEF Frame
  <2>3. <<f>> \in Seq({f}) /\ Len(<<f>>) = 1 /\ <<f>>[1] = f
    OBVIOUS
  <2>4. IsStack(<<f>>)
    <3>1. PICK s : s = <<f>>
      OBVIOUS
    <3>2. s \in Seq({f}) /\ \A i \in 1 .. Len(s) : s[i] = f
      BY <2>3, <3>1
    <3>3. IsStack(s)
      BY <2>2, <3>2, Zenon DEF IsStack
    <3> QED
      BY <3>1, <3>3, Zenon
  <2>5. Frames' /\ ~At("wait")'
    BY <2>1, <2>2, <2>3, <2>4 DEF Frames, At, Top
  <2> QED
    BY <1>1, <2>5, Unasked DEF BeginResolve
<1>2. CASE Evict \/ UNCHANGED vars
  <2>1. UNCHANGED <<throttle, failed, stack>>
    BY <1>2 DEF Evict, vars
  <2>2. Frames' /\ Calm
    BY <2>1 DEF Calm, At, Asking, Top, ThrottleInv, Frames
  <2> QED
    BY <2>2, CalmStep
<1> QED
  BY <1>1, <1>2, TickStep, ResolveSteps, TryAddressStep, WaitSteps DEF Next, Step

(***************************************************************************)
(* A server that failed to answer a question is not asked it again while   *)
(* the shortest throttle lasts, unless it was passed over more often than  *)
(* the fewest tries a throttle is set for (syncres.cc, doResolveAt with    *)
(* Throttle::shouldThrottle), whatever the servers answer.                 *)
(***************************************************************************)
THEOREM NotAskedAgainSafe == Spec => []NotAskedAgain
<1>1. ThrottleInv => NotAskedAgain
  BY DEF ThrottleInv, FailuresKept, AskedIsFree, Throttled, NotAskedAgain
<1> QED
  BY <1>1, ThrottleInit, ThrottleStep, PTL DEF Spec

-----------------------------------------------------------------------------
(***************************************************************************)
(* Names.  A name ends on another one where the labels agree from the end: *)
(* the names that a name ends on are each other's ends, so the one with    *)
(* fewer labels is above the other.                                        *)
(***************************************************************************)
EndsOn(n, a) ==
  a \in Name /\ Len(a) <= Len(n) /\ \A j \in 1 .. Len(a) : a[j] = n[Len(n) - Len(a) + j]

LEMMA NameLen ==
  ASSUME NEW n \in Name
  PROVE  Len(n) \in Nat /\ n \in Seq(Labels) /\ \A i \in 1 .. Len(n) : n[i] \in Labels
BY LenProperties DEF Name

LEMMA ChopIs ==
  ASSUME NEW n \in Name, NEW i \in 1 .. Len(n) + 1
  PROVE  /\ SubSeq(n, i, Len(n)) \in Name
         /\ Len(SubSeq(n, i, Len(n))) = Len(n) - i + 1
         /\ \A j \in 1 .. Len(n) - i + 1 : SubSeq(n, i, Len(n))[j] = n[i + j - 1]
<1>1. PICK k \in Nat : k = Len(n)
  BY NameLen
<1>2. i \in Int /\ k \in Int /\ \A j \in i .. k : n[j] \in Labels
  BY <1>1, NameLen
<1>3. /\ SubSeq(n, i, k) \in Seq(Labels)
      /\ Len(SubSeq(n, i, k)) = IF i <= k THEN k - i + 1 ELSE 0
      /\ \A j \in 1 .. k - i + 1 : SubSeq(n, i, k)[j] = n[i + j - 1]
  BY <1>2, SubSeqProperties
<1>4. k - i + 1 = IF i <= k THEN k - i + 1 ELSE 0
  BY <1>1
<1> QED
  BY <1>1, <1>3, <1>4, Zenon DEF Name

LEMMA ChopsAreEnds ==
  ASSUME NEW n \in Name, NEW a
  PROVE  a \in Chops(n) <=> EndsOn(n, a)
<1>1. PICK k \in Nat : k = Len(n)
  BY NameLen
<1>2. ASSUME a \in Chops(n)
      PROVE  EndsOn(n, a)
  <2>1. PICK i \in 1 .. k + 1 : a = SubSeq(n, i, k)
    BY <1>1, <1>2 DEF Chops
  <2>2. a \in Name /\ Len(a) = k - i + 1 /\ \A j \in 1 .. k - i + 1 : a[j] = n[i + j - 1]
    BY <1>1, <2>1, ChopIs, Zenon
  <2>3. PICK m : m = Len(a)
    OBVIOUS
  <2>4. m = k - i + 1 /\ m <= k /\ \A j \in 1 .. m : i + j - 1 = k - m + j
    BY <2>2, <2>3
  <2> QED
    BY <1>1, <2>2, <2>3, <2>4, Zenon DEF EndsOn
<1>3. ASSUME EndsOn(n, a)
      PROVE  a \in Chops(n)
  <2>1. PICK m \in Nat : m = Len(a)
    BY <1>3, NameLen DEF EndsOn
  <2>2. PICK i : i = k - m + 1
    OBVIOUS
  <2>3. i \in 1 .. k + 1 /\ k - i + 1 = m /\ \A j \in 1 .. m : i + j - 1 = k - m + j
    <3>1. m <= k
      BY <1>1, <1>3, <2>1 DEF EndsOn
    <3> QED
      BY <2>2, <3>1
  <2>4. PICK b : b = SubSeq(n, i, k)
    OBVIOUS
  <2>5. b \in Name /\ Len(b) = k - i + 1 /\ \A j \in 1 .. k - i + 1 : b[j] = n[i + j - 1]
    BY <1>1, <2>3, <2>4, ChopIs, Zenon
  <2>6. Len(a) = Len(b) /\ \A j \in 1 .. Len(a) : a[j] = b[j]
    <3>1. Len(b) = m /\ \A j \in 1 .. m : b[j] = n[i + j - 1]
      BY <2>3, <2>5, Zenon
    <3>2. \A j \in 1 .. m : a[j] = n[k - m + j]
      BY <1>1, <1>3, <2>1, Zenon DEF EndsOn
    <3> QED
      BY <2>1, <2>3, <3>1, <3>2, Zenon
  <2>7. a \in Seq(Labels) /\ b \in Seq(Labels)
    BY <1>3, <2>5 DEF EndsOn, Name
  <2>8. a = b
    BY <2>6, <2>7, SeqEqual
  <2> QED
    BY <1>1, <2>3, <2>4, <2>8 DEF Chops
<1> QED
  BY <1>2, <1>3

LEMMA ChopsNames ==
  ASSUME NEW n \in Name
  PROVE  n \in Chops(n) /\ <<>> \in Chops(n) /\ Chops(n) \subseteq Name
<1>1. EndsOn(n, n)
  BY NameLen DEF EndsOn
<1>2. <<>> \in Seq(Labels) /\ Len(<<>>) = 0
  BY EmptySeq
<1>3. EndsOn(n, <<>>)
  BY <1>2, NameLen DEF EndsOn, Name
<1>4. \A a \in Chops(n) : a \in Name
  BY ChopsAreEnds DEF EndsOn
<1> QED
  BY <1>1, <1>3, <1>4, ChopsAreEnds

LEMMA ChopsTrans ==
  ASSUME NEW n \in Name, NEW a \in Chops(n), NEW b \in Chops(a)
  PROVE  b \in Chops(n)
<1>1. a \in Name /\ EndsOn(n, a) /\ EndsOn(a, b)
  BY ChopsNames, ChopsAreEnds
<1>2. PICK i \in Nat, j \in Nat, k \in Nat : i = Len(b) /\ j = Len(a) /\ k = Len(n)
  BY <1>1, NameLen DEF EndsOn
<1>3. i <= j /\ j <= k /\ i <= k
  BY <1>1, <1>2 DEF EndsOn
<1>4. ASSUME NEW x \in 1 .. i
      PROVE  b[x] = n[k - i + x]
  <2>1. j - i + x \in 1 .. j /\ k - j + (j - i + x) = k - i + x
    BY <1>3
  <2>2. b[x] = a[j - i + x] /\ a[j - i + x] = n[k - j + (j - i + x)]
    BY <1>1, <1>2, <2>1, Zenon DEF EndsOn
  <2> QED
    BY <2>1, <2>2, Zenon
<1>5. EndsOn(n, b)
  BY <1>1, <1>2, <1>3, <1>4, Zenon DEF EndsOn
<1> QED
  BY <1>5, ChopsAreEnds

LEMMA ChopsOrder ==
  ASSUME NEW n \in Name, NEW a \in Chops(n), NEW b \in Chops(n), Len(a) <= Len(b)
  PROVE  a \in Chops(b)
<1>1. EndsOn(n, a) /\ EndsOn(n, b)
  BY ChopsAreEnds
<1>2. PICK i \in Nat, j \in Nat, k \in Nat : i = Len(a) /\ j = Len(b) /\ k = Len(n)
  BY <1>1, NameLen DEF EndsOn
<1>3. i <= j /\ j <= k /\ i <= k
  BY <1>1, <1>2 DEF EndsOn
<1>4. ASSUME NEW x \in 1 .. i
      PROVE  a[x] = b[j - i + x]
  <2>1. j - i + x \in 1 .. j /\ k - j + (j - i + x) = k - i + x
    BY <1>3
  <2>2. a[x] = n[k - i + x] /\ b[j - i + x] = n[k - j + (j - i + x)]
    BY <1>1, <1>2, <2>1, Zenon DEF EndsOn
  <2> QED
    BY <2>1, <2>2, Zenon
<1>5. EndsOn(b, a)
  BY <1>1, <1>2, <1>3, <1>4, Zenon DEF EndsOn
<1>6. b \in Name
  BY <1>1 DEF EndsOn
<1> QED
  BY <1>5, <1>6, ChopsAreEnds

(***************************************************************************)
(* Every set of numbers has a least one: otherwise the finite sets of its  *)
(* elements below one of them would have no minimal one.                   *)
(***************************************************************************)
LEMMA LeastNumber ==
  ASSUME NEW T \in SUBSET Nat, T # {}
  PROVE  \E x \in T : \A y \in T : x <= y
<1> DEFINE UpTo(x) == {y \in T : y <= x}
           AllUpTo == {UpTo(x) : x \in T}
<1>1. AllUpTo \subseteq FiniteSubsetsOf(Nat) /\ AllUpTo # {}
  <2>1. ASSUME NEW x \in T PROVE UpTo(x) \in FiniteSubsetsOf(Nat)
    <3>1. UpTo(x) \in SUBSET Nat /\ x \in Nat /\ \A y \in UpTo(x) : y <= x
      OBVIOUS
    <3> QED
      BY <3>1, FS_BoundedSetOfNaturals DEF FiniteSubsetsOf
  <2> HIDE DEF UpTo
  <2> QED
    BY <2>1
<1>2. PICK x \in T : \A y \in T : <<UpTo(y), UpTo(x)>> \notin StrictSubsetOrdering(Nat)
  <2>1. PICK B \in AllUpTo : \A C \in AllUpTo : <<C, B>> \notin StrictSubsetOrdering(Nat)
    <3> HIDE DEF AllUpTo
    <3> QED
      BY <1>1, FS_StrictSubsetOrderingWellFounded, WFMin
  <2> QED
    BY <2>1
<1>3. ASSUME NEW y \in T, y < x
      PROVE  FALSE
  <2>1. UpTo(y) \subseteq UpTo(x) /\ x \in UpTo(x) /\ x \notin UpTo(y)
    <3>1. (\A u \in T : u <= y => u <= x) /\ x <= x /\ ~(x <= y)
      BY <1>3
    <3> QED
      BY <3>1
  <2>2. UpTo(y) \in SUBSET Nat /\ UpTo(x) \in SUBSET Nat
    OBVIOUS
  <2> HIDE DEF UpTo
  <2> QED
    BY <1>2, <2>1, <2>2 DEF StrictSubsetOrdering
<1>4. \A y \in T : x <= y
  BY <1>3
<1> QED
  BY <1>4

(* Of the zones that a name is in there is a closest one. *)
LEMMA LongestFound ==
  ASSUME NEW n \in Name, NEW S \in SUBSET Chops(n), S # {}
  PROVE  Longest(S) \in S
<1>1. PICK k \in Nat : k = Len(n)
  BY NameLen
<1>2. ASSUME NEW s \in S
      PROVE  Len(s) \in Nat /\ k - Len(s) \in Nat
  <2>1. EndsOn(n, s)
    BY ChopsAreEnds
  <2>2. Len(s) \in Nat /\ Len(s) <= k
    BY <1>1, <2>1, NameLen DEF EndsOn
  <2> QED
    BY <2>2
<1>3. PICK T : T = {k - Len(s) : s \in S}
  OBVIOUS
<1>4. T \in SUBSET Nat /\ T # {}
  BY <1>2, <1>3
<1>5. PICK x \in T : \A y \in T : x <= y
  BY <1>4, LeastNumber
<1>6. PICK s \in S : x = k - Len(s)
  BY <1>3
<1>7. \A t \in S : Len(t) <= Len(s)
  <2>1. ASSUME NEW t \in S
        PROVE  Len(t) <= Len(s)
    <3>1. k - Len(s) <= k - Len(t)
      BY <1>3, <1>5, <1>6
    <3> QED
      BY <1>2, <3>1
  <2> QED
    BY <2>1
<1> QED
  BY <1>7, Zenon DEF Longest

(***************************************************************************)
(* What is true of a name: the data of the closest zone.  The name servers *)
(* of a name outside of the misconfigured zones do not depend on these.    *)
(***************************************************************************)
LEMMA TruthIsData ==
  ASSUME NEW n \in Name, NEW type, NEW x \in Truth(n, type)
  PROVE  \E z \in Apexes : /\ Key(n, type) \in DOMAIN ZoneData[z].data
                           /\ x \in ZoneData[z].data[Key(n, type)]
<1>1. PICK S : S = {a \in Apexes : DottedEndsOn(n, a)}
  OBVIOUS
<1>2. S \in SUBSET Chops(n) /\ <<>> \in S
  BY <1>1, ChopsNames, ZonesAssumption DEF DottedEndsOn
<1>3. Longest(S) \in S
  BY <1>2, LongestFound
<1>4. PICK z : z = Longest(S)
  OBVIOUS
<1>5. z \in Apexes
  BY <1>1, <1>3, <1>4
<1>6. Truth(n, type) = IF Key(n, type) \in DOMAIN ZoneData[z].data
                       THEN ZoneData[z].data[Key(n, type)] ELSE {}
  BY <1>1, <1>4 DEF Truth
<1> QED
  BY <1>5, <1>6

LEMMA TruthNames ==
  ASSUME NEW n \in Name, NEW type \in {"NS", "CNAME"}
  PROVE  Truth(n, type) \subseteq Name
<1>1. ASSUME NEW x \in Truth(n, type)
      PROVE  x \in Name
  <2>1. PICK z \in Apexes : /\ Key(n, type) \in DOMAIN ZoneData[z].data
                            /\ x \in ZoneData[z].data[Key(n, type)]
    BY TruthIsData
  <2>2. Key(n, type).type = type
    BY DEF Key
  <2>3. ZoneData[z].data[Key(n, type)] \subseteq Name
    BY <2>1, <2>2, ZonesAssumption
  <2> QED
    BY <2>1, <2>3
<1> QED
  BY <1>1

LEMMA TrueServers ==
  ASSUME NEW n \in Name, ~InMuddled(n), NEW ns \in Truth(n, "NS")
  PROVE  Independent(ns)
<1>1. PICK k : k = Key(n, "NS")
  OBVIOUS
<1>2. PICK z \in Apexes : k \in DOMAIN ZoneData[z].data /\ ns \in ZoneData[z].data[k]
  BY <1>1, TruthIsData
<1>3. k.type = "NS" /\ k.name = n
  BY <1>1 DEF Key
<1> QED
  BY <1>2, <1>3, ZonesAssumption

(* What is above a name outside of the misconfigured zones is outside of them. *)
LEMMA AboveUnmuddled ==
  ASSUME NEW n \in Name, ~InMuddled(n), NEW a \in Chops(n)
  PROVE  ~InMuddled(a)
BY ChopsTrans DEF InMuddled, DottedEndsOn

-----------------------------------------------------------------------------
(***************************************************************************)
(* The record cache: what it holds about a name outside of the             *)
(* misconfigured zones is true, and the names in it are names.             *)
(***************************************************************************)
MayHold(k, contents) ==
  /\ k.type \in {"NS", "CNAME"} => contents \subseteq Name
  /\ ~InMuddled(k.name) => contents \subseteq Truth(k.name, k.type)
EntryTrue(k, e) == {"auth", "recs"} \subseteq DOMAIN e /\ MayHold(k, DOMAIN e.recs)
CacheTrue(c) == \A k \in DOMAIN c : EntryTrue(k, c[k])

LEMMA HoldsLess ==
  ASSUME NEW k, NEW S, NEW T, MayHold(k, S), T \subseteq S
  PROVE  MayHold(k, T)
BY DEF MayHold

LEMMA HoldsBoth ==
  ASSUME NEW k, NEW S, NEW T, MayHold(k, S), MayHold(k, T)
  PROVE  MayHold(k, S \cup T)
BY DEF MayHold

LEMMA ReplaceTrue ==
  ASSUME NEW k, NEW stored, EntryTrue(k, stored), NEW n, NEW type, NEW contents, NEW ttl, NEW auth,
         MayHold(k, contents)
  PROVE  EntryTrue(k, Replace(stored, n, type, contents, ttl, auth))
<1>1. PICK e : e = [stored EXCEPT !.recs = IF type \in {"SOA", "CNAME"} THEN NoRecords ELSE @]
  OBVIOUS
<1>2. PICK r : r = Replace(stored, n, type, contents, ttl, auth)
  OBVIOUS
<1>3. DOMAIN e.recs \subseteq DOMAIN stored.recs
  BY <1>1 DEF EntryTrue, NoRecords
<1>4. \/ r = stored
      \/ r = [auth |-> TRUE, recs |-> [x \in contents |-> ttl]]
      \/ r = [auth |-> auth, recs |-> Merge(e.recs, type, contents, ttl, auth)]
  BY <1>1, <1>2 DEF Replace
<1>5. CASE r = [auth |-> TRUE, recs |-> [x \in contents |-> ttl]]
  <2>1. {"auth", "recs"} \subseteq DOMAIN r /\ DOMAIN r.recs = contents
    BY <1>5
  <2> QED
    BY <1>2, <2>1 DEF EntryTrue
<1>6. CASE r = [auth |-> auth, recs |-> Merge(e.recs, type, contents, ttl, auth)]
  <2>1. {"auth", "recs"} \subseteq DOMAIN r /\ r.recs = Merge(e.recs, type, contents, ttl, auth)
    BY <1>6
  <2>2. DOMAIN Merge(e.recs, type, contents, ttl, auth) = DOMAIN e.recs \cup contents
    BY DEF Merge
  <2>3. MayHold(k, DOMAIN e.recs)
    BY <1>3, HoldsLess DEF EntryTrue
  <2>4. MayHold(k, DOMAIN e.recs \cup contents)
    BY <2>3, HoldsBoth
  <2> QED
    BY <1>2, <2>1, <2>2, <2>4 DEF EntryTrue
<1> QED
  BY <1>2, <1>4, <1>5, <1>6

LEMMA ReplaceAllTrue ==
  ASSUME NEW c, CacheTrue(c), NEW new, \A k \in DOMAIN new : MayHold(k, new[k]), NEW ttl, NEW auth
  PROVE  CacheTrue(ReplaceAll(c, new, ttl, auth))
<1>1. ASSUME NEW k \in DOMAIN new
      PROVE  EntryTrue(k, ReplaceIn(c, k, new[k], ttl, auth))
  <2>1. PICK stored : stored = IF k \in DOMAIN c THEN c[k] ELSE [auth |-> auth, recs |-> NoRecords]
    OBVIOUS
  <2>2. EntryTrue(k, stored)
    <3>1. CASE k \in DOMAIN c
      BY <2>1, <3>1 DEF CacheTrue
    <3>2. CASE k \notin DOMAIN c
      <4>1. {"auth", "recs"} \subseteq DOMAIN stored /\ DOMAIN stored.recs = {}
        BY <2>1, <3>2 DEF NoRecords
      <4> QED
        BY <4>1 DEF EntryTrue, MayHold
    <3> QED
      BY <3>1, <3>2
  <2>3. EntryTrue(k, Replace(stored, k.name, k.type, new[k], ttl, auth))
    BY <2>2, ReplaceTrue
  <2> QED
    BY <2>1, <2>3, Zenon DEF ReplaceIn
<1> QED
  BY <1>1, Zenon DEF CacheTrue, ReplaceAll

LEMMA GetTrue ==
  ASSUME NEW c, CacheTrue(c), NEW n, NEW type
  PROVE  MayHold(Key(n, type), Get(c, n, type))
<1>1. CASE Key(n, type) \in DOMAIN c
  <2>1. Get(c, n, type) \subseteq DOMAIN c[Key(n, type)].recs
    BY <1>1 DEF Get, Live
  <2> QED
    BY <1>1, <2>1, HoldsLess DEF CacheTrue, EntryTrue
<1>2. CASE Key(n, type) \notin DOMAIN c
  BY <1>2 DEF Get, MayHold
<1> QED
  BY <1>1, <1>2

LEMMA KeyFields ==
  ASSUME NEW n, NEW type
  PROVE  Key(n, type).name = n /\ Key(n, type).type = type
BY DEF Key

LEMMA PrimeHintsTrue ==
  ASSUME NEW c, CacheTrue(c)
  PROVE  CacheTrue(PrimeHints(c))
<1>1. PICK new :
        new = [k \in {Key(<<>>, "NS")} \cup {Key(n, "A") : n \in Truth(<<>>, "NS")} |->
                 Truth(k.name, k.type)]
  OBVIOUS
<1>2. ASSUME NEW k \in DOMAIN new
      PROVE  MayHold(k, new[k])
  <2>1. new[k] = Truth(k.name, k.type)
    BY <1>1
  <2>2. k = Key(<<>>, "NS") \/ \E n : k = Key(n, "A")
    BY <1>1
  <2>3. k.type \in {"NS", "CNAME"} => k.name = <<>> /\ k.type = "NS"
    BY <2>2, KeyFields
  <2>4. Truth(<<>>, "NS") \subseteq Name
    BY TruthNames, EmptySeq DEF Name
  <2> QED
    BY <2>1, <2>3, <2>4 DEF MayHold
<1>3. CacheTrue(ReplaceAll(c, new, TTL, TRUE))
  BY <1>2, ReplaceAllTrue
<1> QED
  BY <1>1, <1>3 DEF PrimeHints

LEMMA AgedTrue ==
  ASSUME NEW c, CacheTrue(c), NEW time
  PROVE  CacheTrue(Aged(c, time))
<1>1. ASSUME NEW k \in DOMAIN c
      PROVE  EntryTrue(k, [c[k] EXCEPT !.recs = [x \in DOMAIN @ |-> Older(@[x], time)]])
  <2>1. PICK e, r : e = c[k] /\ r = [e EXCEPT !.recs = [x \in DOMAIN @ |-> Older(@[x], time)]]
    OBVIOUS
  <2>2. EntryTrue(k, e)
    BY <2>1 DEF CacheTrue
  <2>3. {"auth", "recs"} \subseteq DOMAIN r /\ DOMAIN r.recs = DOMAIN e.recs
    BY <2>1, <2>2 DEF EntryTrue
  <2> QED
    BY <2>1, <2>2, <2>3 DEF EntryTrue
<1> QED
  BY <1>1, Zenon DEF CacheTrue, Aged

LEMMA DoAgeCacheTrue ==
  ASSUME NEW c, CacheTrue(c), NEW k, NEW time
  PROVE  CacheTrue(DoAgeCache(c, k, time))
<1>1. CASE DoAgeCache(c, k, time) = c
  BY <1>1
<1>2. CASE k \in DOMAIN c /\ DoAgeCache(c, k, time) = [c EXCEPT ![k].recs = [x \in DOMAIN @ |-> time]]
  <2>1. PICK e, r : e = c[k] /\ r = [e EXCEPT !.recs = [x \in DOMAIN @ |-> time]]
    OBVIOUS
  <2>2. EntryTrue(k, e)
    BY <1>2, <2>1 DEF CacheTrue
  <2>3. {"auth", "recs"} \subseteq DOMAIN r /\ DOMAIN r.recs = DOMAIN e.recs
    BY <2>1, <2>2 DEF EntryTrue
  <2>4. EntryTrue(k, r)
    BY <2>2, <2>3 DEF EntryTrue
  <2>5. DoAgeCache(c, k, time) = [c EXCEPT ![k] = r]
    BY <1>2, <2>1
  <2> QED
    BY <2>4, <2>5 DEF CacheTrue
<1> QED
  BY <1>1, <1>2 DEF DoAgeCache

-----------------------------------------------------------------------------
(***************************************************************************)
(* Replies.  All of them speak of names; those of the servers that are not *)
(* misconfigured are true, deny only what is not there, and refer to one   *)
(* zone at a time.                                                         *)
(***************************************************************************)
SaneReply(reply) ==
  \A rr \in reply.rrs : rr.name \in Name /\ (rr.type \in {"NS", "CNAME"} => rr.to \in Name)
TrueReply(reply, n, type) ==
  /\ \A rr \in reply.rrs : rr.name \in Name /\ rr.to \in Truth(rr.name, rr.type)
  /\ In(reply, "authority", "SOA") # {} =>
       Truth(n, type) = {} /\ (reply.rcode = "NXDomain" => ~NameExists(n))
  /\ \A rr, x \in In(reply, "authority", "NS") : rr.name = x.name

LEMMA RRFields ==
  ASSUME NEW place, NEW n, NEW type, NEW S, NEW rr \in RRs(place, n, type, S)
  PROVE  rr.place = place /\ rr.name = n /\ rr.type = type /\ rr.to \in S
BY DEF RRs, RR

LEMMA ReferralTrue ==
  ASSUME NEW c \in Name, NEW n, NEW type
  PROVE  TrueReply(Referral(c), n, type)
<1>1. PICK nsset, glue :
        /\ nsset = RRs("authority", c, "NS", Truth(c, "NS"))
        /\ glue = UNION {RRs("additional", ns, "A", Truth(ns, "A")) :
                           ns \in {x \in Truth(c, "NS") : DottedEndsOn(x, c)}}
  OBVIOUS
<1>2. Referral(c).rrs = nsset \cup glue
  BY <1>1 DEF Referral, Reply
<1>3. \A rr \in nsset : rr.place = "authority" /\ rr.name = c /\ rr.type = "NS" /\ rr.to \in Truth(c, "NS")
  BY <1>1, RRFields
<1>4. ASSUME NEW rr \in glue
      PROVE  rr.place = "additional" /\ rr.name \in Name /\ rr.type = "A" /\ rr.to \in Truth(rr.name, "A")
  <2>1. PICK ns \in Truth(c, "NS") : rr \in RRs("additional", ns, "A", Truth(ns, "A"))
    BY <1>1
  <2> QED
    BY <2>1, RRFields, TruthNames
<1>5. \A rr \in Referral(c).rrs : rr.name \in Name /\ rr.to \in Truth(rr.name, rr.type)
  BY <1>2, <1>3, <1>4
<1>6. In(Referral(c), "authority", "SOA") = {}
  BY <1>2, <1>3, <1>4 DEF In
<1>7. \A rr \in In(Referral(c), "authority", "NS") : rr.name = c
  BY <1>2, <1>3, <1>4 DEF In
<1> QED
  BY <1>5, <1>6, <1>7, Zenon DEF TrueReply

LEMMA AnswerTrue ==
  ASSUME NEW z \in Name, NEW n \in Name, NEW type
  PROVE  TrueReply(Answer(z, n, type), n, type)
<1>1. PICK reply : reply = Answer(z, n, type)
  OBVIOUS
<1>2. ASSUME NEW t, reply.rrs = RRs("answer", n, t, Truth(n, t))
      PROVE  TrueReply(reply, n, type)
  <2>1. \A rr \in reply.rrs : rr.place = "answer" /\ rr.name = n /\ rr.type = t /\ rr.to \in Truth(n, t)
    BY <1>2, RRFields
  <2>2. In(reply, "authority", "SOA") = {} /\ In(reply, "authority", "NS") = {}
    BY <2>1 DEF In
  <2> QED
    BY <2>1, <2>2 DEF TrueReply
<1>3. ASSUME Truth(n, type) = {},
             reply = Reply(IF NameExists(n) THEN "NoError" ELSE "NXDomain", TRUE,
                           RRs("authority", z, "SOA", Truth(z, "SOA")))
      PROVE  TrueReply(reply, n, type)
  <2>1. /\ reply.rcode = IF NameExists(n) THEN "NoError" ELSE "NXDomain"
        /\ reply.rrs = RRs("authority", z, "SOA", Truth(z, "SOA"))
    BY <1>3 DEF Reply
  <2>2. \A rr \in reply.rrs : rr.name = z /\ rr.type = "SOA" /\ rr.to \in Truth(z, "SOA")
    BY <2>1, RRFields
  <2>3. In(reply, "authority", "NS") = {}
    BY <2>2 DEF In
  <2>4. reply.rcode = "NXDomain" => ~NameExists(n)
    BY <2>1
  <2> QED
    BY <1>3, <2>2, <2>3, <2>4 DEF TrueReply
<1>4. ASSUME NEW t, reply = Reply("NoError", TRUE, RRs("answer", n, t, Truth(n, t)))
      PROVE  TrueReply(reply, n, type)
  <2>1. reply.rrs = RRs("answer", n, t, Truth(n, t))
    BY <1>4 DEF Reply
  <2> QED
    BY <1>2, <2>1
<1>5. \/ reply = Reply("NoError", TRUE, RRs("answer", n, "CNAME", Truth(n, "CNAME")))
      \/ reply = Reply("NoError", TRUE, RRs("answer", n, type, Truth(n, type)))
      \/ /\ Truth(n, type) = {}
         /\ reply = Reply(IF NameExists(n) THEN "NoError" ELSE "NXDomain", TRUE,
                          RRs("authority", z, "SOA", Truth(z, "SOA")))
  BY <1>1, Zenon DEF Answer
<1> QED
  BY <1>1, <1>3, <1>4, <1>5, Zenon

LEMMA HonestIsTrue ==
  ASSUME NEW ip, NEW n \in Name, NEW type, NEW reply \in HonestReplies(ip, n, type)
  PROVE  TrueReply(reply, n, type)
<1>1. CASE reply = UpReferral
  <2>1. <<>> \in Name
    BY EmptySeq DEF Name
  <2>2. reply.rrs = RRs("authority", <<>>, "NS", Truth(<<>>, "NS"))
    BY <1>1 DEF UpReferral, Reply
  <2>3. \A rr \in reply.rrs : rr.name = <<>> /\ rr.type = "NS" /\ rr.to \in Truth(<<>>, "NS")
    BY <2>2, RRFields
  <2>4. In(reply, "authority", "SOA") = {} /\ \A rr \in In(reply, "authority", "NS") : rr.name = <<>>
    BY <2>3 DEF In
  <2> QED
    BY <2>1, <2>3, <2>4, Zenon DEF TrueReply
<1>2. CASE reply = Reply("Refused", FALSE, {})
  <2>1. reply.rrs = {}
    BY <1>2 DEF Reply
  <2> QED
    BY <2>1 DEF TrueReply, In
<1>3. CASE Serving(ip, n) # {}
  <2>1. PICK z : z = Longest(Serving(ip, n))
    OBVIOUS
  <2>2. z \in Name
    <3>1. Serving(ip, n) \in SUBSET Chops(n) /\ Serving(ip, n) \subseteq Apexes
      BY DEF Serving, DottedEndsOn
    <3> QED
      BY <1>3, <2>1, <3>1, LongestFound, ZonesAssumption
  <2>3. CASE Children(z, n) # {}
    <3>1. PICK c : c = Longest(Children(z, n))
      OBVIOUS
    <3>2. Children(z, n) \in SUBSET Chops(n) /\ Children(z, n) \subseteq Apexes
      BY DEF Children, DottedEndsOn
    <3>3. c \in Name
      BY <2>3, <3>1, <3>2, LongestFound, ZonesAssumption
    <3>4. reply = Referral(c)
      BY <1>3, <2>1, <2>3, <3>1 DEF HonestReplies
    <3> QED
      BY <3>3, <3>4, ReferralTrue
  <2>4. CASE Children(z, n) = {}
    <3>1. reply = Answer(z, n, type)
      BY <1>3, <2>1, <2>4 DEF HonestReplies
    <3> QED
      BY <2>2, <3>1, AnswerTrue
  <2> QED
    BY <2>3, <2>4
<1> QED
  BY <1>1, <1>2, <1>3 DEF HonestReplies

(* A server that is not misconfigured says what is true. *)
LEMMA RepliesTrue ==
  ASSUME NEW ip, NEW n \in Name, NEW type, NEW reply \in Replies(ip, n, type)
  PROVE  SaneReply(reply) /\ (Sound(ip) => TrueReply(reply, n, type))
<1>1. ASSUME TrueReply(reply, n, type)
      PROVE  SaneReply(reply)
  BY <1>1, TruthNames DEF TrueReply, SaneReply
<1>2. CASE reply \in HonestReplies(ip, n, type)
  BY <1>1, <1>2, HonestIsTrue
<1>3. CASE reply \in MuddledReplies /\ ~Sound(ip)
  BY <1>3, ZonesAssumption DEF SaneReply
<1> QED
  BY <1>2, <1>3 DEF Replies, Sound

-----------------------------------------------------------------------------
(***************************************************************************)
(* The calls: a call asks for its question the servers of a zone that the  *)
(* name is in, and where that is not a misconfigured one they are servers  *)
(* that do not depend on these.  So a call made for the address of such a  *)
(* server is for a name that is no alias, and gets addresses that are not  *)
(* those of misconfigured servers.                                         *)
(***************************************************************************)
Served(f) ==
  /\ DottedEndsOn(f.qname, f.auth) /\ f.nameservers \subseteq Name
  /\ ~InMuddled(f.auth) =>
       /\ \A ns \in f.nameservers : Independent(ns)
       /\ f.at \in {"addresses", "wait"} => \A ip \in f.ips : Sound(ip)
       /\ f.at = "wait" => Sound(f.ip)
FrameTrue(f) ==
  /\ f.qname \in Name /\ f.qtype # ""
  /\ \A rr \in f.ret : rr.type \in {"CNAME", "SOA"}
  /\ f.at # "resolve" => Served(f)
Called(f, g) ==
  f.at = "servers" /\ g.qtype = "A" /\ (~InMuddled(f.auth) => Independent(g.qname))
StackTrue(s) ==
  \A i \in 1 .. Len(s) : FrameTrue(s[i]) /\ (i # 1 => Called(s[i - 1], s[i]))

(* The call that the innermost one, which becomes f, was made by. *)
CalledAs(s, f) == Len(s) # 1 => Called(s[Len(s) - 1], f)

LEMMA ChangedTrue ==
  ASSUME NEW s, IsStack(s), s # <<>>, StackTrue(s), NEW f, IsFrame(f), FrameTrue(f), CalledAs(s, f)
  PROVE  StackTrue(Changed(s, f))
<1>1. PICK n : n = Len(s)
  OBVIOUS
<1>2. n \in Nat \ {0}
  BY <1>1, TopOfStack
<1>3. PICK t : t = Changed(s, f)
  OBVIOUS
<1>4. Len(t) = n /\ t[n] = f /\ \A i \in 1 .. n - 1 : t[i] = s[i]
  BY <1>1, <1>3, TopChanged
<1>5. ASSUME NEW i \in 1 .. n
      PROVE  FrameTrue(t[i]) /\ (i # 1 => Called(t[i - 1], t[i]))
  <2>1. CASE i = n
    <3>1. i # 1 => i - 1 \in 1 .. n - 1
      BY <1>2
    <3>2. i # 1 => t[i - 1] = s[n - 1] /\ Called(s[n - 1], f)
      BY <1>1, <1>4, <2>1, <3>1 DEF CalledAs
    <3> QED
      BY <1>4, <2>1, <3>2
  <2>2. CASE i # n
    <3>1. i \in 1 .. n - 1 /\ (i # 1 => i - 1 \in 1 .. n - 1)
      BY <1>2, <2>2
    <3>2. t[i] = s[i] /\ (i # 1 => t[i - 1] = s[i - 1])
      BY <1>4, <3>1
    <3>3. FrameTrue(s[i]) /\ (i # 1 => Called(s[i - 1], s[i]))
      BY <1>1 DEF StackTrue
    <3> QED
      BY <3>2, <3>3
  <2> QED
    BY <2>1, <2>2
<1> QED
  BY <1>3, <1>4, <1>5 DEF StackTrue

LEMMA CallingTrue ==
  ASSUME NEW s, IsStack(s), s # <<>>, StackTrue(s), NEW g, IsFrame(g), FrameTrue(g),
         Called(s[Len(s)], g)
  PROVE  StackTrue(Calling(s, g))
<1>1. PICK n : n = Len(s)
  OBVIOUS
<1>2. n \in Nat \ {0}
  BY <1>1, TopOfStack
<1>3. PICK t : t = Calling(s, g)
  OBVIOUS
<1>4. Len(t) = n + 1 /\ t[n + 1] = g /\ \A i \in 1 .. n : t[i] = s[i]
  BY <1>1, <1>3, TopCalls
<1>5. ASSUME NEW i \in 1 .. n + 1
      PROVE  FrameTrue(t[i]) /\ (i # 1 => Called(t[i - 1], t[i]))
  <2>1. CASE i = n + 1
    <3>1. i - 1 = n /\ n \in 1 .. n
      BY <1>2, <2>1
    <3>2. t[i - 1] = s[n]
      BY <1>4, <3>1
    <3> QED
      BY <1>1, <1>4, <2>1, <3>2
  <2>2. CASE i # n + 1
    <3>1. i \in 1 .. n /\ (i # 1 => i - 1 \in 1 .. n)
      BY <1>2, <2>2
    <3>2. t[i] = s[i] /\ (i # 1 => t[i - 1] = s[i - 1])
      BY <1>4, <3>1
    <3>3. FrameTrue(s[i]) /\ (i # 1 => Called(s[i - 1], s[i]))
      BY <1>1, <3>1 DEF StackTrue
    <3> QED
      BY <3>2, <3>3
  <2> QED
    BY <2>1, <2>2
<1> QED
  BY <1>3, <1>4, <1>5 DEF StackTrue

LEMMA ReturnedTrue ==
  ASSUME NEW s, IsStack(s), s # <<>>, Len(s) # 1, StackTrue(s), NEW g, IsFrame(g), FrameTrue(g),
         g.qname = s[Len(s) - 1].qname, g.qtype = s[Len(s) - 1].qtype
  PROVE  StackTrue(Returned(s, g))
<1>1. PICK n : n = Len(s) - 1
  OBVIOUS
<1>2. n \in Nat \ {0} /\ Len(s) = n + 1 /\ Len(s) - 2 = n - 1
  <2>1. PICK k \in Nat \ {0} : k = Len(s)
    BY TopOfStack, Zenon
  <2>2. k # 1
    BY <2>1, Zenon
  <2>3. k - 1 \in Nat \ {0} /\ k = k - 1 + 1 /\ k - 2 = k - 1 - 1
    BY <2>2
  <2> QED
    BY <1>1, <2>1, <2>3, Zenon
<1>3. PICK t : t = Returned(s, g)
  OBVIOUS
<1>4. Len(t) = n /\ t[n] = g /\ \A i \in 1 .. n - 1 : t[i] = s[i]
  <2>1. /\ Len(Returned(s, g)) = Len(s) - 1 /\ Returned(s, g)[Len(s) - 1] = g
        /\ \A i \in 1 .. Len(s) - 2 : Returned(s, g)[i] = s[i]
    BY TopReturns
  <2> QED
    BY <1>1, <1>2, <1>3, <2>1, Zenon
<1>5. ASSUME NEW i \in 1 .. n
      PROVE  FrameTrue(t[i]) /\ (i # 1 => Called(t[i - 1], t[i]))
  <2>1. i \in 1 .. n + 1 /\ (i # 1 => i - 1 \in 1 .. n - 1) /\ (i # n => i \in 1 .. n - 1)
    BY <1>2
  <2>2. FrameTrue(s[i]) /\ (i # 1 => Called(s[i - 1], s[i]))
    BY <1>2, <2>1, Zenon DEF StackTrue
  <2>3. CASE i = n
    <3>1. i # 1 => Called(s[i - 1], g)
      BY <1>1, <2>2, <2>3 DEF Called
    <3> QED
      BY <1>4, <2>1, <2>3, <3>1
  <2>4. CASE i # n
    <3>1. t[i] = s[i] /\ (i # 1 => t[i - 1] = s[i - 1])
      BY <1>4, <2>1, <2>4
    <3> QED
      BY <2>2, <3>1
  <2> QED
    BY <2>3, <2>4
<1> QED
  BY <1>3, <1>4, <1>5 DEF StackTrue

(* The same for the steps of the model. *)
CallsTrue == Frames /\ StackTrue(stack)

LEMMA TopTrue ==
  ASSUME CallsTrue, stack # <<>>
  PROVE  IsFrame(Top) /\ FrameTrue(Top) /\ CalledAs(stack, Top)
<1>1. PICK s : s = stack
  OBVIOUS
<1>2. IsStack(s) /\ s # <<>> /\ StackTrue(s)
  BY <1>1 DEF CallsTrue, Frames
<1>3. Len(s) \in 1 .. Len(s) /\ IsFrame(s[Len(s)])
  BY <1>2, TopOfStack
<1>4. FrameTrue(s[Len(s)]) /\ CalledAs(s, s[Len(s)])
  BY <1>2, <1>3 DEF StackTrue, CalledAs
<1> QED
  BY <1>1, <1>3, <1>4 DEF Top

LEMMA SetTopTrue ==
  ASSUME CallsTrue, stack # <<>>, NEW f, IsFrame(f), FrameTrue(f), CalledAs(stack, f), SetTop(f)
  PROVE  CallsTrue'
<1>1. stack' = Changed(stack, f)
  BY DEF SetTop, Changed
<1>2. IsStack(Changed(stack, f))
  BY TopChanged DEF CallsTrue, Frames
<1>3. StackTrue(Changed(stack, f))
  BY ChangedTrue DEF CallsTrue, Frames
<1> QED
  BY <1>1, <1>2, <1>3 DEF CallsTrue, Frames

(* The innermost call stays for its question. *)
LEMMA StaysTrue ==
  ASSUME CallsTrue, stack # <<>>, NEW f, IsFrame(f), FrameTrue(f), SetTop(f),
         f.qname = Top.qname, f.qtype = Top.qtype
  PROVE  CallsTrue'
<1>1. CalledAs(stack, f)
  BY TopTrue DEF CalledAs, Called
<1> QED
  BY <1>1, SetTopTrue

(* It returns to a call that wants addresses. *)
Fit(ret) ==
  Top.qtype = "A" /\ Independent(Top.qname) => \A rr \in ret : rr.type = "A" => Sound(rr.to)
LEMMA ReturnTrue ==
  ASSUME CallsTrue, stack # <<>>, NEW rcode, NEW ret, rcode = "NoError" => Fit(ret),
         Return(Top, rcode, ret)
  PROVE  CallsTrue'
<1>1. CASE Len(stack) = 1
  <2>1. stack' = <<>>
    BY <1>1 DEF Return
  <2> QED
    BY <2>1, EmptySeq DEF CallsTrue, Frames, IsStack, StackTrue
<1>2. CASE Len(stack) # 1
  <2>1. PICK ips, beenthere, flawed, c, g :
          /\ ips = IF rcode = "NoError" THEN {rr.to : rr \in {x \in ret : x.type = "A"}} ELSE {}
          /\ c = stack[Len(stack) - 1]
          /\ g = [c EXCEPT !.at = IF ips = {} THEN "servers" ELSE "addresses",
                           !.ips = ips, !.flawed = flawed, !.beenthere = beenthere]
          /\ stack' = Returned(stack, g)
    BY <1>2, Zenon DEF Return, Returned
  <2>2. IsFrame(c) /\ Len(stack) - 1 \in 1 .. Len(stack)
    BY <1>2, <2>1, TopReturns DEF CallsTrue, Frames
  <2>3. FrameTrue(c)
    BY <2>1, <2>2 DEF CallsTrue, StackTrue
  <2>4. Called(c, Top)
    BY <1>2, <2>1, TopTrue DEF CalledAs
  <2>5. /\ IsFrame(g) /\ g.at = (IF ips = {} THEN "servers" ELSE "addresses") /\ g.ips = ips
        /\ g.qname = c.qname /\ g.qtype = c.qtype /\ g.ret = c.ret /\ g.auth = c.auth
        /\ g.nameservers = c.nameservers
    BY <2>1, <2>2 DEF IsFrame
  <2>6. ~InMuddled(c.auth) => \A ip \in ips : Sound(ip)
    <3>1. SUFFICES ASSUME ~InMuddled(c.auth), NEW ip \in ips
                   PROVE  Sound(ip)
      OBVIOUS
    <3>2. rcode = "NoError" /\ \E rr \in ret : rr.type = "A" /\ ip = rr.to
      BY <2>1
    <3>3. Top.qtype = "A" /\ Independent(Top.qname)
      BY <2>4, <3>1 DEF Called
    <3> QED
      BY <3>2, <3>3 DEF Fit
  <2>7. FrameTrue(g)
    <3>1. c.at = "servers" /\ Served(c)
      BY <2>3, <2>4 DEF Called, FrameTrue
    <3>2. Served(g)
      BY <2>5, <2>6, <3>1 DEF Served
    <3> QED
      BY <2>3, <2>5, <3>2 DEF FrameTrue
  <2>8. IsStack(Returned(stack, g))
    BY <1>2, <2>5, TopReturns DEF CallsTrue, Frames
  <2>9. StackTrue(Returned(stack, g))
    BY <1>2, <2>1, <2>5, <2>7, ReturnedTrue DEF CallsTrue, Frames
  <2> QED
    BY <2>1, <2>8, <2>9 DEF CallsTrue, Frames
<1> QED
  BY <1>1, <1>2

(* It starts over for another name, which no server's name that we rely on leads to. *)
LEMMA RedirectTrue ==
  ASSUME CallsTrue, stack # <<>>, NEW to \in Name, NEW ret, ~Independent(Top.qname),
         \A rr \in ret : rr.type \in {"CNAME", "SOA"}, Redirect(Top, to, ret)
  PROVE  CallsTrue'
<1>1. PICK f : /\ f = [Frame(to, Top.qtype, Top.depth + 1, {}) EXCEPT
                        !.ret = ret, !.fresh = TRUE,
                        !.callers = IF Top.fresh THEN Top.callers ELSE Top.beenthere]
               /\ SetTop(f)
  BY DEF Redirect
<1>2. IsFrame(f) /\ f.at = "resolve" /\ f.qname = to /\ f.qtype = Top.qtype /\ f.ret = ret
  BY <1>1 DEF IsFrame, Frame
<1>3. FrameTrue(f) /\ CalledAs(stack, f)
  BY <1>2, TopTrue DEF FrameTrue, CalledAs, Called
<1> QED
  BY <1>1, <1>2, <1>3, SetTopTrue

-----------------------------------------------------------------------------
(***************************************************************************)
(* The inductive invariant, and its steps.                                 *)
(***************************************************************************)
DenialTrue(e) ==
  /\ {"name", "type"} \subseteq DOMAIN e
  /\ ~InMuddled(e.name) => IF e.type = "" THEN ~NameExists(e.name) ELSE Truth(e.name, e.type) = {}
DenialsTrue == \A e \in negcache : DenialTrue(e)
TruthInv == CallsTrue /\ CacheTrue(cache) /\ DenialsTrue

(* Records of these types are no addresses. *)
LEMMA NoAddresses ==
  ASSUME NEW ret, \A rr \in ret : rr.type \in {"CNAME", "SOA"}
  PROVE  Fit(ret)
BY DEF Fit

(* What is cached about an alias, or for an answer. *)
LEMMA CachedCNAMEs ==
  ASSUME TruthInv, stack # <<>>, NEW to \in CNAMEs
  PROVE  to \in Name /\ ~Independent(Top.qname)
<1>1. PICK n : n = Top.qname
  OBVIOUS
<1>2. MayHold(Key(n, "CNAME"), Get(cache, n, "CNAME"))
  BY GetTrue DEF TruthInv
<1>3. to \in Get(cache, n, "CNAME")
  BY <1>1 DEF CNAMEs
<1> QED
  BY <1>1, <1>2, <1>3, KeyFields DEF MayHold, Independent

LEMMA CachedFits ==
  ASSUME TruthInv, stack # <<>>
  PROVE  Fit(Top.ret \cup Cached)
<1>1. \A rr \in Top.ret : rr.type \in {"CNAME", "SOA"}
  BY TopTrue DEF TruthInv, FrameTrue
<1>2. ASSUME Top.qtype = "A", Independent(Top.qname), NEW rr \in Cached, rr.type = "A"
      PROVE  Sound(rr.to)
  <2>1. PICK n : n = Top.qname
    OBVIOUS
  <2>2. CASE Negatives = {}
    <3>1. rr \in RRs("answer", n, "A", Get(cache, n, "A"))
      BY <1>2, <2>1, <2>2 DEF Cached
    <3>2. rr.to \in Get(cache, n, "A")
      BY <3>1, RRFields
    <3>3. MayHold(Key(n, "A"), Get(cache, n, "A"))
      BY GetTrue DEF TruthInv
    <3> QED
      BY <1>2, <2>1, <3>2, <3>3, KeyFields DEF MayHold, Independent
  <2>3. CASE Negatives # {}
    <3>1. rr \in RRs("authority", Denial.soa, "SOA", Get(cache, Denial.soa, "SOA"))
      BY <1>2, <2>3 DEF Cached
    <3>2. rr.type = "SOA"
      BY <3>1, RRFields
    <3> QED
      BY <1>2, <3>2
  <2> QED
    BY <2>2, <2>3
<1> QED
  BY <1>1, <1>2 DEF Fit

(* Name servers are looked up for the name or one above it. *)
LEMMA ConsultTrue ==
  ASSUME CallsTrue, stack # <<>>, NEW s \in Chops(Top.qname), NEW bestns \in SUBSET Name, NEW flawed,
         ~InMuddled(s) => bestns \subseteq Truth(s, "NS"), Consult(s, bestns, flawed)
  PROVE  CallsTrue'
<1>1. IsFrame(Top) /\ FrameTrue(Top)
  BY TopTrue
<1>2. PICK f : /\ f = [Top EXCEPT !.at = "servers", !.auth = s, !.nameservers = bestns,
                                  !.flawed = flawed, !.beenthere = @ \cup {Visit(s, bestns)}]
               /\ SetTop(f)
  BY DEF Consult
<1>3. /\ IsFrame(f) /\ f.at = "servers" /\ f.auth = s /\ f.nameservers = bestns
      /\ f.qname = Top.qname /\ f.qtype = Top.qtype /\ f.ret = Top.ret
  BY <1>1, <1>2 DEF IsFrame
<1>4. s \in Name
  BY <1>1, ChopsNames DEF FrameTrue
<1>5. Served(f)
  BY <1>3, <1>4, TrueServers DEF Served, DottedEndsOn
<1>6. FrameTrue(f)
  BY <1>1, <1>3, <1>5 DEF FrameTrue
<1> QED
  BY <1>2, <1>3, <1>6, StaysTrue

LEMMA CacheSteps ==
  ASSUME TruthInv, TooDeep \/ CNAMECacheHit \/ CacheHit
  PROVE  TruthInv'
<1>1. stack # <<>> /\ CallsTrue /\ UNCHANGED <<cache, negcache>>
  BY DEF TooDeep, CNAMECacheHit, CacheHit, At, Shallow, TruthInv
<1>2. CallsTrue'
  <2>1. CASE TooDeep
    BY <1>1, <2>1, ReturnTrue DEF TooDeep
  <2>2. CASE CNAMECacheHit
    <3>1. PICK to \in CNAMEs :
            \/ Return(Top, "NoError", Top.ret \cup {RR("answer", Top.qname, "CNAME", to)})
            \/ Redirect(Top, to, Top.ret \cup {RR("answer", Top.qname, "CNAME", to)})
      BY <2>2, Zenon DEF CNAMECacheHit
    <3>2. PICK ret : ret = Top.ret \cup {RR("answer", Top.qname, "CNAME", to)}
      OBVIOUS
    <3>3. \A rr \in ret : rr.type \in {"CNAME", "SOA"}
      <4>1. \A rr \in Top.ret : rr.type \in {"CNAME", "SOA"}
        BY <1>1, TopTrue DEF FrameTrue
      <4>2. RR("answer", Top.qname, "CNAME", to).type = "CNAME"
        BY DEF RR
      <4> QED
        BY <3>2, <4>1, <4>2
    <3>4. Fit(ret) /\ to \in Name /\ ~Independent(Top.qname)
      BY <1>1, <3>3, NoAddresses, CachedCNAMEs
    <3>5. Return(Top, "NoError", ret) \/ Redirect(Top, to, ret)
      BY <3>1, <3>2
    <3> QED
      BY <1>1, <3>3, <3>4, <3>5, ReturnTrue, RedirectTrue
  <2>3. CASE CacheHit
    <3>1. PICK rcode, ret : ret = Top.ret \cup Cached /\ Return(Top, rcode, ret)
      BY <2>3 DEF CacheHit
    <3>2. Fit(ret)
      BY <1>1, <3>1, CachedFits
    <3> QED
      BY <1>1, <3>1, <3>2, ReturnTrue
  <2> QED
    BY <2>1, <2>2, <2>3
<1> QED
  BY <1>1, <1>2 DEF TruthInv, DenialsTrue

LEMMA LookupSteps ==
  ASSUME TruthInv, FindNameservers \/ Reprime
  PROVE  TruthInv'
<1>1. stack # <<>> /\ CallsTrue /\ UNCHANGED negcache
  BY DEF FindNameservers, Reprime, NotCached, Shallow, At, TruthInv
<1>2. IsFrame(Top) /\ FrameTrue(Top) /\ Top.qname \in Name
  BY <1>1, TopTrue DEF FrameTrue
<1>3. CASE FindNameservers
  <2>1. PICK s \in Good : Consult(s, Usable(s), Usable(s) # Get(cache, s, "NS"))
    BY <1>3 DEF FindNameservers
  <2>2. s \in Chops(Top.qname) /\ Usable(s) \subseteq Get(cache, s, "NS")
    BY DEF Good, Usable
  <2>3. MayHold(Key(s, "NS"), Get(cache, s, "NS"))
    BY GetTrue DEF TruthInv
  <2>4. Usable(s) \in SUBSET Name /\ (~InMuddled(s) => Usable(s) \subseteq Truth(s, "NS"))
    BY <2>2, <2>3, KeyFields DEF MayHold
  <2>5. PICK bestns, flawed : bestns = Usable(s) /\ Consult(s, bestns, flawed)
    BY <2>1
  <2>6. CallsTrue'
    BY <1>1, <2>2, <2>4, <2>5, ConsultTrue
  <2> QED
    BY <1>1, <1>3, <2>6 DEF FindNameservers, TruthInv, DenialsTrue
<1>4. CASE Reprime
  <2>1. CacheTrue(cache')
    <3>1. CacheTrue(PrimeHints(cache))
      BY PrimeHintsTrue DEF TruthInv
    <3> QED
      BY <1>4, <3>1 DEF Reprime
  <2>2. CallsTrue'
    <3>1. CASE SetTop([Top EXCEPT !.at = "servers", !.auth = Top.qname, !.nameservers = {}])
      <4>1. PICK f : f = [Top EXCEPT !.at = "servers", !.auth = Top.qname, !.nameservers = {}] /\ SetTop(f)
        BY <3>1
      <4>2. /\ IsFrame(f) /\ f.at = "servers" /\ f.auth = Top.qname /\ f.nameservers = {}
            /\ f.qname = Top.qname /\ f.qtype = Top.qtype /\ f.ret = Top.ret
        BY <1>2, <4>1 DEF IsFrame
      <4>3. FrameTrue(f)
        BY <1>2, <4>2, ChopsNames DEF FrameTrue, Served, DottedEndsOn
      <4>4. SetTop(f)
        BY <4>1
      <4> QED
        BY <1>1, <4>2, <4>3, <4>4, StaysTrue
    <3>2. CASE Consult(<<>>, Truth(<<>>, "NS"), FALSE)
      <4>1. PICK s, bestns, flawed : s = <<>> /\ bestns = Truth(s, "NS") /\ Consult(s, bestns, flawed)
        BY <3>2
      <4>2. s \in Chops(Top.qname) /\ s \in Name
        BY <1>2, <4>1, ChopsNames
      <4>3. bestns \in SUBSET Name
        BY <4>1, <4>2, TruthNames
      <4>4. bestns \subseteq Truth(s, "NS") /\ Consult(s, bestns, flawed)
        BY <4>1
      <4> QED
        BY <1>1, <4>2, <4>3, <4>4, ConsultTrue
    <3> QED
      BY <1>4, <3>1, <3>2, Zenon DEF Reprime
  <2> QED
    BY <1>1, <2>1, <2>2 DEF TruthInv, DenialsTrue
<1> QED
  BY <1>3, <1>4

LEMMA ServerSteps ==
  ASSUME TruthInv, NoServerLeft \/ TryNameserver
  PROVE  TruthInv'
<1>1. stack # <<>> /\ CallsTrue /\ Top.at = "servers" /\ UNCHANGED negcache
  BY DEF NoServerLeft, TryNameserver, At, TruthInv
<1>2. IsFrame(Top) /\ FrameTrue(Top) /\ Served(Top) /\ CalledAs(stack, Top)
  BY <1>1, TopTrue DEF FrameTrue
<1>3. CASE NoServerLeft
  <2>1. CallsTrue'
    BY <1>1, <1>3, ReturnTrue DEF NoServerLeft
  <2>2. CacheTrue(DoAgeCache(cache, Key(Top.auth, "NS"), AgeTime)) /\ CacheTrue(cache)
    BY DoAgeCacheTrue DEF TruthInv
  <2>3. cache' \in {DoAgeCache(cache, Key(Top.auth, "NS"), AgeTime), cache}
    BY <1>3 DEF NoServerLeft
  <2> QED
    BY <1>1, <2>1, <2>2, <2>3 DEF TruthInv, DenialsTrue
<1>4. CASE TryNameserver
  <2>1. PICK ns, f :
          /\ ns \in Top.nameservers
          /\ f = [Top EXCEPT !.nameservers = @ \ {ns}, !.tns = ns, !.tcp = FALSE]
          /\ \/ SetTop(f)
             \/ stack' = Append([stack EXCEPT ![Len(stack)] = f],
                                Frame(ns, "A", Top.depth + 2, Top.beenthere))
    BY <1>4, Zenon DEF TryNameserver
  <2>2. /\ IsFrame(f) /\ f.at = "servers" /\ f.auth = Top.auth /\ f.nameservers \subseteq Top.nameservers
        /\ f.qname = Top.qname /\ f.qtype = Top.qtype /\ f.ret = Top.ret
    BY <1>1, <1>2, <2>1 DEF IsFrame
  <2>3. FrameTrue(f)
    BY <1>2, <2>2 DEF FrameTrue, Served
  <2>4. CallsTrue'
    <3>1. CASE SetTop(f)
      BY <1>1, <2>2, <2>3, <3>1, StaysTrue
    <3>2. CASE stack' = Append([stack EXCEPT ![Len(stack)] = f],
                               Frame(ns, "A", Top.depth + 2, Top.beenthere))
      <4>1. PICK g, s : g = Frame(ns, "A", Top.depth + 2, Top.beenthere) /\ s = Changed(stack, f)
        OBVIOUS
      <4>2. IsFrame(g) /\ g.at = "resolve" /\ g.qname = ns /\ g.qtype = "A" /\ g.ret = {}
        BY <4>1, FrameIsFrame DEF Frame
      <4>3. CalledAs(stack, f)
        BY <1>2, <2>2 DEF CalledAs, Called
      <4>4. IsStack(s) /\ s # <<>> /\ s[Len(s)] = f
        BY <1>1, <2>2, <4>1, TopChanged DEF CallsTrue, Frames
      <4>5. StackTrue(s)
        BY <1>1, <2>2, <2>3, <4>1, <4>3, ChangedTrue DEF CallsTrue, Frames
      <4>6. FrameTrue(g) /\ Called(s[Len(s)], g)
        BY <1>2, <2>1, <2>2, <4>2, <4>4 DEF FrameTrue, Called, Served
      <4>7. stack' = Calling(s, g)
        BY <3>2, <4>1 DEF Calling, Changed
      <4>8. IsStack(Calling(s, g)) /\ StackTrue(Calling(s, g))
        BY <4>2, <4>4, <4>5, <4>6, TopCalls, CallingTrue
      <4> QED
        BY <4>7, <4>8 DEF CallsTrue, Frames
    <3> QED
      BY <2>1, <3>1, <3>2
  <2> QED
    BY <1>1, <1>4, <2>4 DEF TryNameserver, TruthInv, DenialsTrue
<1> QED
  BY <1>3, <1>4

LEMMA AddressSteps ==
  ASSUME TruthInv, TryAddress \/ NoAnswer \/ Truncated \/ ServerFails
  PROVE  TruthInv'
<1>1. /\ stack # <<>> /\ CallsTrue /\ Top.at \in {"addresses", "wait"}
      /\ UNCHANGED <<cache, negcache>>
  BY DEF TryAddress, NoAnswer, Truncated, ServerFails, At, TruthInv
<1>2. IsFrame(Top) /\ FrameTrue(Top) /\ Served(Top)
  BY <1>1, TopTrue DEF FrameTrue
<1>3. ASSUME NEW f, IsFrame(f), SetTop(f), f.qname = Top.qname, f.qtype = Top.qtype, f.ret = Top.ret,
             f.auth = Top.auth, f.nameservers = Top.nameservers, f.ips \subseteq Top.ips,
             f.at \in {"servers", "addresses", "wait"},
             f.at = "wait" => f.ip \in Top.ips \/ (f.ip = Top.ip /\ Top.at = "wait")
      PROVE  CallsTrue'
  <2>1. Served(f)
    BY <1>1, <1>2, <1>3 DEF Served
  <2>2. FrameTrue(f)
    BY <1>2, <1>3, <2>1 DEF FrameTrue
  <2> QED
    BY <1>1, <1>3, <2>2, StaysTrue
<1>4. ASSUME NEW ips \in SUBSET Top.ips, NEW f, f = NextAddress(Top, ips), SetTop(f)
      PROVE  CallsTrue'
  <2>1. /\ IsFrame(f) /\ f.qname = Top.qname /\ f.qtype = Top.qtype /\ f.ret = Top.ret
        /\ f.auth = Top.auth /\ f.nameservers = Top.nameservers /\ f.ips = ips
        /\ f.at \in {"servers", "addresses"}
    BY <1>2, <1>4 DEF NextAddress, IsFrame
  <2> QED
    BY <1>3, <1>4, <2>1
<1>5. CASE TryAddress
  <2>1. PICK ip \in Top.ips :
          \/ SetTop(NextAddress(Top, Top.ips \ {ip}))
          \/ SetTop([Top EXCEPT !.ips = @ \ {ip}, !.ip = ip, !.at = "wait"])
    BY <1>5, Zenon DEF TryAddress
  <2>2. CASE SetTop(NextAddress(Top, Top.ips \ {ip}))
    <3>1. PICK ips, f : ips = Top.ips \ {ip} /\ f = NextAddress(Top, ips) /\ SetTop(f)
      BY <2>2
    <3>2. CallsTrue'
      BY <1>4, <3>1
    <3> QED
      BY <1>1, <3>2 DEF TruthInv, DenialsTrue
  <2>3. CASE SetTop([Top EXCEPT !.ips = @ \ {ip}, !.ip = ip, !.at = "wait"])
    <3>1. PICK f : f = [Top EXCEPT !.ips = @ \ {ip}, !.ip = ip, !.at = "wait"] /\ SetTop(f)
      BY <2>3
    <3>2. /\ IsFrame(f) /\ f.qname = Top.qname /\ f.qtype = Top.qtype /\ f.ret = Top.ret
          /\ f.auth = Top.auth /\ f.nameservers = Top.nameservers /\ f.ips \subseteq Top.ips
          /\ f.at = "wait" /\ f.ip = ip
      BY <1>2, <3>1 DEF IsFrame
    <3>3. CallsTrue'
      BY <1>3, <3>1, <3>2
    <3> QED
      BY <1>1, <3>3 DEF TruthInv, DenialsTrue
  <2> QED
    BY <2>1, <2>2, <2>3
<1>6. CASE NoAnswer
  <2>1. PICK ips, f : ips = Top.ips /\ f = NextAddress(Top, ips) /\ SetTop(f)
    BY <1>6 DEF NoAnswer
  <2>2. CallsTrue'
    BY <1>4, <2>1
  <2> QED
    BY <1>1, <2>2 DEF TruthInv, DenialsTrue
<1>7. CASE Truncated
  <2>1. CallsTrue'
    <3>1. CASE Top.tcp
      BY <1>1, <1>7, <3>1, ReturnTrue DEF Truncated
    <3>2. CASE ~Top.tcp
      <4>1. PICK f : f = [Top EXCEPT !.tcp = TRUE] /\ SetTop(f)
        BY <1>7, <3>2 DEF Truncated
      <4>2. /\ IsFrame(f) /\ f.qname = Top.qname /\ f.qtype = Top.qtype /\ f.ret = Top.ret
            /\ f.auth = Top.auth /\ f.nameservers = Top.nameservers /\ f.ips = Top.ips
            /\ f.at = Top.at /\ f.ip = Top.ip
        BY <1>2, <4>1 DEF IsFrame
      <4> QED
        BY <1>1, <1>3, <4>1, <4>2
    <3> QED
      BY <3>1, <3>2
  <2> QED
    BY <1>1, <2>1 DEF TruthInv, DenialsTrue
<1>8. CASE ServerFails
  <2>1. PICK f : f = [Top EXCEPT !.at = "servers"] /\ SetTop(f)
    BY <1>8 DEF ServerFails
  <2>2. /\ IsFrame(f) /\ f.qname = Top.qname /\ f.qtype = Top.qtype /\ f.ret = Top.ret
        /\ f.auth = Top.auth /\ f.nameservers = Top.nameservers /\ f.ips = Top.ips
        /\ f.at = "servers"
    BY <1>2, <2>1 DEF IsFrame
  <2>3. CallsTrue'
    BY <1>3, <2>1, <2>2
  <2> QED
    BY <1>1, <2>3 DEF TruthInv, DenialsTrue
<1> QED
  BY <1>5, <1>6, <1>7, <1>8

(***************************************************************************)
(* A reply comes in.  What the servers of a zone that is not misconfigured *)
(* say is true; what others say is kept only at or below their own zone,   *)
(* and denied only for a name that is.                                     *)
(***************************************************************************)
LEMMA Heard ==
  ASSUME TruthInv, At("wait"), NEW reply \in Replies(Top.ip, Top.qname, Top.qtype)
  PROVE  /\ stack # <<>> /\ CallsTrue /\ IsFrame(Top) /\ FrameTrue(Top) /\ Served(Top) /\ Top.at = "wait"
         /\ SaneReply(reply)
         /\ ~InMuddled(Top.auth) => TrueReply(reply, Top.qname, Top.qtype)
         /\ ~InMuddled(Top.qname) => ~InMuddled(Top.auth)
<1>1. stack # <<>> /\ Top.at = "wait" /\ CallsTrue
  BY DEF At, TruthInv
<1>2. IsFrame(Top) /\ FrameTrue(Top) /\ Served(Top)
  BY <1>1, TopTrue DEF FrameTrue
<1>3. PICK n, a, type, ip : n = Top.qname /\ a = Top.auth /\ type = Top.qtype /\ ip = Top.ip
  OBVIOUS
<1>4. n \in Name /\ a \in Chops(n) /\ (~InMuddled(a) => Sound(ip))
  BY <1>1, <1>2, <1>3 DEF FrameTrue, Served, DottedEndsOn
<1>5. SaneReply(reply) /\ (Sound(ip) => TrueReply(reply, n, type))
  BY <1>3, <1>4, RepliesTrue
<1>6. ~InMuddled(n) => ~InMuddled(a)
  BY <1>4, AboveUnmuddled
<1> QED
  BY <1>1, <1>2, <1>3, <1>4, <1>5, <1>6

LEMMA ReapTrue ==
  ASSUME TruthInv, At("wait"), NEW reply \in Replies(Top.ip, Top.qname, Top.qtype), Reap(reply)
  PROVE  CacheTrue(cache')
<1>1. PICK ok, a : ok = Acceptable(reply) /\ a = Top.auth
  OBVIOUS
<1>2. PICK new : new = [k \in {Key(rr.name, rr.type) : rr \in ok} |->
                          {rr.to : rr \in {x \in ok : Key(x.name, x.type) = k}}]
  OBVIOUS
<1>3. ASSUME NEW rr \in ok
      PROVE  /\ rr.name \in Name /\ (rr.type \in {"NS", "CNAME"} => rr.to \in Name)
             /\ ~InMuddled(rr.name) => rr.to \in Truth(rr.name, rr.type)
  <2>1. rr \in reply.rrs /\ a \in Chops(rr.name)
    BY <1>1 DEF Acceptable, DottedEndsOn
  <2>2. rr.name \in Name /\ (rr.type \in {"NS", "CNAME"} => rr.to \in Name)
    BY <2>1, Heard DEF SaneReply
  <2>3. ~InMuddled(rr.name) => ~InMuddled(a)
    BY <2>1, <2>2, AboveUnmuddled
  <2>4. ~InMuddled(a) => rr.to \in Truth(rr.name, rr.type)
    BY <1>1, <2>1, Heard DEF TrueReply
  <2> QED
    BY <2>2, <2>3, <2>4
<1>4. ASSUME NEW k \in DOMAIN new
      PROVE  MayHold(k, new[k])
  <2>1. ASSUME NEW x \in new[k]
        PROVE  /\ k.type \in {"NS", "CNAME"} => x \in Name
               /\ ~InMuddled(k.name) => x \in Truth(k.name, k.type)
    <3>1. PICK rr \in ok : Key(rr.name, rr.type) = k /\ x = rr.to
      BY <1>2
    <3>2. k.name = rr.name /\ k.type = rr.type
      BY <3>1, KeyFields
    <3> QED
      BY <1>3, <3>1, <3>2
  <2> QED
    BY <2>1 DEF MayHold
<1>5. cache' = ReplaceAll(cache, new, TTL, reply.aa)
  BY <1>1, <1>2, Zenon DEF Reap
<1>6. CacheTrue(ReplaceAll(cache, new, TTL, reply.aa))
  BY <1>4, ReplaceAllTrue DEF TruthInv
<1> QED
  BY <1>5, <1>6

DeniedType(reply) == IF reply.rcode = "NXDomain" THEN "" ELSE Top.qtype
Denied(reply, type) ==
  {[name |-> Top.qname, type |-> type, soa |-> rr.name, left |-> TTL] :
     rr \in NoName(reply) \cup NoData(reply)}
LEMMA DenyTrue ==
  ASSUME TruthInv, At("wait"), NEW reply \in Replies(Top.ip, Top.qname, Top.qtype), Deny(reply)
  PROVE  DenialsTrue'
<1>1. negcache' =
        IF Denied(reply, DeniedType(reply)) = {} THEN negcache
        ELSE {e \in negcache : e.name # Top.qname \/ e.type # DeniedType(reply)}
               \cup {CHOOSE e \in Denied(reply, DeniedType(reply)) : TRUE}
  BY DEF Deny, Denied, DeniedType
<1>2. PICK type, new :
        /\ type = DeniedType(reply)
        /\ new = Denied(reply, type)
        /\ \A e \in negcache' : e \in negcache \/ (new # {} /\ e = CHOOSE d \in new : TRUE)
  BY <1>1
<1>3. ASSUME NEW e \in new
      PROVE  DenialTrue(e)
  <2>1. PICK rr \in NoName(reply) \cup NoData(reply) :
          e = [name |-> Top.qname, type |-> type, soa |-> rr.name, left |-> TTL]
    BY <1>2 DEF Denied
  <2>2. {"name", "type"} \subseteq DOMAIN e /\ e.name = Top.qname /\ e.type = type
    BY <2>1
  <2>3. rr \in In(reply, "authority", "SOA")
    BY DEF NoName, NoData, SOAs
  <2>4. Top.qtype # ""
    BY Heard DEF FrameTrue
  <2>5. ASSUME ~InMuddled(Top.qname)
        PROVE  /\ Truth(Top.qname, Top.qtype) = {}
               /\ reply.rcode = "NXDomain" => ~NameExists(Top.qname)
    <3>1. TrueReply(reply, Top.qname, Top.qtype)
      BY <2>5, Heard
    <3> QED
      BY <2>3, <3>1 DEF TrueReply
  <2>6. CASE reply.rcode = "NXDomain"
    BY <1>2, <2>2, <2>5, <2>6 DEF DenialTrue, DeniedType
  <2>7. CASE reply.rcode # "NXDomain"
    BY <1>2, <2>2, <2>4, <2>5, <2>7 DEF DenialTrue, DeniedType
  <2> QED
    BY <2>6, <2>7
<1>4. new # {} => (CHOOSE e \in new : TRUE) \in new
  OBVIOUS
<1>5. \A e \in negcache' : e \in negcache \/ e \in new
  BY <1>2, <1>4
<1> QED
  BY <1>3, <1>5 DEF TruthInv, DenialsTrue

LEMMA ConcludeTrue ==
  ASSUME TruthInv, At("wait"), NEW reply \in Replies(Top.ip, Top.qname, Top.qtype), Conclude(reply)
  PROVE  CallsTrue'
<1>1. /\ stack # <<>> /\ CallsTrue /\ IsFrame(Top) /\ FrameTrue(Top) /\ Served(Top) /\ Top.at = "wait"
      /\ SaneReply(reply)
      /\ ~InMuddled(Top.auth) => TrueReply(reply, Top.qname, Top.qtype)
      /\ ~InMuddled(Top.qname) => ~InMuddled(Top.auth)
  BY Heard
<1>2. /\ \A rr \in Top.ret : rr.type \in {"CNAME", "SOA"}
      /\ \A rr \in Targets(reply) :
           rr.type = "CNAME" /\ rr \in reply.rrs /\ rr.name = Top.qname
      /\ \A rr \in NoName(reply) \cup NoData(reply) : rr.type = "SOA"
      /\ \A rr \in Wanted(reply) : rr \in reply.rrs /\ rr.name = Top.qname /\ rr.type = Top.qtype
  BY <1>1 DEF FrameTrue, Targets, NoName, NoData, SOAs, In, Wanted
<1>3. Wanted(reply) = {} => \A rr \in Ret(reply) : rr.type \in {"CNAME", "SOA"}
  BY <1>2 DEF Ret
<1>4. Fit(Ret(reply))
  <2>1. SUFFICES ASSUME Top.qtype = "A", Independent(Top.qname), NEW rr \in Ret(reply), rr.type = "A"
                 PROVE  Sound(rr.to)
    BY DEF Fit
  <2>2. rr \in Wanted(reply)
    BY <1>2, <2>1 DEF Ret
  <2>3. TrueReply(reply, Top.qname, Top.qtype)
    BY <1>1, <2>1 DEF Independent
  <2>4. rr.to \in Truth(Top.qname, "A")
    BY <1>2, <2>1, <2>2, <2>3 DEF TrueReply
  <2> QED
    BY <2>1, <2>4 DEF Independent
<1>5. CASE \E rcode : Return(Top, rcode, Ret(reply))
  BY <1>1, <1>4, <1>5, ReturnTrue
<1>6. CASE Wanted(reply) = {} /\ \E rr \in Targets(reply) : Redirect(Top, rr.to, Ret(reply))
  <2>1. PICK rr \in Targets(reply) : Redirect(Top, rr.to, Ret(reply))
    BY <1>6
  <2>2. rr.to \in Name
    BY <1>1, <1>2 DEF SaneReply
  <2>3. ASSUME Independent(Top.qname)
        PROVE  FALSE
    <3>1. TrueReply(reply, Top.qname, Top.qtype)
      BY <1>1, <2>3 DEF Independent
    <3>2. rr.to \in Truth(Top.qname, "CNAME")
      BY <1>2, <3>1 DEF TrueReply
    <3> QED
      BY <2>3, <3>2 DEF Independent
  <2>4. PICK to, ret : to = rr.to /\ ret = Ret(reply) /\ Redirect(Top, to, ret)
    BY <2>1
  <2> QED
    BY <1>1, <1>3, <1>6, <2>2, <2>3, <2>4, RedirectTrue
<1>7. CASE /\ Wanted(reply) = {}
           /\ \E rr \in Deeper(reply) :
                SetTop([Top EXCEPT !.at = "servers", !.auth = rr.name, !.ret = Ret(reply),
                                   !.nameservers = {x.to : x \in NSs(reply)}])
  <2>1. PICK rr, f :
          /\ rr \in Deeper(reply)
          /\ f = [Top EXCEPT !.at = "servers", !.auth = rr.name, !.ret = Ret(reply),
                             !.nameservers = {x.to : x \in NSs(reply)}]
          /\ SetTop(f)
    BY <1>7
  <2>2. /\ IsFrame(f) /\ f.at = "servers" /\ f.auth = rr.name /\ f.ret = Ret(reply)
        /\ f.nameservers = {x.to : x \in NSs(reply)} /\ f.qname = Top.qname /\ f.qtype = Top.qtype
    BY <1>1, <2>1 DEF IsFrame
  <2>3. /\ rr \in NSs(reply) /\ Len(rr.name) > Len(Top.auth)
        /\ \A x \in NSs(reply) : /\ x \in In(reply, "authority", "NS") /\ x \in reply.rrs /\ x.type = "NS"
                                 /\ DottedEndsOn(Top.qname, x.name)
    BY <2>1 DEF Deeper, NSs, In, MoreSpecificThan
  <2>4. f.nameservers \subseteq Name
    BY <1>1, <2>2, <2>3 DEF SaneReply
  <2>5. ASSUME ~InMuddled(rr.name), NEW ns \in f.nameservers
        PROVE  Independent(ns)
    <3>1. PICK n, a, b : n = Top.qname /\ a = Top.auth /\ b = rr.name
      OBVIOUS
    <3>2. n \in Name /\ a \in Chops(n) /\ b \in Chops(n) /\ b \in Name
      BY <1>1, <2>3, <3>1, ChopsNames DEF FrameTrue, Served, DottedEndsOn
    <3>3. Len(a) \in Nat /\ Len(b) \in Nat /\ Len(b) > Len(a)
      BY <2>3, <3>1, <3>2, ChopsNames, NameLen
    <3>4. a \in Chops(b)
      BY <3>2, <3>3, ChopsOrder
    <3>5. ~InMuddled(a)
      BY <2>5, <3>1, <3>2, <3>4, AboveUnmuddled
    <3>6. TrueReply(reply, Top.qname, Top.qtype)
      BY <1>1, <3>1, <3>5
    <3>7. PICK x \in NSs(reply) : ns = x.to
      BY <2>2
    <3>8. x.name = b /\ ns \in Truth(x.name, "NS")
      BY <2>3, <3>1, <3>6, <3>7 DEF TrueReply
    <3> QED
      BY <2>5, <3>1, <3>2, <3>8, TrueServers
  <2>6. Served(f)
    BY <2>2, <2>3, <2>4, <2>5 DEF Served
  <2>7. FrameTrue(f)
    BY <1>1, <1>3, <1>7, <2>2, <2>6 DEF FrameTrue
  <2> QED
    BY <1>1, <2>1, <2>2, <2>7, StaysTrue
<1>8. CASE Wanted(reply) = {} /\ SetTop([NextAddress(Top, Top.ips) EXCEPT !.ret = Ret(reply)])
  <2>1. PICK f : f = [NextAddress(Top, Top.ips) EXCEPT !.ret = Ret(reply)] /\ SetTop(f)
    BY <1>8
  <2>2. /\ IsFrame(f) /\ f.qname = Top.qname /\ f.qtype = Top.qtype /\ f.ret = Ret(reply)
        /\ f.auth = Top.auth /\ f.nameservers = Top.nameservers /\ f.ips = Top.ips
        /\ f.at \in {"servers", "addresses"}
    BY <1>1, <2>1 DEF NextAddress, IsFrame
  <2>3. Served(f)
    BY <1>1, <2>2 DEF Served
  <2>4. FrameTrue(f)
    BY <1>1, <1>3, <1>8, <2>2, <2>3 DEF FrameTrue
  <2> QED
    BY <1>1, <2>1, <2>2, <2>4, StaysTrue
<1> QED
  BY <1>5, <1>6, <1>7, <1>8, Zenon DEF Conclude

LEMMA TruthInit ==
  ASSUME Init
  PROVE  TruthInv
<1>1. CallsTrue
  BY EmptySeq DEF Init, CallsTrue, Frames, IsStack, StackTrue
<1>2. CacheTrue([k \in {} |-> 0])
  BY DEF CacheTrue
<1>3. CacheTrue(cache)
  BY <1>2, PrimeHintsTrue DEF Init
<1> QED
  BY <1>1, <1>3 DEF Init, TruthInv, DenialsTrue

LEMMA TruthStep ==
  ASSUME TruthInv, [Next]_vars
  PROVE  TruthInv'
<1>1. ASSUME NEW q \in Questions, BeginResolve(q)
      PROVE  TruthInv'
  <2>1. PICK f : f = Frame(q.qname, q.qtype, 0, {}) /\ stack' = <<f>>
    BY <1>1 DEF BeginResolve
  <2>2. IsFrame(f) /\ f.at = "resolve" /\ f.qname = q.qname /\ f.qtype = q.qtype /\ f.ret = {}
    BY <2>1, FrameIsFrame DEF Frame
  <2>3. FrameTrue(f)
    BY <2>2, ZonesAssumption DEF FrameTrue
  <2>4. PICK s : s = <<f>>
    OBVIOUS
  <2>5. s \in Seq({f}) /\ Len(s) = 1 /\ s[1] = f
    BY <2>4
  <2>6. \A i \in 1 .. Len(s) : i = 1 /\ s[i] = f
    BY <2>5
  <2>7. IsStack(s) /\ StackTrue(s)
    BY <2>2, <2>3, <2>5, <2>6, Zenon DEF IsStack, StackTrue
  <2>8. CallsTrue'
    BY <2>1, <2>4, <2>7 DEF CallsTrue, Frames
  <2> QED
    BY <1>1, <2>8 DEF BeginResolve, TruthInv, DenialsTrue
<1>2. ASSUME NEW time \in 1 .. TTL, Tick(time)
      PROVE  TruthInv'
  <2>1. stack' = stack /\ cache' = Aged(cache, time)
        /\ negcache' = {[e EXCEPT !.left = Older(@, time)] : e \in negcache}
    BY <1>2 DEF Tick
  <2>2. CacheTrue(Aged(cache, time))
    BY AgedTrue DEF TruthInv
  <2>3. ASSUME NEW e \in negcache'
        PROVE  DenialTrue(e)
    <3>1. PICK o \in negcache : e = [o EXCEPT !.left = Older(@, time)]
      BY <2>1
    <3>2. DenialTrue(o)
      BY DEF TruthInv, DenialsTrue
    <3>3. {"name", "type"} \subseteq DOMAIN e /\ e.name = o.name /\ e.type = o.type
      BY <3>1, <3>2 DEF DenialTrue
    <3> QED
      BY <3>2, <3>3 DEF DenialTrue
  <2> QED
    BY <2>1, <2>2, <2>3 DEF TruthInv, DenialsTrue, CallsTrue, Frames
<1>3. CASE Receive
  <2>1. PICK reply \in Replies(Top.ip, Top.qname, Top.qtype) :
          Reap(reply) /\ Deny(reply) /\ Conclude(reply)
    BY <1>3 DEF Receive
  <2>2. At("wait")
    BY <1>3 DEF Receive
  <2> QED
    BY <2>1, <2>2, ReapTrue, DenyTrue, ConcludeTrue DEF TruthInv
<1>4. CASE Evict
  <2>1. stack' = stack /\ \A e \in negcache' : e \in negcache
    BY <1>4 DEF Evict
  <2>2. \/ cache' = cache
        \/ \E k \in DOMAIN cache : cache' = [x \in DOMAIN cache \ {k} |-> cache[x]]
    BY <1>4 DEF Evict
  <2>3. CacheTrue(cache')
    BY <2>2 DEF TruthInv, CacheTrue
  <2> QED
    BY <2>1, <2>3 DEF TruthInv, DenialsTrue, CallsTrue, Frames
<1>5. CASE UNCHANGED vars
  BY <1>5 DEF vars, TruthInv, DenialsTrue, CallsTrue, Frames
<1> QED
  BY <1>1, <1>2, <1>3, <1>4, <1>5, CacheSteps, LookupSteps, ServerSteps, AddressSteps DEF Next, Step

(***************************************************************************)
(* What misconfigured servers say stays in their zone: neither cache holds *)
(* anything untrue about another name (the acceptance test and the         *)
(* negative caching of SyncRes::doResolveAt), for every tree of zones, and *)
(* whatever those servers answer.                                          *)
(***************************************************************************)
THEOREM OthersUnaffectedSafe == Spec => []OthersUnaffected
<1>1. TruthInv => OthersUnaffected
  BY DEF TruthInv, CacheTrue, EntryTrue, MayHold, DenialsTrue, DenialTrue, OthersUnaffected
<1> QED
  BY <1>1, TruthInit, TruthStep, PTL DEF Spec
-----------------------------------------------------------------------------
(***************************************************************************)
(* The answers.  The names a question leads to are what the recursive      *)
(* function Trail says they are: a shortest prefix of it that does not     *)
(* exist would be a longer one that does.                                  *)
(***************************************************************************)
IsTrail(t, q, n) == t = [i \in 0 .. n |-> IF i = 0 THEN q.qname ELSE After(t[i - 1], q.qtype)]

LEMMA TrailGrows ==
  ASSUME NEW q, NEW n \in Nat, n # 0, \E t : IsTrail(t, q, n - 1)
  PROVE  \E t : IsTrail(t, q, n)
<1>1. PICK t : IsTrail(t, q, n - 1)
  OBVIOUS
<1>2. PICK u : u = [i \in 0 .. n |-> IF i = n THEN After(t[n - 1], q.qtype) ELSE t[i]]
  OBVIOUS
<1>3. \A i \in 0 .. n - 1 : u[i] = t[i] /\ t[i] = IF i = 0 THEN q.qname ELSE After(t[i - 1], q.qtype)
  BY <1>1, <1>2 DEF IsTrail
<1>4. u[n] = After(t[n - 1], q.qtype) /\ u[n - 1] = t[n - 1]
  BY <1>2, <1>3
<1>5. ASSUME NEW i \in 0 .. n
      PROVE  u[i] = IF i = 0 THEN q.qname ELSE After(u[i - 1], q.qtype)
  <2>1. CASE i = n
    BY <1>4, <2>1
  <2>2. CASE i # n
    <3>1. i \in 0 .. n - 1 /\ (i # 0 => i - 1 \in 0 .. n - 1)
      BY <2>2
    <3> QED
      BY <1>3, <3>1
  <2> QED
    BY <2>1, <2>2
<1>6. IsTrail(u, q, n)
  BY <1>2, <1>5 DEF IsTrail
<1> QED
  BY <1>6

LEMMA TrailIs ==
  ASSUME NEW q
  PROVE  IsTrail(Trail(q), q, MaxDepth)
<1>1. PICK T : T = {n \in Nat : ~\E t : IsTrail(t, q, n)}
  OBVIOUS
<1>2. T = {}
  <2>1. SUFFICES ASSUME T # {} PROVE FALSE
    OBVIOUS
  <2>2. PICK n \in T : \A m \in T : n <= m
    BY <1>1, <2>1, LeastNumber
  <2>3. n \in Nat /\ ~\E t : IsTrail(t, q, n)
    BY <1>1
  <2>4. n # 0
    <3>1. PICK t : t = [i \in 0 .. 0 |-> q.qname]
      OBVIOUS
    <3>2. IsTrail(t, q, 0)
      BY <3>1 DEF IsTrail
    <3> QED
      BY <2>3, <3>2
  <2>5. n - 1 \in Nat /\ n - 1 \notin T
    BY <2>2, <2>3, <2>4
  <2>6. \E t : IsTrail(t, q, n - 1)
    BY <1>1, <2>5
  <2> QED
    BY <2>3, <2>4, <2>6, TrailGrows
<1>3. \E t : IsTrail(t, q, MaxDepth)
  BY <1>1, <1>2, SoundAssumption
<1> QED
  BY <1>3, Zenon DEF Trail, IsTrail

LEMMA TrailSteps ==
  ASSUME NEW q
  PROVE  /\ Trail(q)[0] = q.qname
         /\ \A i \in 1 .. MaxDepth : Trail(q)[i] = After(Trail(q)[i - 1], q.qtype)
<1>1. PICK t : t = Trail(q)
  OBVIOUS
<1>2. t = [i \in 0 .. MaxDepth |-> IF i = 0 THEN q.qname ELSE After(t[i - 1], q.qtype)]
  BY <1>1, TrailIs DEF IsTrail
<1>3. t[0] = q.qname /\ \A i \in 1 .. MaxDepth : t[i] = After(t[i - 1], q.qtype)
  BY <1>2, SoundAssumption
<1> QED
  BY <1>1, <1>3

(* Where a name is no alias the trail ends. *)
LEMMA TrailStays ==
  ASSUME NEW q, NEW d \in 0 .. MaxDepth, NEW n, n = Trail(q)[d], After(n, q.qtype) = n
  PROVE  Trail(q)[MaxDepth] = n
<1>1. PICK t : t = Trail(q)
  OBVIOUS
<1>2. PICK T : T = {i \in Nat : d <= i /\ i <= MaxDepth /\ t[i] # n}
  OBVIOUS
<1>3. T = {}
  <2>1. SUFFICES ASSUME T # {} PROVE FALSE
    OBVIOUS
  <2>2. PICK i \in T : \A m \in T : i <= m
    BY <1>2, <2>1, LeastNumber
  <2>3. i \in Nat /\ d <= i /\ i <= MaxDepth /\ t[i] # n /\ t[d] = n
    BY <1>1, <1>2
  <2>4. i - 1 \in Nat /\ d <= i - 1 /\ i \in 1 .. MaxDepth
    BY <2>3, SoundAssumption
  <2>5. i - 1 \notin T
    BY <2>2, <2>3
  <2>6. t[i - 1] = n
    BY <1>2, <2>3, <2>4, <2>5, SoundAssumption
  <2>7. t[i] = After(t[i - 1], q.qtype)
    BY <1>1, <2>4, TrailSteps
  <2> QED
    BY <2>3, <2>6, <2>7
<1> QED
  BY <1>1, <1>2, <1>3, SoundAssumption

(* A name that has data exists; an alias has one target and nothing else. *)
LEMMA TruthExists ==
  ASSUME NEW n \in Name, NEW type, Truth(n, type) # {}
  PROVE  NameExists(n)
<1>1. PICK x : x \in Truth(n, type)
  OBVIOUS
<1>2. PICK z \in Apexes : Key(n, type) \in DOMAIN ZoneData[z].data
  BY <1>1, TruthIsData
<1>3. n \in Chops(Key(n, type).name)
  BY ChopsNames, KeyFields
<1> QED
  BY <1>2, <1>3 DEF NameExists

LEMMA AliasAlone ==
  ASSUME NEW n \in Name, ~InMuddled(n), NEW to \in Truth(n, "CNAME")
  PROVE  /\ Truth(n, "CNAME") = {to}
         /\ \A type : type # "CNAME" => Truth(n, type) = {} /\ After(n, type) = to
<1>1. PICK z, k : z \in Apexes /\ k = Key(n, "CNAME") /\ k \in DOMAIN ZoneData[z].data
  BY TruthIsData
<1>2. k.name = n
  BY <1>1, KeyFields
<1>3. \A x, y \in Truth(n, "CNAME") : x = y
  BY <1>1, <1>2, SoundAssumption
<1>4. Truth(n, "CNAME") = {to}
  BY <1>3
<1>5. ASSUME NEW type, type # "CNAME"
      PROVE  Truth(n, type) = {}
  <2>1. SUFFICES ASSUME NEW x \in Truth(n, type)
                 PROVE  FALSE
    OBVIOUS
  <2>2. PICK y, m : y \in Apexes /\ m = Key(n, type) /\ m \in DOMAIN ZoneData[y].data
    BY <2>1, TruthIsData
  <2>3. m.name = n /\ m.type = type
    BY <2>2, KeyFields
  <2>4. Truth(n, type) = {}
    BY <1>4, <1>5, <2>2, <2>3, SoundAssumption
  <2> QED
    BY <2>1, <2>4
<1>6. ASSUME NEW type, type # "CNAME"
      PROVE  After(n, type) = to
  <2>1. PICK S : S = Truth(n, "CNAME")
    OBVIOUS
  <2>2. S = {to} /\ After(n, type) = IF S # {} /\ type # "CNAME" THEN CHOOSE x \in S : TRUE ELSE n
    BY <1>4, <2>1 DEF After
  <2>3. (CHOOSE x \in S : TRUE) \in S
    BY <2>2
  <2> QED
    BY <1>6, <2>2, <2>3
<1> QED
  BY <1>4, <1>5, <1>6

LEMMA NoAlias ==
  ASSUME NEW n, NEW type, type = "CNAME" \/ Truth(n, "CNAME") = {}
  PROVE  After(n, type) = n
BY DEF After

-----------------------------------------------------------------------------
(***************************************************************************)
(* The record cache holds all the records of a key or none, and they end   *)
(* together.                                                               *)
(***************************************************************************)
MayFill(k, contents) == ~InMuddled(k.name) => contents = Truth(k.name, k.type)
EntryWhole(k, e) ==
  ~InMuddled(k.name) =>
     /\ DOMAIN e.recs = {} \/ DOMAIN e.recs = Truth(k.name, k.type)
     /\ \A x, y \in DOMAIN e.recs : e.recs[x] = e.recs[y]
CacheWhole(c) == \A k \in DOMAIN c : EntryWhole(k, c[k])

LEMMA ReplaceWhole ==
  ASSUME NEW k, NEW stored, EntryTrue(k, stored), EntryWhole(k, stored), NEW n, NEW type,
         NEW contents, NEW ttl, NEW auth, MayFill(k, contents)
  PROVE  EntryWhole(k, Replace(stored, n, type, contents, ttl, auth))
<1>1. PICK e : e = [stored EXCEPT !.recs = IF type \in {"SOA", "CNAME"} THEN NoRecords ELSE @]
  OBVIOUS
<1>2. PICK r : r = Replace(stored, n, type, contents, ttl, auth)
  OBVIOUS
<1>3. DOMAIN e.recs = {} \/ e.recs = stored.recs
  BY <1>1 DEF EntryTrue, NoRecords
<1>4. EntryWhole(k, e)
  BY <1>3 DEF EntryWhole
<1>5. \/ r = stored
      \/ r = [auth |-> TRUE, recs |-> [x \in contents |-> ttl]]
      \/ r = [auth |-> auth, recs |-> Merge(e.recs, type, contents, ttl, auth)]
  BY <1>1, <1>2 DEF Replace
<1>6. CASE r = [auth |-> TRUE, recs |-> [x \in contents |-> ttl]]
  <2>1. r.recs = [x \in contents |-> ttl]
    BY <1>6
  <2>2. DOMAIN r.recs = contents /\ \A x \in contents : r.recs[x] = ttl
    BY <2>1
  <2> QED
    BY <1>2, <2>2 DEF EntryWhole, MayFill
<1>7. CASE r = [auth |-> auth, recs |-> Merge(e.recs, type, contents, ttl, auth)]
  <2>1. SUFFICES ASSUME ~InMuddled(k.name)
                 PROVE  EntryWhole(k, r)
    BY <1>2 DEF EntryWhole
  <2>2. PICK old, m, S : old = e.recs /\ m = Merge(old, type, contents, ttl, auth) /\ S = DOMAIN old
    OBVIOUS
  <2>3. r.recs = m
    BY <1>7, <2>2
  <2>4. S = {} \/ S = contents
    BY <1>4, <2>1, <2>2 DEF EntryWhole, MayFill
  <2>5. DOMAIN m = contents /\ contents = Truth(k.name, k.type)
    BY <2>1, <2>2, <2>4 DEF Merge, MayFill
  <2>6. ASSUME NEW x \in contents, NEW y \in contents
        PROVE  m[x] = m[y]
    <3>1. CASE S = {}
      BY <2>2, <2>4, <3>1 DEF Merge
    <3>2. CASE S = contents
      <4>1. old[x] = old[y]
        BY <1>4, <2>1, <2>2, <2>6, <3>2 DEF EntryWhole
      <4>2. m[x] = Ttd(old[x], type, ttl, auth) /\ m[y] = Ttd(old[y], type, ttl, auth)
        BY <2>2, <2>6, <3>2 DEF Merge
      <4> QED
        BY <4>1, <4>2
    <3> QED
      BY <2>4, <3>1, <3>2
  <2> QED
    BY <2>3, <2>5, <2>6 DEF EntryWhole
<1> QED
  BY <1>2, <1>5, <1>6, <1>7

LEMMA ReplaceAllWhole ==
  ASSUME NEW c, CacheTrue(c), CacheWhole(c), NEW new, \A k \in DOMAIN new : MayFill(k, new[k]),
         NEW ttl, NEW auth
  PROVE  CacheWhole(ReplaceAll(c, new, ttl, auth))
<1>1. ASSUME NEW k \in DOMAIN new
      PROVE  EntryWhole(k, ReplaceIn(c, k, new[k], ttl, auth))
  <2>1. PICK stored : stored = IF k \in DOMAIN c THEN c[k] ELSE [auth |-> auth, recs |-> NoRecords]
    OBVIOUS
  <2>2. EntryTrue(k, stored) /\ EntryWhole(k, stored)
    <3>1. CASE k \in DOMAIN c
      BY <2>1, <3>1 DEF CacheTrue, CacheWhole
    <3>2. CASE k \notin DOMAIN c
      <4>1. {"auth", "recs"} \subseteq DOMAIN stored /\ DOMAIN stored.recs = {}
        BY <2>1, <3>2 DEF NoRecords
      <4> QED
        BY <4>1 DEF EntryTrue, EntryWhole, MayHold
    <3> QED
      BY <3>1, <3>2
  <2>3. EntryWhole(k, Replace(stored, k.name, k.type, new[k], ttl, auth))
    BY <2>2, ReplaceWhole
  <2> QED
    BY <2>1, <2>3, Zenon DEF ReplaceIn
<1> QED
  BY <1>1, Zenon DEF CacheWhole, ReplaceAll

(* So what a lookup finds is everything, or nothing. *)
LEMMA GetWhole ==
  ASSUME NEW c, CacheWhole(c), NEW n, ~InMuddled(n), NEW type, Get(c, n, type) # {}
  PROVE  Get(c, n, type) = Truth(n, type)
<1>1. PICK k, e : k = Key(n, type) /\ e = c[k]
  OBVIOUS
<1>2. k \in DOMAIN c /\ Get(c, n, type) = {x \in DOMAIN e.recs : e.recs[x] > 0}
  BY <1>1 DEF Get, Live
<1>3. k.name = n /\ k.type = type
  BY <1>1, KeyFields
<1>4. EntryWhole(k, e)
  BY <1>1, <1>2 DEF CacheWhole
<1> QED
  BY <1>2, <1>3, <1>4 DEF EntryWhole

LEMMA PrimeHintsWhole ==
  ASSUME NEW c, CacheTrue(c), CacheWhole(c)
  PROVE  CacheWhole(PrimeHints(c))
<1>1. PICK new :
        new = [k \in {Key(<<>>, "NS")} \cup {Key(n, "A") : n \in Truth(<<>>, "NS")} |->
                 Truth(k.name, k.type)]
  OBVIOUS
<1>2. \A k \in DOMAIN new : MayFill(k, new[k])
  BY <1>1 DEF MayFill
<1>3. CacheWhole(ReplaceAll(c, new, TTL, TRUE))
  BY <1>2, ReplaceAllWhole
<1> QED
  BY <1>1, <1>3 DEF PrimeHints

LEMMA AgedWhole ==
  ASSUME NEW c, CacheTrue(c), CacheWhole(c), NEW time
  PROVE  CacheWhole(Aged(c, time))
<1>1. ASSUME NEW k \in DOMAIN c
      PROVE  EntryWhole(k, [c[k] EXCEPT !.recs = [x \in DOMAIN @ |-> Older(@[x], time)]])
  <2>1. PICK e, r : e = c[k] /\ r = [e EXCEPT !.recs = [x \in DOMAIN @ |-> Older(@[x], time)]]
    OBVIOUS
  <2>2. EntryTrue(k, e) /\ EntryWhole(k, e)
    BY <2>1 DEF CacheTrue, CacheWhole
  <2>3. r.recs = [x \in DOMAIN e.recs |-> Older(e.recs[x], time)]
    BY <2>1, <2>2 DEF EntryTrue
  <2>4. DOMAIN r.recs = DOMAIN e.recs /\ \A x \in DOMAIN e.recs : r.recs[x] = Older(e.recs[x], time)
    BY <2>3
  <2>5. EntryWhole(k, r)
    BY <2>2, <2>4 DEF EntryWhole
  <2> QED
    BY <2>1, <2>5
<1> QED
  BY <1>1, Zenon DEF CacheWhole, Aged

LEMMA DoAgeCacheWhole ==
  ASSUME NEW c, CacheTrue(c), CacheWhole(c), NEW k, NEW time
  PROVE  CacheWhole(DoAgeCache(c, k, time))
<1>1. CASE DoAgeCache(c, k, time) = c
  BY <1>1
<1>2. CASE k \in DOMAIN c /\ DoAgeCache(c, k, time) = [c EXCEPT ![k].recs = [x \in DOMAIN @ |-> time]]
  <2>1. PICK e, r : e = c[k] /\ r = [e EXCEPT !.recs = [x \in DOMAIN @ |-> time]]
    OBVIOUS
  <2>2. EntryTrue(k, e) /\ EntryWhole(k, e)
    BY <1>2, <2>1 DEF CacheTrue, CacheWhole
  <2>3. r.recs = [x \in DOMAIN e.recs |-> time]
    BY <2>1, <2>2 DEF EntryTrue
  <2>4. DOMAIN r.recs = DOMAIN e.recs /\ \A x \in DOMAIN e.recs : r.recs[x] = time
    BY <2>3
  <2>5. EntryWhole(k, r)
    BY <2>2, <2>4 DEF EntryWhole
  <2>6. DoAgeCache(c, k, time) = [c EXCEPT ![k] = r]
    BY <1>2, <2>1
  <2> QED
    BY <2>5, <2>6 DEF CacheWhole
<1> QED
  BY <1>1, <1>2 DEF DoAgeCache

-----------------------------------------------------------------------------
(***************************************************************************)
(* What a server that is not misconfigured says of a name is all there is, *)
(* and one of four things: where the alias leads, the records, that there  *)
(* are none, or that others know.                                          *)
(***************************************************************************)
Complete(S) ==
  \A rr \in S : \A x \in Truth(rr.name, rr.type) :
    \E o \in S : o.name = rr.name /\ o.type = rr.type /\ o.to = x

AliasReply(reply, n, type) ==
  /\ type # "CNAME" /\ Truth(n, "CNAME") # {}
  /\ reply.rrs = RRs("answer", n, "CNAME", Truth(n, "CNAME"))
DataReply(reply, n, type) ==
  /\ type = "CNAME" \/ Truth(n, "CNAME") = {}
  /\ Truth(n, type) # {}
  /\ reply.rrs = RRs("answer", n, type, Truth(n, type))
DenialReply(reply, n, type) ==
  /\ Truth(n, type) = {} /\ Truth(n, "CNAME") = {}
  /\ reply.rcode = IF NameExists(n) THEN "NoError" ELSE "NXDomain"
  /\ \A rr \in reply.rrs : rr.place = "authority" /\ rr.type = "SOA"
ElsewhereReply(reply, n) ==
  /\ reply.rcode # "NXDomain"
  /\ \A rr \in reply.rrs : rr.place # "answer" /\ rr.type # "SOA"
  /\ reply.rcode = "NoError" =>
       \E rr \in In(reply, "authority", "NS") : DottedEndsOn(n, rr.name)
KnownReply(reply, n, type) ==
  \/ AliasReply(reply, n, type)
  \/ DataReply(reply, n, type)
  \/ DenialReply(reply, n, type)
  \/ ElsewhereReply(reply, n)

LEMMA RRsHold ==
  ASSUME NEW place, NEW n, NEW type, NEW S, NEW x \in S
  PROVE  \E rr \in RRs(place, n, type, S) :
           rr.place = place /\ rr.name = n /\ rr.type = type /\ rr.to = x
<1>1. PICK rr : rr = RR(place, n, type, x)
  OBVIOUS
<1>2. rr \in RRs(place, n, type, S)
  BY <1>1 DEF RRs
<1>3. rr.place = place /\ rr.name = n /\ rr.type = type /\ rr.to = x
  BY <1>1 DEF RR
<1> QED
  BY <1>2, <1>3

LEMMA RRsComplete ==
  ASSUME NEW place, NEW n, NEW type
  PROVE  Complete(RRs(place, n, type, Truth(n, type)))
<1>1. PICK S : S = RRs(place, n, type, Truth(n, type))
  OBVIOUS
<1>2. ASSUME NEW rr \in S, NEW x \in Truth(rr.name, rr.type)
      PROVE  \E o \in S : o.name = rr.name /\ o.type = rr.type /\ o.to = x
  <2>1. rr.name = n /\ rr.type = type
    BY <1>1, RRFields
  <2> QED
    BY <1>1, <2>1, RRsHold
<1> QED
  BY <1>1, <1>2 DEF Complete

LEMMA UnionComplete ==
  ASSUME NEW SS, \A S \in SS : Complete(S)
  PROVE  Complete(UNION SS)
<1>1. ASSUME NEW rr \in UNION SS, NEW x \in Truth(rr.name, rr.type)
      PROVE  \E o \in UNION SS : o.name = rr.name /\ o.type = rr.type /\ o.to = x
  <2>1. PICK S \in SS : rr \in S
    OBVIOUS
  <2>2. \E o \in S : o.name = rr.name /\ o.type = rr.type /\ o.to = x
    BY <2>1 DEF Complete
  <2> QED
    BY <2>2
<1> QED
  BY <1>1 DEF Complete

LEMMA ReferralKnown ==
  ASSUME NEW c \in Name, NEW n, DottedEndsOn(n, c)
  PROVE  /\ Complete(Referral(c).rrs)
         /\ Truth(c, "NS") # {} => ElsewhereReply(Referral(c), n)
<1>1. PICK nsset, glue, SS :
        /\ nsset = RRs("authority", c, "NS", Truth(c, "NS"))
        /\ SS = {RRs("additional", ns, "A", Truth(ns, "A")) :
                   ns \in {x \in Truth(c, "NS") : DottedEndsOn(x, c)}}
        /\ glue = UNION SS
  OBVIOUS
<1>2. Referral(c).rrs = nsset \cup glue /\ Referral(c).rcode = "NoError"
  BY <1>1 DEF Referral, Reply
<1>3. Complete(nsset \cup glue)
  <2>1. \A S \in SS : Complete(S)
    BY <1>1, RRsComplete
  <2>2. Complete(glue) /\ Complete(nsset)
    BY <1>1, <2>1, UnionComplete, RRsComplete
  <2>3. \A S \in {nsset, glue} : Complete(S)
    BY <2>2
  <2>4. UNION {nsset, glue} = nsset \cup glue
    OBVIOUS
  <2>5. Complete(UNION {nsset, glue})
    BY <2>3, UnionComplete
  <2> QED
    BY <2>4, <2>5
<1>4. ASSUME Truth(c, "NS") # {}
      PROVE  ElsewhereReply(Referral(c), n)
  <2>1. PICK x : x \in Truth(c, "NS")
    BY <1>4
  <2>2. PICK rr \in nsset : rr.place = "authority" /\ rr.name = c /\ rr.type = "NS"
    BY <1>1, <2>1, RRsHold
  <2>3. rr \in In(Referral(c), "authority", "NS") /\ DottedEndsOn(n, rr.name)
    BY <1>2, <2>2 DEF In
  <2>4. \A o \in nsset : o.place = "authority" /\ o.type = "NS"
    BY <1>1, RRFields
  <2>5. ASSUME NEW o \in glue
        PROVE  o.place = "additional" /\ o.type = "A"
    <3>1. PICK ns : o \in RRs("additional", ns, "A", Truth(ns, "A"))
      BY <1>1
    <3> QED
      BY <3>1, RRFields
  <2> QED
    BY <1>2, <2>3, <2>4, <2>5 DEF ElsewhereReply
<1> QED
  BY <1>2, <1>3, <1>4

LEMMA AnswerKnown ==
  ASSUME NEW z, NEW n, NEW type
  PROVE  Complete(Answer(z, n, type).rrs) /\ KnownReply(Answer(z, n, type), n, type)
<1>1. PICK reply : reply = Answer(z, n, type)
  OBVIOUS
<1>2. CASE type # "CNAME" /\ Truth(n, "CNAME") # {}
  <2>1. reply.rrs = RRs("answer", n, "CNAME", Truth(n, "CNAME"))
    BY <1>1, <1>2 DEF Answer, Reply
  <2>2. AliasReply(reply, n, type)
    BY <1>2, <2>1 DEF AliasReply
  <2> QED
    BY <1>1, <2>1, <2>2, RRsComplete DEF KnownReply
<1>3. CASE ~(type # "CNAME" /\ Truth(n, "CNAME") # {}) /\ Truth(n, type) # {}
  <2>1. reply.rrs = RRs("answer", n, type, Truth(n, type))
    BY <1>1, <1>3 DEF Answer, Reply
  <2>2. DataReply(reply, n, type)
    BY <1>3, <2>1 DEF DataReply
  <2> QED
    BY <1>1, <2>1, <2>2, RRsComplete DEF KnownReply
<1>4. CASE ~(type # "CNAME" /\ Truth(n, "CNAME") # {}) /\ Truth(n, type) = {}
  <2>1. /\ reply.rrs = RRs("authority", z, "SOA", Truth(z, "SOA"))
        /\ reply.rcode = IF NameExists(n) THEN "NoError" ELSE "NXDomain"
    BY <1>1, <1>4 DEF Answer, Reply
  <2>2. \A rr \in reply.rrs : rr.place = "authority" /\ rr.type = "SOA"
    BY <2>1, RRFields
  <2>3. DenialReply(reply, n, type)
    BY <1>4, <2>1, <2>2 DEF DenialReply
  <2> QED
    BY <1>1, <2>1, <2>3, RRsComplete DEF KnownReply
<1> QED
  BY <1>2, <1>3, <1>4

LEMMA HonestIsKnown ==
  ASSUME NEW ip, NEW n \in Name, NEW type, NEW reply \in HonestReplies(ip, n, type)
  PROVE  /\ Complete(reply.rrs)
         /\ ~InMuddled(n) => KnownReply(reply, n, type)
<1>1. CASE reply = UpReferral
  <2>1. reply.rrs = RRs("authority", <<>>, "NS", Truth(<<>>, "NS")) /\ reply.rcode = "NoError"
    BY <1>1 DEF UpReferral, Reply
  <2>2. Complete(reply.rrs)
    BY <2>1, RRsComplete
  <2>3. ASSUME ~InMuddled(n)
        PROVE  ElsewhereReply(reply, n)
    <3>1. <<>> \in Chops(n) /\ ~InMuddled(<<>>)
      BY <2>3, ChopsNames, AboveUnmuddled
    <3>2. PICK x : x \in Truth(<<>>, "NS")
      BY <3>1, ZonesAssumption, SoundAssumption
    <3>3. PICK rr \in reply.rrs : rr.place = "authority" /\ rr.name = <<>> /\ rr.type = "NS"
      BY <2>1, <3>2, RRsHold
    <3>4. rr \in In(reply, "authority", "NS") /\ DottedEndsOn(n, rr.name)
      BY <3>1, <3>3 DEF In, DottedEndsOn
    <3>5. \A o \in reply.rrs : o.place = "authority" /\ o.type = "NS"
      BY <2>1, RRFields
    <3> QED
      BY <2>1, <3>4, <3>5 DEF ElsewhereReply
  <2> QED
    BY <2>2, <2>3 DEF KnownReply
<1>2. CASE reply = Reply("Refused", FALSE, {})
  <2>1. reply.rrs = {} /\ reply.rcode = "Refused"
    BY <1>2 DEF Reply
  <2> QED
    BY <2>1 DEF Complete, KnownReply, ElsewhereReply
<1>3. CASE Serving(ip, n) # {}
  <2>1. PICK z : z = Longest(Serving(ip, n))
    OBVIOUS
  <2>2. CASE Children(z, n) # {}
    <3>1. PICK c : c = Longest(Children(z, n))
      OBVIOUS
    <3>2. Children(z, n) \in SUBSET Chops(n) /\ Children(z, n) \subseteq Apexes
      BY DEF Children, DottedEndsOn
    <3>3. c \in Children(z, n) /\ c \in Apexes /\ c \in Name /\ c \in Chops(n)
      BY <2>2, <3>1, <3>2, LongestFound, ZonesAssumption
    <3>4. reply = Referral(c)
      BY <1>3, <2>1, <2>2, <3>1 DEF HonestReplies
    <3>5. ASSUME ~InMuddled(n)
          PROVE  Truth(c, "NS") # {}
      BY <3>3, <3>5, AboveUnmuddled, SoundAssumption
    <3> QED
      BY <3>3, <3>4, <3>5, ReferralKnown DEF DottedEndsOn, KnownReply
  <2>3. CASE Children(z, n) = {}
    <3>1. reply = Answer(z, n, type)
      BY <1>3, <2>1, <2>3 DEF HonestReplies
    <3> QED
      BY <3>1, AnswerKnown
  <2> QED
    BY <2>2, <2>3
<1> QED
  BY <1>1, <1>2, <1>3 DEF HonestReplies

-----------------------------------------------------------------------------
(***************************************************************************)
(* The first call is on the trail of the client's question, as far as its  *)
(* depth says, and has none of the records asked for yet.                  *)
(***************************************************************************)
DenialSure(e) ==
  ~InMuddled(e.name) /\ e.type # "" => NameExists(e.name) /\ Truth(e.name, "CNAME") = {}
DenialsSure == \A e \in negcache : DenialSure(e)
Leads(q) == \A i \in 0 .. MaxDepth : ~InMuddled(Trail(q)[i])
FirstCall(f, q) ==
  /\ f.qtype = q.qtype /\ f.depth \in Nat
  /\ f.at # "resolve" => f.depth <= MaxDepth
  /\ Leads(q) /\ f.depth <= MaxDepth => f.qname = Trail(q)[f.depth]
  /\ \A rr \in f.ret : rr.place = "answer" => rr.type # q.qtype
OnTrail == stack # <<>> => FirstCall(stack[1], question)
AnswerInv == TruthInv /\ CacheWhole(cache) /\ DenialsSure /\ OnTrail /\ AnswersTrue

(* What is heard of a name outside of the misconfigured zones. *)
LEMMA HeardHonest ==
  ASSUME TruthInv, At("wait"), NEW reply \in Replies(Top.ip, Top.qname, Top.qtype)
  PROVE  /\ ~InMuddled(Top.auth) => Complete(reply.rrs)
         /\ ~InMuddled(Top.qname) => KnownReply(reply, Top.qname, Top.qtype)
<1>1. /\ FrameTrue(Top) /\ Served(Top) /\ Top.at = "wait"
      /\ ~InMuddled(Top.qname) => ~InMuddled(Top.auth)
  BY Heard
<1>2. PICK n, type, ip : n = Top.qname /\ type = Top.qtype /\ ip = Top.ip
  OBVIOUS
<1>3. n \in Name
  BY <1>1, <1>2 DEF FrameTrue
<1>4. ~InMuddled(Top.auth) => Sound(ip)
  BY <1>1, <1>2 DEF Served
<1>5. Sound(ip) => reply \in HonestReplies(ip, n, type)
  BY <1>2 DEF Replies, Sound
<1>6. Sound(ip) => Complete(reply.rrs) /\ (~InMuddled(n) => KnownReply(reply, n, type))
  BY <1>3, <1>5, HonestIsKnown
<1> QED
  BY <1>1, <1>2, <1>4, <1>6

LEMMA ReapWhole ==
  ASSUME TruthInv, CacheWhole(cache), At("wait"),
         NEW reply \in Replies(Top.ip, Top.qname, Top.qtype), Reap(reply)
  PROVE  CacheWhole(cache')
<1>1. PICK ok, a : ok = Acceptable(reply) /\ a = Top.auth
  OBVIOUS
<1>2. PICK new : new = [k \in {Key(rr.name, rr.type) : rr \in ok} |->
                          {rr.to : rr \in {x \in ok : Key(x.name, x.type) = k}}]
  OBVIOUS
<1>3. \A rr : rr \in ok <=> rr \in reply.rrs /\ a \in Chops(rr.name)
  BY <1>1 DEF Acceptable, DottedEndsOn
<1>4. ASSUME NEW k \in DOMAIN new, ~InMuddled(k.name)
      PROVE  new[k] = Truth(k.name, k.type)
  <2>1. PICK rr \in ok : k = Key(rr.name, rr.type)
    BY <1>2
  <2>2. k.name = rr.name /\ k.type = rr.type /\ rr \in reply.rrs /\ a \in Chops(k.name)
    BY <1>3, <2>1, KeyFields
  <2>3. rr.name \in Name
    BY <2>2, Heard DEF SaneReply
  <2>4. ~InMuddled(a)
    BY <1>4, <2>2, <2>3, AboveUnmuddled
  <2>5. TrueReply(reply, Top.qname, Top.qtype) /\ Complete(reply.rrs)
    BY <1>1, <2>4, Heard, HeardHonest
  <2>6. ASSUME NEW x \in new[k]
        PROVE  x \in Truth(k.name, k.type)
    <3>1. PICK o \in ok : Key(o.name, o.type) = k /\ x = o.to
      BY <1>2
    <3>2. o \in reply.rrs /\ k.name = o.name /\ k.type = o.type
      BY <1>3, <3>1, KeyFields
    <3> QED
      BY <2>5, <3>1, <3>2 DEF TrueReply
  <2>7. ASSUME NEW x \in Truth(k.name, k.type)
        PROVE  x \in new[k]
    <3>1. PICK o \in reply.rrs : o.name = k.name /\ o.type = k.type /\ o.to = x
      BY <2>2, <2>5, <2>7 DEF Complete
    <3>2. o \in ok /\ Key(o.name, o.type) = k
      BY <1>3, <2>1, <2>2, <3>1
    <3> QED
      BY <1>2, <3>1, <3>2
  <2> QED
    BY <2>6, <2>7
<1>5. \A k \in DOMAIN new : MayFill(k, new[k])
  BY <1>4 DEF MayFill
<1>6. cache' = ReplaceAll(cache, new, TTL, reply.aa)
  BY <1>1, <1>2, Zenon DEF Reap
<1>7. CacheWhole(ReplaceAll(cache, new, TTL, reply.aa))
  BY <1>5, ReplaceAllWhole DEF TruthInv
<1> QED
  BY <1>6, <1>7

LEMMA DenySure ==
  ASSUME TruthInv, DenialsSure, At("wait"),
         NEW reply \in Replies(Top.ip, Top.qname, Top.qtype), Deny(reply)
  PROVE  DenialsSure'
<1>1. negcache' =
        IF Denied(reply, DeniedType(reply)) = {} THEN negcache
        ELSE {e \in negcache : e.name # Top.qname \/ e.type # DeniedType(reply)}
               \cup {CHOOSE e \in Denied(reply, DeniedType(reply)) : TRUE}
  BY DEF Deny, Denied, DeniedType
<1>2. PICK type, new :
        /\ type = DeniedType(reply)
        /\ new = Denied(reply, type)
        /\ \A e \in negcache' : e \in negcache \/ (new # {} /\ e = CHOOSE d \in new : TRUE)
  BY <1>1
<1>3. ASSUME NEW e \in new
      PROVE  DenialSure(e)
  <2>1. PICK rr \in NoName(reply) \cup NoData(reply) :
          e = [name |-> Top.qname, type |-> type, soa |-> rr.name, left |-> TTL]
    BY <1>2 DEF Denied
  <2>2. e.name = Top.qname /\ e.type = type
    BY <2>1
  <2>3. rr \in reply.rrs /\ rr.place = "authority" /\ rr.type = "SOA"
    BY DEF NoName, NoData, SOAs, In
  <2>4. SUFFICES ASSUME ~InMuddled(Top.qname), type # ""
                 PROVE  NameExists(Top.qname) /\ Truth(Top.qname, "CNAME") = {}
    BY <2>2 DEF DenialSure
  <2>5. reply.rcode # "NXDomain"
    BY <1>2, <2>4 DEF DeniedType
  <2>6. KnownReply(reply, Top.qname, Top.qtype)
    BY <2>4, HeardHonest
  <2>7. \A S, n, t : reply.rrs = RRs("answer", n, t, S) => FALSE
    BY <2>3, RRFields
  <2>8. DenialReply(reply, Top.qname, Top.qtype)
    BY <2>3, <2>6, <2>7 DEF KnownReply, AliasReply, DataReply, ElsewhereReply
  <2> QED
    BY <2>5, <2>8 DEF DenialReply
<1>4. new # {} => (CHOOSE e \in new : TRUE) \in new
  OBVIOUS
<1>5. \A e \in negcache' : e \in negcache \/ e \in new
  BY <1>2, <1>4
<1> QED
  BY <1>3, <1>5 DEF DenialsSure

-----------------------------------------------------------------------------
(* What the steps do to the first call. *)
LEMMA FirstIs ==
  ASSUME CallsTrue, OnTrail, stack # <<>>
  PROVE  /\ IsFrame(stack[1]) /\ FrameTrue(stack[1]) /\ FirstCall(stack[1], question)
         /\ Len(stack) = 1 => Top = stack[1]
         /\ Len(stack) \in Nat \ {0}
<1>1. Len(stack) \in Nat \ {0}
  BY TopOfStack DEF CallsTrue, Frames
<1>2. 1 \in 1 .. Len(stack)
  BY <1>1
<1> QED
  BY <1>1, <1>2 DEF CallsTrue, Frames, IsStack, StackTrue, OnTrail, Top

LEMMA TopSetFirst ==
  ASSUME CallsTrue, stack # <<>>, NEW f, IsFrame(f), SetTop(f)
  PROVE  stack' # <<>> /\ stack'[1] = IF Len(stack) = 1 THEN f ELSE stack[1]
<1>1. PICK s, t, n : s = stack /\ t = Changed(s, f) /\ n = Len(s)
  OBVIOUS
<1>2. IsStack(s) /\ s # <<>> /\ n \in Nat \ {0}
  BY <1>1, TopOfStack DEF CallsTrue, Frames
<1>3. t # <<>> /\ t[n] = f /\ \A i \in 1 .. n - 1 : t[i] = s[i]
  BY <1>1, <1>2, TopChanged
<1>4. t[1] = IF n = 1 THEN f ELSE s[1]
  <2>1. n # 1 => 1 \in 1 .. n - 1
    BY <1>2
  <2> QED
    BY <1>3, <2>1
<1>5. stack' = t
  BY <1>1 DEF SetTop, Changed
<1> QED
  BY <1>1, <1>3, <1>4, <1>5, Zenon

LEMMA FirstSets ==
  ASSUME CallsTrue, OnTrail, stack # <<>>, UNCHANGED question, NEW f, IsFrame(f), SetTop(f),
         Len(stack) = 1 =>
           /\ f.qname = Top.qname /\ f.qtype = Top.qtype /\ f.depth = Top.depth
           /\ f.at # "resolve" => Top.depth <= MaxDepth
           /\ \A rr \in f.ret : rr \in Top.ret \/ rr.place # "answer"
  PROVE  OnTrail'
<1>1. PICK q : q = question /\ question' = q
  OBVIOUS
<1>2. CASE Len(stack) = 1
  <2>1. FirstCall(Top, q)
    BY <1>1, <1>2, FirstIs
  <2>2. FirstCall(f, q)
    BY <1>2, <2>1 DEF FirstCall
  <2>3. stack'[1] = f
    BY <1>2, TopSetFirst
  <2> QED
    BY <1>1, <2>2, <2>3 DEF OnTrail
<1>3. CASE Len(stack) # 1
  <2>1. stack'[1] = stack[1]
    BY <1>3, TopSetFirst
  <2>2. FirstCall(stack[1], q)
    BY <1>1, FirstIs
  <2> QED
    BY <1>1, <2>1, <2>2 DEF OnTrail
<1> QED
  BY <1>2, <1>3

LEMMA FirstRedirects ==
  ASSUME CallsTrue, OnTrail, stack # <<>>, UNCHANGED question, NEW to, NEW ret, Redirect(Top, to, ret),
         Top.qtype # "CNAME", Len(stack) = 1 => Top.depth <= MaxDepth,
         ~InMuddled(Top.qname) => to \in Truth(Top.qname, "CNAME"),
         \A rr \in ret : rr \in Top.ret \/ rr.place # "answer" \/ rr.type = "CNAME"
  PROVE  OnTrail'
<1>1. PICK f : /\ f = [Frame(to, Top.qtype, Top.depth + 1, {}) EXCEPT
                        !.ret = ret, !.fresh = TRUE,
                        !.callers = IF Top.fresh THEN Top.callers ELSE Top.beenthere]
               /\ SetTop(f)
  BY DEF Redirect
<1>2. /\ IsFrame(f) /\ f.at = "resolve" /\ f.qname = to /\ f.qtype = Top.qtype /\ f.ret = ret
      /\ f.depth = Top.depth + 1
  BY <1>1 DEF IsFrame, Frame
<1>3. PICK q : q = question /\ question' = q
  OBVIOUS
<1>4. CASE Len(stack) = 1
  <2>1. FirstCall(Top, q) /\ FrameTrue(Top)
    BY <1>3, <1>4, FirstIs
  <2>2. PICK n, d : n = Top.qname /\ d = Top.depth /\ d \in Nat /\ d <= MaxDepth
    BY <1>4, <2>1 DEF FirstCall
  <2>3. ASSUME Leads(q), d + 1 <= MaxDepth
        PROVE  to = Trail(q)[d + 1]
    <3>1. d \in 0 .. MaxDepth /\ d + 1 \in 1 .. MaxDepth /\ d + 1 - 1 = d
      BY <2>2, <2>3, SoundAssumption
    <3>2. n = Trail(q)[d]
      BY <2>1, <2>2, <2>3 DEF FirstCall
    <3>3. ~InMuddled(n)
      BY <2>3, <3>1, <3>2 DEF Leads
    <3>4. n \in Name /\ q.qtype # "CNAME"
      BY <2>1, <2>2 DEF FrameTrue, FirstCall
    <3>5. After(n, q.qtype) = to
      BY <2>2, <3>3, <3>4, AliasAlone
    <3>6. Trail(q)[d + 1] = After(Trail(q)[d + 1 - 1], q.qtype)
      BY <3>1, TrailSteps
    <3> QED
      BY <3>1, <3>2, <3>5, <3>6
  <2>4. \A rr \in ret : rr.place = "answer" => rr.type # q.qtype
    BY <2>1 DEF FirstCall
  <2>5. d + 1 \in Nat /\ f.depth = d + 1 /\ f.qtype = q.qtype
    BY <1>2, <2>1, <2>2 DEF FirstCall
  <2>6. FirstCall(f, q)
    BY <1>2, <2>3, <2>4, <2>5 DEF FirstCall
  <2>7. stack'[1] = f
    BY <1>1, <1>2, <1>4, TopSetFirst
  <2> QED
    BY <1>3, <2>6, <2>7 DEF OnTrail
<1>5. CASE Len(stack) # 1
  <2>1. stack'[1] = stack[1]
    BY <1>1, <1>2, <1>5, TopSetFirst
  <2>2. FirstCall(stack[1], q)
    BY <1>3, FirstIs
  <2> QED
    BY <1>3, <2>1, <2>2 DEF OnTrail
<1> QED
  BY <1>4, <1>5

(* The first call's answer is the client's. *)
RightResult(q, rcode, ret) ==
  /\ (rcode = "NXDomain") = ~NameExists(Trail(q)[MaxDepth])
  /\ {rr \in ret : rr.place = "answer" /\ rr.type = q.qtype}
       = RRs("answer", Trail(q)[MaxDepth], q.qtype, Truth(Trail(q)[MaxDepth], q.qtype))
LEMMA FirstReturns ==
  ASSUME CallsTrue, OnTrail, AnswersTrue, stack # <<>>, UNCHANGED question, NEW rcode, NEW ret,
         Return(Top, rcode, ret),
         Len(stack) = 1 /\ rcode # "ServFail" /\ Leads(question) => RightResult(question, rcode, ret)
  PROVE  OnTrail' /\ AnswersTrue'
<1>1. PICK q : q = question /\ question' = q
  OBVIOUS
<1>2. CASE Len(stack) = 1
  <2>1. stack' = <<>> /\ result' = [question |-> q, rcode |-> rcode, rrs |-> ret]
    BY <1>1, <1>2 DEF Return
  <2>2. PICK r : r = [question |-> q, rcode |-> rcode, rrs |-> ret] /\ result' = r
    BY <2>1
  <2>3. r.question = q /\ r.rcode = rcode /\ r.rrs = ret
    BY <2>2
  <2>4. AnswersTrue'
    BY <1>1, <1>2, <2>2, <2>3 DEF AnswersTrue, RightResult, Leads
  <2> QED
    BY <2>1, <2>4 DEF OnTrail
<1>3. CASE Len(stack) # 1
  <2>1. PICK ips, beenthere, flawed, c, g :
          /\ c = stack[Len(stack) - 1]
          /\ g = [c EXCEPT !.at = IF ips = {} THEN "servers" ELSE "addresses",
                           !.ips = ips, !.flawed = flawed, !.beenthere = beenthere]
          /\ stack' = Returned(stack, g) /\ result' = result
    BY <1>3, Zenon DEF Return, Returned
  <2>2. IsFrame(c) /\ Len(stack) - 1 \in 1 .. Len(stack)
    BY <1>3, <2>1, TopReturns DEF CallsTrue, Frames
  <2>3. Called(c, Top)
    BY <1>3, <2>1, TopTrue DEF CalledAs
  <2>4. /\ IsFrame(g) /\ g.at # "resolve" /\ g.qname = c.qname /\ g.qtype = c.qtype /\ g.ret = c.ret
        /\ g.depth = c.depth
    BY <2>1, <2>2 DEF IsFrame
  <2>5. PICK n : n = Len(stack) /\ n \in Nat \ {0, 1}
    BY <1>3, FirstIs
  <2>6. /\ Returned(stack, g)[n - 1] = g
        /\ \A i \in 1 .. n - 2 : Returned(stack, g)[i] = stack[i]
    <3>1. IsStack(stack) /\ IsFrame(g)
      BY <2>4 DEF CallsTrue, Frames
    <3>2. /\ Returned(stack, g)[Len(stack) - 1] = g
          /\ \A i \in 1 .. Len(stack) - 2 : Returned(stack, g)[i] = stack[i]
      BY <1>3, <3>1, TopReturns, Zenon
    <3> QED
      BY <2>5, <3>2, Zenon
  <2>7. FirstCall(stack[1], q)
    BY <1>1, FirstIs
  <2>8. FirstCall(stack'[1], q)
    <3>1. CASE n = 2
      <4>1. stack'[1] = g /\ c = stack[1]
        <5>1. n - 1 = 1
          BY <3>1
        <5> QED
          BY <2>1, <2>5, <2>6, <5>1
      <4>2. c.at # "resolve"
        BY <2>3 DEF Called
      <4>3. FirstCall(g, q)
        BY <2>4, <2>7, <4>1, <4>2 DEF FirstCall
      <4> QED
        BY <4>1, <4>3
    <3>2. CASE n # 2
      <4>1. 1 \in 1 .. n - 2
        BY <2>5, <3>2
      <4>2. stack'[1] = stack[1]
        BY <2>1, <2>6, <4>1
      <4> QED
        BY <2>7, <4>2
    <3> QED
      BY <3>1, <3>2
  <2>9. AnswersTrue'
    BY <2>1 DEF AnswersTrue
  <2> QED
    BY <1>1, <2>8, <2>9 DEF OnTrail
<1> QED
  BY <1>2, <1>3

(* Where the first call is, the trail is; where that is no alias, it ends. *)
LEMMA FirstOnTrail ==
  ASSUME CallsTrue, OnTrail, stack # <<>>, Len(stack) = 1, Leads(question),
         Top.at # "resolve" \/ Top.depth <= MaxDepth
  PROVE  /\ Top.qname \in Name /\ ~InMuddled(Top.qname) /\ Top.qtype = question.qtype
         /\ \A rr \in Top.ret : rr.place = "answer" => rr.type # question.qtype
         /\ Top.qtype = "CNAME" \/ Truth(Top.qname, "CNAME") = {}
              => Trail(question)[MaxDepth] = Top.qname
<1>1. PICK q, n, d : q = question /\ n = Top.qname /\ d = Top.depth
  OBVIOUS
<1>2. FirstCall(Top, q) /\ FrameTrue(Top)
  BY <1>1, FirstIs
<1>3. d \in 0 .. MaxDepth /\ n = Trail(q)[d]
  BY <1>1, <1>2, SoundAssumption DEF FirstCall
<1>4. n \in Name /\ ~InMuddled(n) /\ Top.qtype = q.qtype
  BY <1>1, <1>2, <1>3 DEF FrameTrue, FirstCall, Leads
<1>5. ASSUME Top.qtype = "CNAME" \/ Truth(n, "CNAME") = {}
      PROVE  Trail(q)[MaxDepth] = n
  <2>1. After(n, q.qtype) = n
    BY <1>4, <1>5, NoAlias
  <2> QED
    BY <1>3, <2>1, TrailStays
<1> QED
  BY <1>1, <1>2, <1>4, <1>5 DEF FirstCall

(* Everything there is, or nothing, is the right answer. *)
LEMMA RightData ==
  ASSUME CallsTrue, OnTrail, stack # <<>>, Len(stack) = 1, Leads(question),
         Top.at # "resolve" \/ Top.depth <= MaxDepth,
         Top.qtype = "CNAME" \/ Truth(Top.qname, "CNAME") = {},
         NEW rcode, NEW ret, NEW rrs,
         (rcode = "NXDomain") = ~NameExists(Top.qname),
         rrs = RRs("answer", Top.qname, Top.qtype, Truth(Top.qname, Top.qtype)),
         rrs \subseteq ret,
         \A rr \in ret : rr \in Top.ret \/ rr \in rrs \/ rr.place # "answer"
  PROVE  RightResult(question, rcode, ret)
<1>1. PICK q, n : q = question /\ n = Top.qname
  OBVIOUS
<1>2. /\ Trail(q)[MaxDepth] = n /\ Top.qtype = q.qtype
      /\ \A rr \in Top.ret : rr.place = "answer" => rr.type # q.qtype
  BY <1>1, FirstOnTrail
<1>3. \A rr \in rrs : rr.place = "answer" /\ rr.type = q.qtype
  BY <1>2, RRFields
<1>4. {rr \in ret : rr.place = "answer" /\ rr.type = q.qtype} = rrs
  BY <1>2, <1>3
<1> QED
  BY <1>1, <1>2, <1>4, Zenon DEF RightResult

-----------------------------------------------------------------------------
(* The steps. *)
LEMMA AnswerStays ==
  ASSUME AnswersTrue, UNCHANGED result
  PROVE  AnswersTrue'
BY DEF AnswersTrue

LEMMA AliasSteps ==
  ASSUME AnswerInv, CNAMECacheHit
  PROVE  OnTrail' /\ AnswersTrue'
<1>1. /\ stack # <<>> /\ CallsTrue /\ OnTrail /\ AnswersTrue /\ question' = question
      /\ Top.depth <= MaxDepth
  BY DEF CNAMECacheHit, At, Shallow, unchangedBelow, AnswerInv, TruthInv
<1>2. PICK to, ret :
        /\ to \in CNAMEs /\ ret = Top.ret \cup {RR("answer", Top.qname, "CNAME", to)}
        /\ IF Top.qtype = "CNAME"
           THEN Return(Top, "NoError", ret)
           ELSE Redirect(Top, to, ret) /\ UNCHANGED result
  BY Zenon DEF CNAMECacheHit
<1>3. PICK n : n = Top.qname /\ n \in Name
  BY <1>1, TopTrue DEF FrameTrue
<1>4. ASSUME ~InMuddled(n)
      PROVE  to \in Truth(n, "CNAME") /\ Truth(n, "CNAME") = {to}
  <2>1. to \in Get(cache, n, "CNAME")
    BY <1>2, <1>3 DEF CNAMEs
  <2>2. to \in Truth(n, "CNAME")
    BY <1>4, <2>1, GetWhole DEF AnswerInv
  <2> QED
    BY <1>3, <1>4, <2>2, AliasAlone
<1>5. PICK rr0 : rr0 = RR("answer", n, "CNAME", to)
  OBVIOUS
<1>6. rr0.type = "CNAME" /\ ret = Top.ret \cup {rr0}
  BY <1>2, <1>3, <1>5 DEF RR
<1>7. CASE Top.qtype = "CNAME"
  <2>1. Return(Top, "NoError", ret)
    BY <1>2, <1>7
  <2>2. ASSUME Len(stack) = 1, Leads(question)
        PROVE  RightResult(question, "NoError", ret)
    <3>1. ~InMuddled(n)
      BY <1>1, <1>3, <2>2, FirstOnTrail
    <3>2. {rr0} = RRs("answer", Top.qname, Top.qtype, Truth(Top.qname, Top.qtype))
      BY <1>3, <1>4, <1>5, <1>7, <3>1 DEF RRs
    <3>3. NameExists(Top.qname)
      BY <1>3, <1>4, <3>1, TruthExists
    <3>4. ("NoError" = "NXDomain") = ~NameExists(Top.qname)
      BY <3>3
    <3>5. {rr0} \subseteq ret /\ \A rr \in ret : rr \in Top.ret \/ rr \in {rr0} \/ rr.place # "answer"
      BY <1>6
    <3>6. PICK rcode, rrs : rcode = "NoError" /\ rrs = {rr0}
      OBVIOUS
    <3> QED
      BY <1>1, <1>7, <2>2, <3>2, <3>4, <3>5, <3>6, RightData
  <2> QED
    BY <1>1, <2>1, <2>2, FirstReturns
<1>8. CASE Top.qtype # "CNAME"
  <2>1. Redirect(Top, to, ret) /\ UNCHANGED result
    BY <1>2, <1>8
  <2>2. \A rr \in ret : rr \in Top.ret \/ rr.place # "answer" \/ rr.type = "CNAME"
    BY <1>6
  <2>3. OnTrail'
    BY <1>1, <1>3, <1>4, <1>8, <2>1, <2>2, FirstRedirects
  <2> QED
    BY <1>1, <2>1, <2>3, AnswerStays
<1> QED
  BY <1>7, <1>8

LEMMA CacheHitStep ==
  ASSUME AnswerInv, CacheHit
  PROVE  OnTrail' /\ AnswersTrue'
<1>1. /\ stack # <<>> /\ CallsTrue /\ OnTrail /\ AnswersTrue /\ question' = question
      /\ Top.depth <= MaxDepth /\ CNAMEs = {} /\ Cached # {}
  BY DEF CacheHit, At, Shallow, unchangedBelow, AnswerInv, TruthInv
<1>2. PICK rcode, ret :
        /\ rcode = IF Negatives # {} /\ Denial.type = "" THEN "NXDomain" ELSE "NoError"
        /\ ret = Top.ret \cup Cached /\ Return(Top, rcode, ret)
  BY DEF CacheHit
<1>3. PICK n, type : n = Top.qname /\ type = Top.qtype /\ n \in Name
  BY <1>1, TopTrue DEF FrameTrue
<1>4. ASSUME Len(stack) = 1, Leads(question)
      PROVE  RightResult(question, rcode, ret)
  <2>1. ~InMuddled(n)
    BY <1>1, <1>3, <1>4, FirstOnTrail
  <2>2. CASE Negatives = {}
    <3>1. Cached = RRs("answer", n, type, Get(cache, n, type))
      BY <1>3, <2>2 DEF Cached
    <3>2. Get(cache, n, type) # {}
      BY <1>1, <3>1 DEF RRs
    <3>3. Get(cache, n, type) = Truth(n, type)
      BY <2>1, <3>2, GetWhole DEF AnswerInv
    <3>4. type # "CNAME"
      BY <1>1, <1>3, <3>2 DEF CNAMEs
    <3>5. Truth(n, "CNAME") = {}
      BY <1>3, <2>1, <3>2, <3>3, <3>4, AliasAlone
    <3>6. NameExists(n) /\ rcode = "NoError"
      BY <1>2, <1>3, <2>2, <3>2, <3>3, TruthExists
    <3>7. (rcode = "NXDomain") = ~NameExists(Top.qname)
      BY <1>3, <3>6
    <3>8. PICK rrs : rrs = Cached
      OBVIOUS
    <3>9. /\ rrs = RRs("answer", Top.qname, Top.qtype, Truth(Top.qname, Top.qtype))
          /\ rrs \subseteq ret /\ \A rr \in ret : rr \in Top.ret \/ rr \in rrs \/ rr.place # "answer"
      BY <1>2, <1>3, <3>1, <3>3, <3>8
    <3> QED
      BY <1>1, <1>3, <1>4, <3>5, <3>7, <3>9, RightData
  <2>3. CASE Negatives # {}
    <3>1. Denial \in Negatives
      BY <2>3 DEF Denial
    <3>2. PICK e : e = Denial /\ e \in negcache /\ e.name = n /\ e.type \in {"", type}
      BY <1>3, <3>1 DEF Negatives
    <3>3. DenialTrue(e) /\ DenialSure(e)
      BY <3>2 DEF AnswerInv, TruthInv, DenialsTrue, DenialsSure
    <3>4. /\ rcode = IF e.type = "" THEN "NXDomain" ELSE "NoError"
          /\ \A rr \in Cached : rr.place = "authority"
      <4>1. Cached = RRs("authority", Denial.soa, "SOA", Get(cache, Denial.soa, "SOA"))
        BY <2>3 DEF Cached
      <4>2. \A rr \in Cached : rr.place = "authority"
        BY <4>1, RRFields
      <4> QED
        BY <1>2, <2>3, <3>2, <4>2
    <3>5. /\ e.type = "" => ~NameExists(n)
          /\ e.type # "" => NameExists(n) /\ Truth(n, type) = {} /\ Truth(n, "CNAME") = {}
      BY <2>1, <3>2, <3>3 DEF DenialTrue, DenialSure
    <3>6. Truth(n, type) = {} /\ Truth(n, "CNAME") = {}
      BY <1>3, <3>5, TruthExists
    <3>7. (rcode = "NXDomain") = ~NameExists(Top.qname)
      BY <1>3, <3>4, <3>5
    <3>8. PICK rrs : rrs = RRs("answer", n, type, Truth(n, type))
      OBVIOUS
    <3>9. rrs = {}
      BY <3>6, <3>8 DEF RRs
    <3>10. rrs \subseteq ret /\ \A rr \in ret : rr \in Top.ret \/ rr \in rrs \/ rr.place # "answer"
      BY <1>2, <3>4, <3>9
    <3> QED
      BY <1>1, <1>3, <1>4, <3>6, <3>7, <3>8, <3>10, RightData
  <2> QED
    BY <2>2, <2>3
<1> QED
  BY <1>1, <1>2, <1>4, FirstReturns

(* A call fails, and asks nobody else. *)
LEMMA FailsStep ==
  ASSUME CallsTrue, OnTrail, AnswersTrue, stack # <<>>, UNCHANGED question, NEW ret,
         Return(Top, "ServFail", ret)
  PROVE  OnTrail' /\ AnswersTrue'
BY FirstReturns

LEMMA LookupFirst ==
  ASSUME AnswerInv, FindNameservers \/ Reprime
  PROVE  OnTrail'
<1>1. /\ stack # <<>> /\ CallsTrue /\ OnTrail /\ question' = question
      /\ Top.depth <= MaxDepth /\ IsFrame(Top)
  <2>1. stack # <<>> /\ CallsTrue /\ OnTrail /\ question' = question /\ Top.depth <= MaxDepth
    BY DEF FindNameservers, Reprime, NotCached, Shallow, At, unchangedBelow, AnswerInv, TruthInv
  <2> QED
    BY <2>1, TopTrue
<1>2. PICK f : /\ SetTop(f) /\ IsFrame(f) /\ f.at = "servers" /\ f.qname = Top.qname
               /\ f.qtype = Top.qtype /\ f.depth = Top.depth /\ f.ret = Top.ret
  <2>1. CASE \E s, bestns, flawed : Consult(s, bestns, flawed)
    <3>1. PICK s, bestns, flawed, f :
            /\ f = [Top EXCEPT !.at = "servers", !.auth = s, !.nameservers = bestns,
                               !.flawed = flawed, !.beenthere = @ \cup {Visit(s, bestns)}]
            /\ SetTop(f)
      BY <2>1 DEF Consult
    <3>2. /\ IsFrame(f) /\ f.at = "servers" /\ f.qname = Top.qname
          /\ f.qtype = Top.qtype /\ f.depth = Top.depth /\ f.ret = Top.ret
      BY <1>1, <3>1 DEF IsFrame
    <3> QED
      BY <3>1, <3>2, Zenon
  <2>2. CASE SetTop([Top EXCEPT !.at = "servers", !.auth = Top.qname, !.nameservers = {}])
    <3>1. PICK f : /\ f = [Top EXCEPT !.at = "servers", !.auth = Top.qname, !.nameservers = {}]
                   /\ SetTop(f)
      BY <2>2
    <3>2. /\ IsFrame(f) /\ f.at = "servers" /\ f.qname = Top.qname
          /\ f.qtype = Top.qtype /\ f.depth = Top.depth /\ f.ret = Top.ret
      BY <1>1, <3>1 DEF IsFrame
    <3> QED
      BY <3>1, <3>2, Zenon
  <2> QED
    BY <2>1, <2>2 DEF FindNameservers, Reprime
<1> QED
  BY <1>1, <1>2, FirstSets

LEMMA TryNameserverFirst ==
  ASSUME AnswerInv, TryNameserver
  PROVE  OnTrail'
<1>1. stack # <<>> /\ CallsTrue /\ OnTrail /\ question' = question /\ Top.at = "servers"
  BY DEF TryNameserver, At, unchangedBelow, AnswerInv, TruthInv
<1>2. PICK ns, f :
        /\ f = [Top EXCEPT !.nameservers = @ \ {ns}, !.tns = ns, !.tcp = FALSE]
        /\ \/ SetTop(f)
           \/ stack' = Append([stack EXCEPT ![Len(stack)] = f],
                              Frame(ns, "A", Top.depth + 2, Top.beenthere))
  BY Zenon DEF TryNameserver
<1>3. /\ IsFrame(f) /\ f.at = "servers" /\ f.qname = Top.qname /\ f.qtype = Top.qtype
      /\ f.depth = Top.depth /\ f.ret = Top.ret
  BY <1>1, <1>2, TopTrue DEF IsFrame
<1>4. Len(stack) = 1 => Top.depth <= MaxDepth
  BY <1>1, FirstIs DEF FirstCall
<1>5. CASE SetTop(f)
  BY <1>1, <1>3, <1>4, <1>5, FirstSets
<1>6. CASE stack' = Append([stack EXCEPT ![Len(stack)] = f],
                           Frame(ns, "A", Top.depth + 2, Top.beenthere))
  <2>1. PICK s, t, g : s = stack /\ t = Changed(s, f) /\ g = Frame(ns, "A", Top.depth + 2, Top.beenthere)
    OBVIOUS
  <2>2. stack' = Calling(t, g)
    BY <1>6, <2>1 DEF Changed, Calling
  <2>3. IsStack(s) /\ s # <<>>
    BY <1>1, <2>1 DEF CallsTrue, Frames
  <2>4. PICK n : n = Len(s) /\ n \in Nat \ {0}
    BY <2>3, TopOfStack
  <2>5. IsStack(t) /\ Len(t) = n /\ t[n] = f /\ \A i \in 1 .. n - 1 : t[i] = s[i]
    BY <1>3, <2>1, <2>3, <2>4, TopChanged
  <2>6. IsFrame(g)
    BY <2>1, FrameIsFrame
  <2>7. Calling(t, g) # <<>> /\ \A i \in 1 .. n : Calling(t, g)[i] = t[i]
    BY <2>5, <2>6, TopCalls
  <2>8. 1 \in 1 .. n /\ (n # 1 => 1 \in 1 .. n - 1)
    BY <2>4
  <2>9. stack'[1] = IF n = 1 THEN f ELSE s[1]
    BY <2>2, <2>5, <2>7, <2>8
  <2>10. PICK q : q = question /\ question' = q
    BY <1>1
  <2>11. FirstCall(s[1], q) /\ (n = 1 => Top = s[1])
    BY <1>1, <2>1, <2>4, <2>10, FirstIs
  <2>12. CASE n = 1
    <3>1. FirstCall(f, q)
      BY <1>1, <1>3, <2>11, <2>12 DEF FirstCall
    <3> QED
      BY <2>9, <2>10, <2>12, <3>1 DEF OnTrail
  <2>13. CASE n # 1
    BY <2>9, <2>10, <2>11, <2>13 DEF OnTrail
  <2> QED
    BY <2>12, <2>13
<1> QED
  BY <1>2, <1>5, <1>6

LEMMA AddressFirst ==
  ASSUME AnswerInv, TryAddress \/ NoAnswer \/ Truncated \/ ServerFails
  PROVE  OnTrail' /\ AnswersTrue'
<1>1. /\ stack # <<>> /\ CallsTrue /\ OnTrail /\ AnswersTrue /\ question' = question
      /\ Top.at \in {"addresses", "wait"}
  BY DEF TryAddress, NoAnswer, Truncated, ServerFails, At, unchangedBelow, AnswerInv, TruthInv
<1>2. IsFrame(Top) /\ (Len(stack) = 1 => Top.depth <= MaxDepth)
  BY <1>1, TopTrue, FirstIs DEF FirstCall
<1>3. ASSUME NEW f, SetTop(f), IsFrame(f), f.qname = Top.qname, f.qtype = Top.qtype,
             f.depth = Top.depth, f.ret = Top.ret, UNCHANGED result
      PROVE  OnTrail' /\ AnswersTrue'
  BY <1>1, <1>2, <1>3, FirstSets, AnswerStays
<1>4. ASSUME NEW ips, SetTop(NextAddress(Top, ips)), UNCHANGED result
      PROVE  OnTrail' /\ AnswersTrue'
  <2>1. PICK f : f = NextAddress(Top, ips) /\ SetTop(f)
    BY <1>4
  <2>2. IsFrame(f) /\ f.qname = Top.qname /\ f.qtype = Top.qtype /\ f.depth = Top.depth /\ f.ret = Top.ret
    BY <1>2, <2>1 DEF NextAddress, IsFrame
  <2> QED
    BY <1>3, <1>4, <2>1, <2>2
<1>5. CASE TryAddress
  <2>1. PICK ip : \/ SetTop(NextAddress(Top, Top.ips \ {ip}))
                  \/ SetTop([Top EXCEPT !.ips = @ \ {ip}, !.ip = ip, !.at = "wait"])
    BY <1>5 DEF TryAddress
  <2>2. result' = result
    BY <1>5 DEF TryAddress
  <2>3. CASE SetTop([Top EXCEPT !.ips = @ \ {ip}, !.ip = ip, !.at = "wait"])
    <3>1. PICK f : f = [Top EXCEPT !.ips = @ \ {ip}, !.ip = ip, !.at = "wait"] /\ SetTop(f)
      BY <2>3
    <3>2. IsFrame(f) /\ f.qname = Top.qname /\ f.qtype = Top.qtype /\ f.depth = Top.depth /\ f.ret = Top.ret
      BY <1>2, <3>1 DEF IsFrame
    <3> QED
      BY <1>3, <2>2, <3>1, <3>2
  <2> QED
    BY <1>4, <2>1, <2>2, <2>3
<1>6. CASE NoAnswer
  BY <1>4, <1>6 DEF NoAnswer
<1>7. CASE Truncated
  <2>1. CASE Top.tcp
    BY <1>1, <1>7, <2>1, FailsStep DEF Truncated
  <2>2. CASE ~Top.tcp
    <3>1. PICK f : f = [Top EXCEPT !.tcp = TRUE] /\ SetTop(f)
      BY <1>7, <2>2 DEF Truncated
    <3>2. IsFrame(f) /\ f.qname = Top.qname /\ f.qtype = Top.qtype /\ f.depth = Top.depth /\ f.ret = Top.ret
      BY <1>2, <3>1 DEF IsFrame
    <3>3. result' = result
      BY <1>7, <2>2 DEF Truncated
    <3> QED
      BY <1>3, <3>1, <3>2, <3>3
  <2> QED
    BY <2>1, <2>2
<1>8. CASE ServerFails
  <2>1. PICK f : f = [Top EXCEPT !.at = "servers"] /\ SetTop(f)
    BY <1>8 DEF ServerFails
  <2>2. IsFrame(f) /\ f.qname = Top.qname /\ f.qtype = Top.qtype /\ f.depth = Top.depth /\ f.ret = Top.ret
    BY <1>2, <2>1 DEF IsFrame
  <2>3. result' = result
    BY <1>8 DEF ServerFails
  <2> QED
    BY <1>3, <2>1, <2>2, <2>3
<1> QED
  BY <1>5, <1>6, <1>7, <1>8

(* What a reply comes to, for a name outside of the misconfigured zones. *)
LEMMA KnownSections ==
  ASSUME NEW reply, KnownReply(reply, Top.qname, Top.qtype)
  PROVE  /\ AliasReply(reply, Top.qname, Top.qtype) =>
              Wanted(reply) = {} /\ \A rr \in Targets(reply) : rr.to \in Truth(Top.qname, "CNAME")
         /\ DataReply(reply, Top.qname, Top.qtype) =>
              /\ Wanted(reply) = RRs("answer", Top.qname, Top.qtype, Truth(Top.qname, Top.qtype))
              /\ Wanted(reply) # {}
         /\ DenialReply(reply, Top.qname, Top.qtype) => Wanted(reply) = {} /\ Targets(reply) = {}
         /\ ElsewhereReply(reply, Top.qname) =>
              /\ Wanted(reply) = {} /\ Targets(reply) = {} /\ reply.rcode # "NXDomain"
              /\ reply.rcode = "NoError" => NSs(reply) # {}
<1>1. PICK n, type : n = Top.qname /\ type = Top.qtype
  OBVIOUS
<1>2. ASSUME AliasReply(reply, n, type)
      PROVE  Wanted(reply) = {} /\ \A rr \in Targets(reply) : rr.to \in Truth(n, "CNAME")
  <2>1. \A rr \in reply.rrs : rr.type = "CNAME" /\ rr.to \in Truth(n, "CNAME")
    BY <1>2, RRFields DEF AliasReply
  <2> QED
    BY <1>1, <1>2, <2>1 DEF AliasReply, Wanted, Targets, In
<1>3. ASSUME DataReply(reply, n, type)
      PROVE  Wanted(reply) = RRs("answer", n, type, Truth(n, type)) /\ Wanted(reply) # {}
  <2>1. PICK S : S = reply.rrs /\ S = RRs("answer", n, type, Truth(n, type))
    BY <1>3 DEF DataReply
  <2>2. \A rr \in S : rr.place = "answer" /\ rr.name = n /\ rr.type = type
    BY <2>1, RRFields
  <2>3. Wanted(reply) = S
    BY <1>1, <2>1, <2>2 DEF Wanted, In
  <2>4. S # {}
    BY <1>3, <2>1, RRsHold DEF DataReply
  <2> QED
    BY <2>1, <2>3, <2>4
<1>4. ASSUME DenialReply(reply, n, type)
      PROVE  Wanted(reply) = {} /\ Targets(reply) = {}
  BY <1>4 DEF DenialReply, Wanted, Targets, In
<1>5. ASSUME ElsewhereReply(reply, n)
      PROVE  /\ Wanted(reply) = {} /\ Targets(reply) = {} /\ reply.rcode # "NXDomain"
             /\ reply.rcode = "NoError" => NSs(reply) # {}
  <2>1. Wanted(reply) = {} /\ Targets(reply) = {} /\ reply.rcode # "NXDomain"
    BY <1>5 DEF ElsewhereReply, Wanted, Targets, In
  <2>2. ASSUME reply.rcode = "NoError" PROVE NSs(reply) # {}
    BY <1>1, <1>5, <2>2 DEF ElsewhereReply, NSs
  <2> QED
    BY <2>1, <2>2
<1> QED
  BY <1>1, <1>2, <1>3, <1>4, <1>5

LEMMA ConcludeFirst ==
  ASSUME AnswerInv, At("wait"), UNCHANGED question,
         NEW reply \in Replies(Top.ip, Top.qname, Top.qtype), Conclude(reply)
  PROVE  OnTrail' /\ AnswersTrue'
<1>1. /\ stack # <<>> /\ CallsTrue /\ OnTrail /\ AnswersTrue /\ TruthInv
      /\ IsFrame(Top) /\ Top.at = "wait" /\ FrameTrue(Top)
  BY Heard DEF AnswerInv
<1>2. PICK n, type, d : n = Top.qname /\ type = Top.qtype /\ d = Top.depth
  OBVIOUS
<1>3. ~InMuddled(n) => KnownReply(reply, n, type)
  BY <1>1, <1>2, HeardHonest
<1>4. Len(stack) = 1 => d <= MaxDepth
  BY <1>1, <1>2, FirstIs DEF FirstCall
<1>5. PICK ret : ret = Ret(reply)
  OBVIOUS
<1>6. \A rr \in ret : \/ rr \in Top.ret \/ rr \in Wanted(reply) \/ rr \in Targets(reply)
                      \/ rr.place # "answer"
  BY <1>5 DEF Ret, NoName, NoData, SOAs, In
<1>7. \A rr \in Targets(reply) : rr.type = "CNAME" /\ type # "CNAME"
  BY <1>2 DEF Targets, In
<1>8. CASE Wanted(reply) # {}
  <2>1. Return(Top, "NoError", ret)
    BY <1>5, <1>8 DEF Conclude
  <2>2. ASSUME Len(stack) = 1, Leads(question)
        PROVE  RightResult(question, "NoError", ret)
    <3>1. ~InMuddled(n) /\ n \in Name /\ type = question.qtype
      BY <1>1, <1>2, <2>2, FirstOnTrail
    <3>2. DataReply(reply, n, type)
      BY <1>2, <1>3, <1>8, <3>1, KnownSections DEF KnownReply
    <3>3. /\ type = "CNAME" \/ Truth(n, "CNAME") = {}
          /\ Truth(n, type) # {} /\ Wanted(reply) = RRs("answer", n, type, Truth(n, type))
      BY <1>2, <3>2, <1>3, <3>1, KnownSections DEF DataReply
    <3>4. ("NoError" = "NXDomain") = ~NameExists(Top.qname)
      BY <1>2, <3>1, <3>3, TruthExists
    <3>5. Targets(reply) = {}
      <4>1. reply.rrs = RRs("answer", n, type, Truth(n, type))
        BY <3>2 DEF DataReply
      <4>2. \A rr \in reply.rrs : rr.type = type
        BY <4>1, RRFields
      <4> QED
        BY <1>7, <4>2 DEF Targets, In
    <3>6. PICK rcode, rrs : rcode = "NoError" /\ rrs = Wanted(reply)
      OBVIOUS
    <3>7. rrs \subseteq ret /\ \A rr \in ret : rr \in Top.ret \/ rr \in rrs \/ rr.place # "answer"
      BY <1>5, <1>6, <3>5, <3>6 DEF Ret
    <3> QED
      BY <1>1, <1>2, <2>2, <3>3, <3>4, <3>6, <3>7, RightData
  <2> QED
    BY <1>1, <2>1, <2>2, FirstReturns
<1>9. CASE Wanted(reply) = {} /\ Targets(reply) # {}
  <2>1. PICK rr \in Targets(reply) :
          Return(Top, "ServFail", ret) \/ (Redirect(Top, rr.to, ret) /\ UNCHANGED result)
    BY <1>5, <1>9 DEF Conclude
  <2>2. CASE Return(Top, "ServFail", ret)
    BY <1>1, <2>2, FailsStep
  <2>3. CASE Redirect(Top, rr.to, ret) /\ UNCHANGED result
    <3>1. PICK to : to = rr.to /\ Redirect(Top, to, ret)
      BY <2>3
    <3>2. ASSUME ~InMuddled(n)
          PROVE  to \in Truth(n, "CNAME")
      BY <1>2, <1>3, <1>9, <3>1, <3>2, KnownSections DEF KnownReply
    <3>3. type # "CNAME" /\ \A o \in ret : o \in Top.ret \/ o.place # "answer" \/ o.type = "CNAME"
      BY <1>6, <1>7, <1>9
    <3>4. OnTrail'
      BY <1>1, <1>2, <1>4, <3>1, <3>2, <3>3, FirstRedirects
    <3> QED
      BY <1>1, <2>3, <3>4, AnswerStays
  <2> QED
    BY <2>1, <2>2, <2>3
<1>10. CASE /\ Wanted(reply) = {} /\ Targets(reply) = {}
            /\ reply.rcode = "NXDomain" \/ (NSs(reply) = {} /\ reply.rcode = "NoError")
  <2>1. PICK rcode : rcode = reply.rcode /\ Return(Top, rcode, ret)
    BY <1>5, <1>10 DEF Conclude
  <2>2. ASSUME Len(stack) = 1, Leads(question)
        PROVE  RightResult(question, rcode, ret)
    <3>1. ~InMuddled(n) /\ n \in Name /\ type = question.qtype
      BY <1>1, <1>2, <2>2, FirstOnTrail
    <3>2. DenialReply(reply, n, type)
      <4>1. KnownReply(reply, n, type) /\ ~DataReply(reply, n, type) /\ ~ElsewhereReply(reply, n)
        BY <1>2, <1>3, <1>10, <3>1, KnownSections
      <4>2. ~AliasReply(reply, n, type)
        <5>1. SUFFICES ASSUME AliasReply(reply, n, type) PROVE FALSE
          OBVIOUS
        <5>2. PICK x : x \in Truth(n, "CNAME")
          BY <5>1 DEF AliasReply
        <5>3. PICK rr \in reply.rrs : rr.place = "answer" /\ rr.name = n /\ rr.type = "CNAME"
          BY <5>1, <5>2, RRsHold DEF AliasReply
        <5>4. rr \in Targets(reply)
          BY <1>2, <5>1, <5>3 DEF AliasReply, Targets, In
        <5> QED
          BY <1>10, <5>4
      <4> QED
        BY <4>1, <4>2 DEF KnownReply
    <3>3. Truth(n, type) = {} /\ Truth(n, "CNAME") = {} /\ rcode = IF NameExists(n) THEN "NoError" ELSE "NXDomain"
      BY <2>1, <3>2 DEF DenialReply
    <3>4. (rcode = "NXDomain") = ~NameExists(Top.qname)
      BY <1>2, <3>3
    <3>5. PICK rrs : rrs = RRs("answer", n, type, Truth(n, type))
      OBVIOUS
    <3>6. rrs = {}
      BY <3>3, <3>5 DEF RRs
    <3>7. rrs \subseteq ret /\ \A rr \in ret : rr \in Top.ret \/ rr \in rrs \/ rr.place # "answer"
      BY <1>6, <1>10, <3>6
    <3> QED
      BY <1>1, <1>2, <2>2, <3>3, <3>4, <3>5, <3>7, RightData
  <2> QED
    BY <1>1, <2>1, <2>2, FirstReturns
<1>11. CASE /\ Wanted(reply) = {} /\ Targets(reply) = {} /\ UNCHANGED result
            /\ \E a, S : SetTop([Top EXCEPT !.at = "servers", !.auth = a, !.ret = Ret(reply),
                                            !.nameservers = S])
  <2>1. PICK a, S, f : /\ f = [Top EXCEPT !.at = "servers", !.auth = a, !.ret = ret, !.nameservers = S]
                       /\ SetTop(f)
    BY <1>5, <1>11
  <2>2. IsFrame(f) /\ f.qname = n /\ f.qtype = type /\ f.depth = d /\ f.ret = ret
    BY <1>1, <1>2, <2>1 DEF IsFrame
  <2>3. \A rr \in ret : rr \in Top.ret \/ rr.place # "answer"
    BY <1>6, <1>11
  <2>4. OnTrail'
    BY <1>1, <1>2, <1>4, <2>1, <2>2, <2>3, FirstSets
  <2> QED
    BY <1>1, <1>11, <2>4, AnswerStays
<1>12. CASE /\ Wanted(reply) = {} /\ Targets(reply) = {} /\ UNCHANGED result
            /\ SetTop([NextAddress(Top, Top.ips) EXCEPT !.ret = Ret(reply)])
  <2>1. PICK f : f = [NextAddress(Top, Top.ips) EXCEPT !.ret = ret] /\ SetTop(f)
    BY <1>5, <1>12
  <2>2. IsFrame(f) /\ f.qname = n /\ f.qtype = type /\ f.depth = d /\ f.ret = ret
    BY <1>1, <1>2, <2>1 DEF IsFrame, NextAddress
  <2>3. \A rr \in ret : rr \in Top.ret \/ rr.place # "answer"
    BY <1>6, <1>12
  <2>4. OnTrail'
    BY <1>1, <1>2, <1>4, <2>1, <2>2, <2>3, FirstSets
  <2> QED
    BY <1>1, <1>12, <2>4, AnswerStays
<1>13. \/ Wanted(reply) # {} \/ (Wanted(reply) = {} /\ Targets(reply) # {})
       \/ /\ Wanted(reply) = {} /\ Targets(reply) = {}
          /\ \/ reply.rcode = "NXDomain" \/ (NSs(reply) = {} /\ reply.rcode = "NoError")
             \/ /\ UNCHANGED result
                /\ \E a, S : SetTop([Top EXCEPT !.at = "servers", !.auth = a, !.ret = Ret(reply),
                                                !.nameservers = S])
             \/ /\ UNCHANGED result
                /\ SetTop([NextAddress(Top, Top.ips) EXCEPT !.ret = Ret(reply)])
  BY Zenon DEF Conclude
<1> QED
  BY <1>8, <1>9, <1>10, <1>11, <1>12, <1>13

-----------------------------------------------------------------------------
LEMMA AnswerInit ==
  ASSUME Init
  PROVE  AnswerInv
<1>1. PICK c : c = [k \in {} |-> 0]
  OBVIOUS
<1>2. CacheTrue(c) /\ CacheWhole(c)
  BY <1>1 DEF CacheTrue, CacheWhole
<1>3. CacheWhole(cache)
  BY <1>1, <1>2, PrimeHintsWhole DEF Init
<1>4. AnswersTrue
  BY DEF Init, AnswersTrue
<1> QED
  BY <1>3, <1>4, TruthInit DEF Init, AnswerInv, DenialsSure, OnTrail

LEMMA AnswerStep ==
  ASSUME AnswerInv, [Next]_vars
  PROVE  AnswerInv'
<1>1. TruthInv' /\ TruthInv
  BY TruthStep DEF AnswerInv
<1>2. CacheTrue(cache) /\ CacheWhole(cache) /\ DenialsSure /\ AnswersTrue /\ OnTrail /\ CallsTrue
  BY DEF AnswerInv, TruthInv
<1>3. ASSUME UNCHANGED negcache
      PROVE  DenialsSure'
  BY <1>2, <1>3 DEF DenialsSure
<1>4. ASSUME UNCHANGED <<stack, question>>
      PROVE  OnTrail'
  BY <1>2, <1>4 DEF OnTrail
<1>5. ASSUME NEW q \in Questions, BeginResolve(q)
      PROVE  AnswerInv'
  <2>1. PICK f : f = Frame(q.qname, q.qtype, 0, {}) /\ stack' = <<f>> /\ question' = q
    BY <1>5 DEF BeginResolve
  <2>2. f.at = "resolve" /\ f.qname = q.qname /\ f.qtype = q.qtype /\ f.ret = {} /\ f.depth = 0
    BY <2>1 DEF Frame
  <2>3. FirstCall(f, q)
    BY <2>2, TrailSteps DEF FirstCall
  <2>4. OnTrail'
    BY <2>1, <2>3 DEF OnTrail
  <2>5. result' = none /\ cache' = cache /\ negcache' = negcache
    BY <1>5 DEF BeginResolve
  <2>6. AnswersTrue'
    BY <2>5 DEF AnswersTrue
  <2> QED
    BY <1>1, <1>2, <1>3, <2>4, <2>5, <2>6 DEF AnswerInv
<1>6. CASE TooDeep \/ NoServerLeft
  <2>1. PICK ret : Return(Top, "ServFail", ret)
    BY <1>6 DEF TooDeep, NoServerLeft
  <2>2. stack # <<>> /\ question' = question /\ negcache' = negcache
    BY <1>6 DEF TooDeep, NoServerLeft, At, unchangedBelow
  <2>3. OnTrail' /\ AnswersTrue'
    BY <1>2, <2>1, <2>2, FailsStep
  <2>4. CacheWhole(cache')
    <3>1. CacheWhole(DoAgeCache(cache, Key(Top.auth, "NS"), AgeTime))
      BY <1>2, DoAgeCacheWhole
    <3> QED
      BY <1>2, <1>6, <3>1 DEF TooDeep, NoServerLeft
  <2> QED
    BY <1>1, <1>3, <2>2, <2>3, <2>4 DEF AnswerInv
<1>7. CASE CNAMECacheHit \/ CacheHit
  <2>1. cache' = cache /\ negcache' = negcache
    BY <1>7 DEF CNAMECacheHit, CacheHit
  <2> QED
    BY <1>1, <1>2, <1>3, <1>7, <2>1, AliasSteps, CacheHitStep DEF AnswerInv
<1>8. CASE FindNameservers \/ Reprime
  <2>1. result' = result /\ negcache' = negcache
    BY <1>8 DEF FindNameservers, Reprime
  <2>2. CacheWhole(cache')
    <3>1. CacheWhole(PrimeHints(cache))
      BY <1>2, PrimeHintsWhole
    <3> QED
      BY <1>2, <1>8, <3>1 DEF FindNameservers, Reprime
  <2> QED
    BY <1>1, <1>2, <1>3, <1>8, <2>1, <2>2, LookupFirst, AnswerStays DEF AnswerInv
<1>9. CASE TryNameserver
  <2>1. result' = result /\ negcache' = negcache /\ cache' = cache
    BY <1>9 DEF TryNameserver
  <2> QED
    BY <1>1, <1>2, <1>3, <1>9, <2>1, TryNameserverFirst, AnswerStays DEF AnswerInv
<1>10. CASE TryAddress \/ NoAnswer \/ Truncated \/ ServerFails
  <2>1. negcache' = negcache /\ cache' = cache
    BY <1>10 DEF TryAddress, NoAnswer, Truncated, ServerFails
  <2> QED
    BY <1>1, <1>2, <1>3, <1>10, <2>1, AddressFirst DEF AnswerInv
<1>11. CASE Receive
  <2>1. PICK reply \in Replies(Top.ip, Top.qname, Top.qtype) :
          Reap(reply) /\ Deny(reply) /\ Conclude(reply)
    BY <1>11 DEF Receive
  <2>2. At("wait") /\ question' = question
    BY <1>11 DEF Receive
  <2> QED
    BY <1>1, <1>2, <2>1, <2>2, ReapWhole, DenySure, ConcludeFirst DEF AnswerInv
<1>12. ASSUME NEW time \in 1 .. TTL, Tick(time)
       PROVE  AnswerInv'
  <2>1. /\ stack' = stack /\ question' = question /\ result' = result /\ cache' = Aged(cache, time)
        /\ negcache' = {[e EXCEPT !.left = Older(@, time)] : e \in negcache}
    BY <1>12 DEF Tick
  <2>2. CacheWhole(Aged(cache, time))
    BY <1>2, AgedWhole
  <2>3. ASSUME NEW e \in negcache'
        PROVE  DenialSure(e)
    <3>1. PICK o \in negcache : e = [o EXCEPT !.left = Older(@, time)]
      BY <2>1
    <3>2. DenialTrue(o) /\ DenialSure(o)
      BY <1>1, <1>2 DEF TruthInv, DenialsTrue, DenialsSure
    <3>3. e.name = o.name /\ e.type = o.type
      BY <3>1, <3>2 DEF DenialTrue
    <3> QED
      BY <3>2, <3>3 DEF DenialSure
  <2>4. DenialsSure'
    BY <2>3 DEF DenialsSure
  <2> QED
    BY <1>1, <1>2, <1>4, <2>1, <2>2, <2>4, AnswerStays DEF AnswerInv
<1>13. CASE Evict
  <2>1. /\ stack' = stack /\ question' = question /\ result' = result
        /\ \A e \in negcache' : e \in negcache
    BY <1>13 DEF Evict
  <2>2. \/ cache' = cache
        \/ \E k \in DOMAIN cache : cache' = [x \in DOMAIN cache \ {k} |-> cache[x]]
    BY <1>13 DEF Evict
  <2>3. CacheWhole(cache')
    BY <1>2, <2>2 DEF CacheWhole
  <2>4. DenialsSure'
    BY <1>2, <2>1 DEF DenialsSure
  <2> QED
    BY <1>1, <1>2, <1>4, <2>1, <2>3, <2>4, AnswerStays DEF AnswerInv
<1>14. CASE UNCHANGED vars
  BY <1>1, <1>2, <1>3, <1>4, <1>14, AnswerStays DEF vars, AnswerInv
<1> QED
  BY <1>5, <1>6, <1>7, <1>8, <1>9, <1>10, <1>11, <1>12, <1>13, <1>14 DEF Next, Step

(***************************************************************************)
(* The client's answer is the true one, or SERVFAIL (SyncRes::beginResolve *)
(* and the calls of doResolve below it): all the records of the name that  *)
(* the aliases lead to, and NXDOMAIN just when there is no such name, for  *)
(* every tree of zones and however the caches, the throttle and the        *)
(* misconfigured servers of other zones get in the way.                    *)
(***************************************************************************)
THEOREM AnswersTrueSafe == Spec => []AnswersTrue
<1>1. AnswerInv => AnswersTrue
  BY DEF AnswerInv
<1> QED
  BY <1>1, AnswerInit, AnswerStep, PTL DEF Spec
=============================================================================
