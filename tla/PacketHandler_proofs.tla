------------------------ MODULE PacketHandler_proofs ------------------------
(***************************************************************************)
(* What a DNSSEC client is told about missing data, that the answers are   *)
(* the right ones and that the packet cache keeps no other, for any zones, *)
(* keys, questions and number of retargets.                                *)
(***************************************************************************)
EXTENDS PacketHandler, TLAPS, SequenceTheorems, FiniteSetTheorems, WellFoundedInduction

-----------------------------------------------------------------------------
(* Every set of numbers has a least one. *)
LEMMA LeastNumber ==
  ASSUME NEW T \in SUBSET Nat, T # {}
  PROVE  \E x \in T : \A y \in T : x <= y
<1>1. IsWellFoundedOn(OpToRel(<, Nat), Nat)
  BY NatLessThanWellFounded
<1>2. PICK x \in T : \A y \in T : ~(<<y, x>> \in OpToRel(<, Nat))
  BY <1>1, WFMin
<1>3. \A y \in T : ~(y < x)
  BY <1>2 DEF OpToRel
<1> QED
  BY <1>3

-----------------------------------------------------------------------------
(***************************************************************************)
(* The ends of a name, and the longest of a set of them.                   *)
(***************************************************************************)
LEMMA ChopsAre ==
  ASSUME NEW n \in Name, NEW s \in Chops(n)
  PROVE  /\ s \in Name /\ Len(s) \in Nat /\ Len(n) \in Nat /\ Len(s) <= Len(n)
         /\ s = SubSeq(n, Len(n) - Len(s) + 1, Len(n))
         /\ \A j \in 1 .. Len(s) : s[j] = n[Len(n) - Len(s) + j]
<1>1. PICK i \in 1 .. Len(n) + 1 : s = SubSeq(n, i, Len(n))
  BY DEF Chops
<1>2. Len(n) \in Nat
  BY LenProperties DEF Name
<1>0. \A j \in i .. Len(n) : n[j] \in Label
  BY <1>2, ElementOfSeq DEF Name
<1>3. s \in Name /\ Len(s) = IF i <= Len(n) THEN Len(n) - i + 1 ELSE 0
  BY <1>0, <1>1, <1>2, SubSeqProperties DEF Name
<1>4. Len(s) = Len(n) - i + 1
  BY <1>2, <1>3
<1>5. \A j \in 1 .. Len(s) : s[j] = n[i + j - 1]
  BY <1>0, <1>1, <1>2, <1>4, SubSeqProperties DEF Name
<1>6. i = Len(n) - Len(s) + 1
  BY <1>2, <1>4
<1>7. \A j \in 1 .. Len(s) : s[j] = n[Len(n) - Len(s) + j]
  BY <1>2, <1>4, <1>5
<1>8. s = SubSeq(n, Len(n) - Len(s) + 1, Len(n))
  BY <1>1, <1>6
<1>9. s \in Name /\ Len(s) \in Nat /\ Len(s) <= Len(n)
  BY <1>2, <1>3, <1>4
<1> QED
  BY <1>2, <1>7, <1>8, <1>9

LEMMA ChopsSelf ==
  ASSUME NEW n \in Name
  PROVE  n \in Chops(n) /\ <<>> \in Chops(n)
<1>1. Len(n) \in Nat
  BY LenProperties DEF Name
<1>2. n = SubSeq(n, 1, Len(n)) /\ 1 \in 1 .. Len(n) + 1
  BY <1>1 DEF Name
<1>3. <<>> = SubSeq(n, Len(n) + 1, Len(n)) /\ Len(n) + 1 \in 1 .. Len(n) + 1
  BY <1>1 DEF Name
<1> QED
  BY <1>2, <1>3 DEF Chops

(* Two ends of a name of which one is not longer: it is an end of the other. *)
LEMMA ChopsChain ==
  ASSUME NEW n \in Name, NEW s \in Chops(n), NEW t \in Chops(n), Len(s) <= Len(t)
  PROVE  s \in Chops(t) /\ (Len(s) = Len(t) => s = t)
<1>1. /\ s \in Name /\ t \in Name /\ Len(s) \in Nat /\ Len(t) \in Nat /\ Len(n) \in Nat
      /\ Len(s) <= Len(n) /\ Len(t) <= Len(n)
      /\ \A j \in 1 .. Len(s) : s[j] = n[Len(n) - Len(s) + j]
      /\ \A j \in 1 .. Len(t) : t[j] = n[Len(n) - Len(t) + j]
  BY ChopsAre
<1>2. PICK i : i = Len(t) - Len(s) + 1
  OBVIOUS
<1>3. i \in 1 .. Len(t) + 1
  BY <1>1, <1>2
<1>4. PICK u : u = SubSeq(t, i, Len(t))
  OBVIOUS
<1>5. u \in Name /\ Len(u) = Len(s) /\ \A j \in 1 .. Len(s) : u[j] = t[i + j - 1]
  BY <1>1, <1>2, <1>3, <1>4, SubSeqProperties DEF Name
<1>6. \A j \in 1 .. Len(s) : u[j] = s[j]
  <2>1. SUFFICES ASSUME NEW j \in 1 .. Len(s) PROVE u[j] = s[j]
    OBVIOUS
  <2>2. i + j - 1 \in 1 .. Len(t) /\ Len(n) - Len(t) + (i + j - 1) = Len(n) - Len(s) + j
    BY <1>1, <1>2
  <2> QED
    BY <1>1, <1>5, <2>2
<1>7. u = s
  BY <1>1, <1>5, <1>6, SeqEqual DEF Name
<1>8. Len(s) = Len(t) => s = t
  <2>1. ASSUME Len(s) = Len(t) PROVE \A j \in 1 .. Len(s) : s[j] = t[j]
    BY <1>1, <2>1
  <2> QED
    BY <1>1, <2>1, SeqEqual DEF Name
<1> QED
  BY <1>3, <1>4, <1>7, <1>8 DEF Chops

LEMMA ChopsTrans ==
  ASSUME NEW n \in Name, NEW s \in Chops(n), NEW t \in Chops(s)
  PROVE  t \in Chops(n)
<1>1. /\ s \in Name /\ Len(s) \in Nat /\ Len(n) \in Nat /\ Len(s) <= Len(n)
      /\ \A j \in 1 .. Len(s) : s[j] = n[Len(n) - Len(s) + j]
  BY ChopsAre
<1>2. /\ t \in Name /\ Len(t) \in Nat /\ Len(t) <= Len(s)
      /\ \A j \in 1 .. Len(t) : t[j] = s[Len(s) - Len(t) + j]
  BY <1>1, ChopsAre
<1>3. PICK i : i = Len(n) - Len(t) + 1
  OBVIOUS
<1>4. i \in 1 .. Len(n) + 1
  BY <1>1, <1>2, <1>3
<1>5. PICK u : u = SubSeq(n, i, Len(n))
  OBVIOUS
<1>6. u \in Name /\ Len(u) = Len(t) /\ \A j \in 1 .. Len(t) : u[j] = n[i + j - 1]
  BY <1>1, <1>2, <1>3, <1>4, <1>5, SubSeqProperties DEF Name
<1>7. \A j \in 1 .. Len(t) : u[j] = t[j]
  <2>1. SUFFICES ASSUME NEW j \in 1 .. Len(t) PROVE u[j] = t[j]
    OBVIOUS
  <2>2. Len(s) - Len(t) + j \in 1 .. Len(s)
        /\ Len(n) - Len(s) + (Len(s) - Len(t) + j) = i + j - 1
    BY <1>1, <1>2, <1>3
  <2> QED
    BY <1>1, <1>2, <1>6, <2>2
<1>8. u = t
  BY <1>2, <1>6, <1>7, SeqEqual DEF Name
<1> QED
  BY <1>4, <1>5, <1>8 DEF Chops

LEMMA ChopsStar ==
  ASSUME NEW s \in Name
  PROVE  Star(s) \in Name /\ s \in Chops(Star(s)) /\ Star(s)[1] = "*" /\ Star(s) # <<>>
<1>1. <<"*">> \in Name /\ Len(<<"*">>) = 1 /\ <<"*">>[1] = "*"
  <2>1. <<"*">> \in Seq({"*"}) /\ Len(<<"*">>) = 1 /\ <<"*">>[1] = "*"
    OBVIOUS
  <2>2. {"*"} \subseteq Label
    BY DataAssumption
  <2> QED
    BY <2>1, <2>2, SeqMonotonic DEF Name
<1>2. Len(s) \in Nat
  BY LenProperties DEF Name
<1>3. PICK n : n = Star(s)
  OBVIOUS
<1>4. n \in Name /\ Len(n) = Len(s) + 1
  BY <1>1, <1>2, <1>3, ConcatProperties DEF Name, Star
<1>5. n[1] = "*" /\ \A j \in 1 .. Len(s) : n[j + 1] = s[j]
  BY <1>1, <1>2, <1>3, ConcatProperties DEF Name, Star
<1>6. PICK u : u = SubSeq(n, 2, Len(n))
  OBVIOUS
<1>7. 2 \in 1 .. Len(n) + 1
  BY <1>2, <1>4
<1>8. u \in Name /\ Len(u) = Len(s) /\ \A j \in 1 .. Len(s) : u[j] = n[2 + j - 1]
  BY <1>2, <1>4, <1>6, <1>7, SubSeqProperties DEF Name
<1>9. \A j \in 1 .. Len(s) : u[j] = s[j]
  BY <1>2, <1>5, <1>8
<1>10. u = s
  BY <1>8, <1>9, SeqEqual DEF Name
<1>11. n # <<>>
  BY <1>2, <1>4
<1> QED
  BY <1>3, <1>4, <1>5, <1>6, <1>7, <1>10, <1>11 DEF Chops

LEMMA LongestIn ==
  ASSUME NEW n \in Name, NEW S, S \subseteq Chops(n), S # {}
  PROVE  Longest(S) \in S /\ \A t \in S : Len(t) <= Len(Longest(S))
<1>1. PICK T : T = {Len(n) - Len(s) : s \in S}
  OBVIOUS
<1>2. \A s \in S : Len(s) \in Nat /\ Len(n) \in Nat /\ Len(s) <= Len(n)
  BY ChopsAre
<1>3. T \in SUBSET Nat /\ T # {}
  <2>1. \A s \in S : Len(n) - Len(s) \in Nat
    BY <1>2
  <2> QED
    BY <1>1, <2>1
<1>4. PICK x \in T : \A y \in T : x <= y
  BY <1>3, LeastNumber
<1>5. PICK s \in S : x = Len(n) - Len(s)
  BY <1>1
<1>6. ASSUME NEW t \in S PROVE Len(t) <= Len(s)
  <2>1. Len(n) - Len(t) \in T
    BY <1>1
  <2>2. Len(n) - Len(s) <= Len(n) - Len(t)
    BY <1>4, <1>5, <2>1
  <2> QED
    BY <1>2, <2>2
<1> QED
  BY <1>6 DEF Longest

LEMMA LongestIs ==
  ASSUME NEW n \in Name, NEW S, S \subseteq Chops(n), NEW s \in S, \A t \in S : Len(t) <= Len(s)
  PROVE  Longest(S) = s
<1>1. Longest(S) \in S /\ Len(s) <= Len(Longest(S)) /\ Len(Longest(S)) <= Len(s)
  BY LongestIn
<1>2. Len(s) \in Nat /\ Len(Longest(S)) \in Nat
  BY <1>1, ChopsAre
<1>3. Len(s) = Len(Longest(S))
  BY <1>1, <1>2
<1> QED
  BY <1>1, <1>3, ChopsChain

-----------------------------------------------------------------------------
(***************************************************************************)
(* Packets: what adding records to one keeps, and what it brings.          *)
(***************************************************************************)
IsPacket(x) == {"rcode", "aa", "ra", "rrs"} \subseteq DOMAIN x

LEMMA AddIs ==
  ASSUME NEW x, IsPacket(x), NEW S
  PROVE  /\ IsPacket(Add(x, S))
         /\ Add(x, S).rcode = x.rcode /\ Add(x, S).aa = x.aa /\ Add(x, S).ra = x.ra
         /\ Add(x, S).rrs = x.rrs \cup {a \in S : \A b \in x.rrs : ~Same(a, b)}
<1>1. PICK T : T = x.rrs \cup {a \in S : \A b \in x.rrs : ~Same(a, b)}
  OBVIOUS
<1>2. Add(x, S) = [x EXCEPT !.rrs = T]
  BY <1>1 DEF Add
<1> QED
  BY <1>1, <1>2 DEF IsPacket

LEMMA AddBrings ==
  ASSUME NEW x, IsPacket(x), NEW S
  PROVE  /\ x.rrs \subseteq Add(x, S).rrs
         /\ Add(x, S).rrs \subseteq x.rrs \cup S
         /\ \A a \in S : \E b \in Add(x, S).rrs : Same(a, b)
<1>1. Add(x, S).rrs = x.rrs \cup {a \in S : \A b \in x.rrs : ~Same(a, b)}
  BY AddIs
<1>2. ASSUME NEW a \in S
      PROVE  \E b \in Add(x, S).rrs : Same(a, b)
  <2>1. CASE \E b \in x.rrs : Same(a, b)
    BY <1>1, <2>1
  <2>2. CASE ~\E b \in x.rrs : Same(a, b)
    <3>1. a \in Add(x, S).rrs
      BY <1>1, <2>2
    <3> QED
      BY <3>1 DEF Same
  <2> QED
    BY <2>1, <2>2
<1> QED
  BY <1>1, <1>2

LEMMA RRFields ==
  ASSUME NEW place, NEW n, NEW type, NEW to
  PROVE  /\ RR(place, n, type, to).place = place /\ RR(place, n, type, to).name = n
         /\ RR(place, n, type, to).type = type /\ RR(place, n, type, to).to = to
BY DEF RR

LEMMA PutFields ==
  ASSUME NEW place, NEW n, NEW S, NEW a \in Put(place, n, S)
  PROVE  a.place = place /\ a.name = n /\ \E rr \in S : a.type = rr.type /\ a.to = rr.to
BY RRFields DEF Put

LEMMA NSECFields ==
  ASSUME NEW z, NEW n, NEW mode, NEW a \in AddNSECX(z, n, mode)
  PROVE  /\ a.place = (IF mode = 2 THEN "answer" ELSE "authority")
         /\ a.type = "NSEC" /\ a.name \in Proofs(z, n, mode) /\ a.to = <<>>
BY RRFields DEF AddNSECX

(* A proof that is added is there, or was before. *)
LEMMA NSECBrings ==
  ASSUME NEW x, IsPacket(x), NEW S, NEW z, NEW n, NEW mode, AddNSECX(z, n, mode) \subseteq S,
         NEW a \in Proofs(z, n, mode)
  PROVE  ProofAbout(Add(x, S), a)
<1>1. PICK new : new = RR(IF mode = 2 THEN "answer" ELSE "authority", a, "NSEC", <<>>)
  OBVIOUS
<1>2. new \in S /\ new.type = "NSEC" /\ new.name = a
  BY <1>1, RRFields DEF AddNSECX
<1>3. PICK b \in Add(x, S).rrs : Same(new, b)
  BY <1>2, AddBrings
<1> QED
  BY <1>2, <1>3 DEF Same, ProofAbout

LEMMA ProofStays ==
  ASSUME NEW x, IsPacket(x), NEW S, NEW a, ProofAbout(x, a)
  PROVE  ProofAbout(Add(x, S), a)
BY AddBrings DEF ProofAbout

(* doAdditionalProcessingAndDropAA touches neither answers nor authorities. *)
LEMMA AdditionalIs ==
  ASSUME NEW x, IsPacket(x)
  PROVE  /\ IsPacket(Additional(x)) /\ Additional(x).rcode = x.rcode
         /\ Additional(x).aa = (x.aa /\ \A rr \in Pointers(x) :
                                          rr.type = "NS" => rr.name = <<>> \/ rr.name \in Zones)
         /\ x.rrs \subseteq Additional(x).rrs
         /\ \A rr \in Additional(x).rrs : rr \in x.rrs \/ (rr.place = "additional" /\ rr.type = "A")
         /\ Answers(Additional(x)) = Answers(x)
         /\ Authorities(Additional(x)) = Authorities(x)
<1>1. PICK S : S = UNION {Put("additional", rr.to, Addresses(rr.to)) : rr \in Pointers(x)}
  OBVIOUS
<1>2. ASSUME NEW a \in S PROVE a.place = "additional" /\ a.type = "A"
  <2>1. PICK rr \in Pointers(x) : a \in Put("additional", rr.to, Addresses(rr.to))
    BY <1>1
  <2>2. a.place = "additional" /\ \E b \in Addresses(rr.to) : a.type = b.type
    BY <2>1, PutFields
  <2> QED
    BY <2>2 DEF Addresses, Typed
<1>3. PICK y : y = Add(x, S)
  OBVIOUS
<1>4. /\ IsPacket(y) /\ y.rcode = x.rcode /\ y.aa = x.aa
      /\ x.rrs \subseteq y.rrs /\ y.rrs \subseteq x.rrs \cup S
  BY <1>3, AddIs, AddBrings
<1>5. PICK w : w = [y EXCEPT !.aa = y.aa /\ \A rr \in Pointers(x) :
                                    rr.type = "NS" => rr.name = <<>> \/ rr.name \in Zones]
  OBVIOUS
<1>6. IsPacket(w) /\ w.rcode = y.rcode /\ w.rrs = y.rrs
  BY <1>4, <1>5 DEF IsPacket
<1>7. w.aa = (y.aa /\ \A rr \in Pointers(x) :
                        rr.type = "NS" => rr.name = <<>> \/ rr.name \in Zones)
  BY <1>4, <1>5, Zenon DEF IsPacket
<1>8. Additional(x) = w
  BY <1>1, <1>3, <1>5, Zenon DEF Additional
<1>9. w.aa = (x.aa /\ \A rr \in Pointers(x) :
                        rr.type = "NS" => rr.name = <<>> \/ rr.name \in Zones)
  BY <1>4, <1>7
<1>10. \A rr \in w.rrs : rr \in x.rrs \/ (rr.place = "additional" /\ rr.type = "A")
  BY <1>2, <1>4, <1>6
<1>11. x.rrs \subseteq w.rrs
  BY <1>4, <1>6
<1>12. Answers(w) = Answers(x) /\ Authorities(w) = Authorities(x)
  BY <1>10, <1>11 DEF Answers, Authorities
<1>13. IsPacket(w) /\ w.rcode = x.rcode
  BY <1>4, <1>6
<1> QED
  BY <1>8, <1>9, <1>10, <1>11, <1>12, <1>13

-----------------------------------------------------------------------------
(***************************************************************************)
(* What a DNSSEC client is told about missing data.                        *)
(***************************************************************************)
Closest(q) == {s \in Homes(q.qname) : ~(q.qtype = "DS" /\ s = q.qname)}
Secured(z) == secured[z] \in {"nsec", "nsec3"}
NSNames(x) == {rr.name : rr \in Typed(Authorities(x), "NS")}

(* The packet proves what it does not say, about question q in zone z. *)
Proven(z, q, x) ==
  /\ RR("authority", z, "SOA", <<>>) \in x.rrs => ProofAbout(x, q.qname)
  /\ x.rcode = "NXDomain" => ProofAbout(x, IF secured[z] = "nsec3" THEN Star(z) ELSE z)
  /\ x.aa /\ Answers(x) # {} /\ q.qtype # "RRSIG" /\ ~Exists(z, q.qname)
       => ProofAbout(x, q.qname)
  /\ \A n \in NSNames(x) \ {<<>>} :
       \/ \E rr \in x.rrs : rr.type = "DS" /\ rr.name = n
       \/ ProofAbout(x, IF secured[z] = "nsec3" THEN q.qname ELSE n)
Denies(q, x) ==
  q.do /\ Closest(q) # {} /\ Typed(Answers(x), "CNAME") = {} /\ Secured(Longest(Closest(q)))
    => Proven(Longest(Closest(q)), q, x)

(* The reply while names are still looked up: an answer holds a CNAME, or nothing is in it. *)
Chased ==
  /\ r.rcode = "NoError"
  /\ \A rr \in r.rrs : rr.type = "CNAME" => rr.place = "answer"
  /\ (r.rrs = {} /\ target = p.qname) \/ Typed(Answers(r), "CNAME") # {}

Answering == \A q, x : pc = "sendit" /\ q = p /\ x = r => Denies(q, x)
Keeps == \A e \in pcache : \A q \in Requests : e.key = Key(q) => Denies(q, e.packet)

Shown ==
  \A q, x :
    /\ sent # None
    /\ sent.from \in {"handler", "cache"}
    /\ q = sent.q /\ x = sent.packet
    /\ q.class = "IN" /\ q.form = "query"
    => Denies(q, x)

(* The inductive invariant. *)
DenialInv ==
  /\ db \in Databases
  /\ pc \in {"idle", "retargeted", "sendit"}
  /\ pc # "idle" => p \in Requests /\ IsPacket(r)
  /\ pc = "retargeted" => Chased
  /\ Answering
  /\ Keeps
  /\ Shown

LEMMA DenialProvedIs == DenialProved <=> Shown
<1>1. ASSUME DenialProved PROVE Shown
  <2>1. /\ sent # None
        /\ sent.from \in {"handler", "cache"}
        /\ sent.q.class = "IN" /\ sent.q.form = "query"
        => Denies(sent.q, sent.packet)
    BY <1>1, Zenon DEF DenialProved, Denies, Proven, Closest, Secured, NSNames
  <2> QED
    BY <2>1 DEF Shown
<1>2. ASSUME Shown PROVE DenialProved
  <2>1. /\ sent # None
        /\ sent.from \in {"handler", "cache"}
        /\ sent.q.class = "IN" /\ sent.q.form = "query"
        => Denies(sent.q, sent.packet)
    BY <1>2 DEF Shown
  <2> QED
    BY <2>1 DEF DenialProved, Denies, Proven, Closest, Secured, NSNames
<1> QED
  BY <1>1, <1>2

LEMMA DeniesFixed ==
  ASSUME db' = db, secured' = secured, NEW q, NEW x
  PROVE  Denies(q, x)' = Denies(q, x)
BY DEF Denies, Proven, Closest, Secured, NSNames, Homes, Zones, Exists, ProofAbout, Answers,
       Authorities, Typed, Longest

(* Only the name, the type and the DO bit of the question matter. *)
LEMMA DeniesKey ==
  ASSUME NEW q, NEW q1, Key(q) = Key(q1), NEW x
  PROVE  Denies(q, x) = Denies(q1, x)
<1>1. q.qname = q1.qname /\ q.qtype = q1.qtype /\ q.do = q1.do
  BY DEF Key
<1>2. Closest(q) = Closest(q1)
  BY <1>1 DEF Closest
<1>3. \A z : Proven(z, q, x) = Proven(z, q1, x)
  BY <1>1 DEF Proven
<1> QED
  BY <1>1, <1>2, <1>3 DEF Denies

(***************************************************************************)
(* Three kinds of packets: a denial, an answer and a referral.             *)
(***************************************************************************)
LEMMA DenialIs ==
  ASSUME NEW z, NEW q, NEW x, ProofAbout(x, q.qname), Typed(Authorities(x), "NS") = {},
         x.rcode = "NXDomain" => ProofAbout(x, IF secured[z] = "nsec3" THEN Star(z) ELSE z)
  PROVE  Proven(z, q, x)
BY DEF Proven, NSNames

LEMMA AnswerIs ==
  ASSUME NEW z, NEW q, NEW x, x.rcode # "NXDomain",
         \A rr \in x.rrs : rr.place = "authority" => rr.type \notin {"SOA", "NS"},
         Answers(x) = {} \/ q.qtype = "RRSIG" \/ Exists(z, q.qname) \/ ProofAbout(x, q.qname)
  PROVE  Proven(z, q, x)
<1>1. RR("authority", z, "SOA", <<>>) \notin x.rrs
  BY RRFields
<1>2. NSNames(x) = {}
  BY DEF NSNames, Authorities, Typed
<1> QED
  BY <1>1, <1>2 DEF Proven

LEMMA ReferralIs ==
  ASSUME NEW z, NEW q, NEW x, NEW cut, x.rcode # "NXDomain", ~x.aa,
         \A rr \in x.rrs : rr.place = "authority" => rr.type # "SOA" /\ (rr.type = "NS" => rr.name = cut),
         \/ \E rr \in x.rrs : rr.type = "DS" /\ rr.name = cut
         \/ ProofAbout(x, IF secured[z] = "nsec3" THEN q.qname ELSE cut)
  PROVE  Proven(z, q, x)
<1>1. RR("authority", z, "SOA", <<>>) \notin x.rrs
  BY RRFields
<1>2. NSNames(x) \subseteq {cut}
  BY DEF NSNames, Authorities, Typed
<1> QED
  BY <1>1, <1>2 DEF Proven

LEMMA AdditionalDenies ==
  ASSUME NEW q, NEW x, IsPacket(x), Denies(q, x)
  PROVE  Denies(q, Additional(x))
<1>1. PICK y : y = Additional(x)
  OBVIOUS
<1>2. /\ y.rcode = x.rcode /\ (y.aa => x.aa)
      /\ x.rrs \subseteq y.rrs
      /\ \A rr \in y.rrs : rr \in x.rrs \/ (rr.place = "additional" /\ rr.type = "A")
      /\ Answers(y) = Answers(x) /\ Authorities(y) = Authorities(x)
  BY <1>1, AdditionalIs
<1>3. \A n : ProofAbout(x, n) => ProofAbout(y, n)
  BY <1>2 DEF ProofAbout
<1>4. ASSUME NEW z, Proven(z, q, x) PROVE Proven(z, q, y)
  <2>1. RR("authority", z, "SOA", <<>>) \in y.rrs => RR("authority", z, "SOA", <<>>) \in x.rrs
    BY <1>2, RRFields
  <2>2. NSNames(y) = NSNames(x)
    BY <1>2 DEF NSNames
  <2>3. \A n : (\E rr \in x.rrs : rr.type = "DS" /\ rr.name = n)
                => \E rr \in y.rrs : rr.type = "DS" /\ rr.name = n
    BY <1>2
  <2> QED
    BY <1>2, <1>3, <1>4, <2>1, <2>2, <2>3 DEF Proven
<1> QED
  BY <1>1, <1>2, <1>4 DEF Denies

(***************************************************************************)
(* A round that starts with an empty reply about the name in question.     *)
(***************************************************************************)
Fresh ==
  /\ r.rrs = {} /\ r.rcode = "NoError" /\ target = p.qname
  /\ p.do /\ Closest(p) # {} /\ Secured(Authority)

LEMMA AuthorityIs ==
  ASSUME target = p.qname
  PROVE  GetAuth(target) = Closest(p) /\ Authority = Longest(Closest(p))
<1>1. GetAuth(target) = Closest(p)
  BY DEF GetAuth, Closest, Homes
<1> QED
  BY <1>1 DEF Authority

LEMMA Ends ==
  ASSUME Chased, NEW x, r.rrs \subseteq x.rrs, Fresh => Proven(Authority, p, x)
  PROVE  Denies(p, x)
<1> SUFFICES ASSUME p.do, Closest(p) # {}, Typed(Answers(x), "CNAME") = {},
                    Secured(Longest(Closest(p)))
             PROVE  Proven(Longest(Closest(p)), p, x)
  BY DEF Denies
<1>1. Typed(Answers(r), "CNAME") \subseteq Typed(Answers(x), "CNAME")
  BY DEF Typed, Answers
<1>2. r.rrs = {} /\ target = p.qname /\ r.rcode = "NoError"
  BY <1>1 DEF Chased
<1>3. Authority = Longest(Closest(p))
  BY <1>2, AuthorityIs
<1> QED
  BY <1>2, <1>3 DEF Fresh

LEMMA SecuredIs ==
  ASSUME NEW z, Secured(z)
  PROVE  \A sec \in IsSecuredZone(z) : sec = TRUE
BY DEF Secured, IsSecuredZone

(* In each mode that denies the name in question, its own proof is among those added. *)
LEMMA ProofsHas ==
  ASSUME NEW z, NEW mode \in {0, 1, 2, 3}, p.do, Secured(z)
  PROVE  /\ p.qname \in Proofs(z, p.qname, mode)
         /\ mode = 1 => (IF secured[z] = "nsec3" THEN Star(z) ELSE z) \in Proofs(z, p.qname, mode)
         /\ \A n : (IF secured[z] = "nsec3" THEN p.qname ELSE n) \in Proofs(z, n, mode)
BY DEF Secured, Proofs

LEMMA NOErrorProven ==
  ASSUME NEW x, IsPacket(x), x.rcode = "NoError", p.do, NEW z, Secured(z),
         \A rr \in x.rrs : rr.place = "authority" => rr.type # "NS"
  PROVE  Proven(z, p, MakeNOError(x, z, p.qname, TRUE))
<1>1. PICK S : S = {SOA(z)} \cup AddNSECX(z, p.qname, 0)
  OBVIOUS
<1>2. MakeNOError(x, z, p.qname, TRUE) = Add(x, S)
  BY <1>1 DEF MakeNOError
<1>3. ProofAbout(Add(x, S), p.qname)
  BY <1>1, NSECBrings, ProofsHas
<1>4. \A rr \in S : rr.type # "NS"
  BY <1>1, RRFields, NSECFields DEF SOA
<1>5. \A rr \in Add(x, S).rrs : rr.place = "authority" => rr.type # "NS"
  BY <1>4, AddBrings
<1>6. Typed(Authorities(Add(x, S)), "NS") = {}
  BY <1>5 DEF Typed, Authorities
<1>7. Add(x, S).rcode = "NoError"
  BY AddIs
<1> QED
  BY <1>2, <1>3, <1>6, <1>7, DenialIs

LEMMA NXDomainProven ==
  ASSUME NEW x, IsPacket(x), x.rrs = {}, p.do, NEW z, Secured(z)
  PROVE  Proven(z, p, MakeNXDomain(x, z, p.qname, TRUE))
<1>1. PICK S : S = {SOA(z)} \cup AddNSECX(z, p.qname, 1)
  OBVIOUS
<1>2. PICK y : y = Add(x, S)
  OBVIOUS
<1>3. PICK w : w = [y EXCEPT !.rcode = "NXDomain"]
  OBVIOUS
<1>4. MakeNXDomain(x, z, p.qname, TRUE) = w
  BY <1>1, <1>2, <1>3 DEF MakeNXDomain
<1>5. IsPacket(y)
  BY <1>2, AddIs
<1>6. w.rrs = y.rrs /\ w.rcode = "NXDomain"
  BY <1>3, <1>5 DEF IsPacket
<1>7. ProofAbout(y, p.qname) /\ ProofAbout(y, IF secured[z] = "nsec3" THEN Star(z) ELSE z)
  BY <1>1, <1>2, NSECBrings, ProofsHas
<1>8. ProofAbout(w, p.qname) /\ ProofAbout(w, IF secured[z] = "nsec3" THEN Star(z) ELSE z)
  BY <1>6, <1>7 DEF ProofAbout
<1>9. \A rr \in S : rr.type # "NS"
  BY <1>1, RRFields, NSECFields DEF SOA
<1>10. \A rr \in w.rrs : rr.type # "NS"
  BY <1>2, <1>6, <1>9, AddBrings
<1>11. Typed(Authorities(w), "NS") = {}
  BY <1>10 DEF Typed, Authorities
<1> QED
  BY <1>4, <1>6, <1>8, <1>11, DenialIs

LEMMA ReferralProven ==
  ASSUME NEW x, IsPacket(x), x.rrs = {}, x.rcode = "NoError", p.do, NEW z, Secured(z), NEW n
  PROVE  Proven(z, p, TryReferral(x, z, n, TRUE))
<1>1. PICK cut, N, ds : /\ cut = Longest(Cuts(z, n))
                        /\ N = Put("authority", cut, Typed(At(z, cut), "NS"))
                        /\ ds = Typed(At(z, cut), "DS")
  OBVIOUS
<1>2. PICK y, w : y = Add(x, N) /\ w = [y EXCEPT !.aa = FALSE]
  OBVIOUS
<1>3. PICK S : S = IF ds # {} THEN Put("authority", cut, ds) ELSE AddNSECX(z, cut, 0)
  OBVIOUS
<1>4. PICK v : v = Add(w, S)
  OBVIOUS
<1>5. TryReferral(x, z, n, TRUE) = v
  BY <1>1, <1>2, <1>3, <1>4, Zenon DEF TryReferral
<1>6. IsPacket(y) /\ y.rcode = "NoError" /\ y.rrs \subseteq N
  BY <1>2, AddIs, AddBrings
<1>7. IsPacket(w) /\ w.rcode = "NoError" /\ w.rrs = y.rrs
  BY <1>2, <1>6 DEF IsPacket
<1>8. ~w.aa
  BY <1>2, <1>6, Zenon DEF IsPacket
<1>9. /\ v.rcode = "NoError" /\ v.rrs \subseteq N \cup S /\ v.aa = w.aa
      /\ \A a \in S : \E b \in v.rrs : Same(a, b)
  BY <1>4, <1>6, <1>7, AddIs, AddBrings
<1>10. \A rr \in N : rr.type = "NS" /\ rr.name = cut
  BY <1>1, PutFields DEF Typed
<1>11. CASE ds # {}
  <2>1. PICK d : d \in ds /\ d.type = "DS"
    BY <1>1, <1>11 DEF Typed
  <2>2. PICK a : a = RR("authority", cut, d.type, d.to)
    OBVIOUS
  <2>3. a \in S /\ a.type = "DS" /\ a.name = cut
    BY <1>3, <1>11, <2>1, <2>2, RRFields DEF Put
  <2>4. PICK b \in v.rrs : b.type = "DS" /\ b.name = cut
    BY <1>9, <2>3 DEF Same
  <2>5. \A rr \in S : rr.type = "DS"
    BY <1>1, <1>3, <1>11, PutFields DEF Typed
  <2>6. \A rr \in v.rrs : rr.type # "SOA" /\ (rr.type = "NS" => rr.name = cut)
    BY <1>9, <1>10, <2>5
  <2> QED
    BY <1>5, <1>8, <1>9, <2>4, <2>6, ReferralIs
<1>12. CASE ds = {}
  <2>1. ProofAbout(v, IF secured[z] = "nsec3" THEN p.qname ELSE cut)
    BY <1>3, <1>4, <1>7, <1>12, NSECBrings, ProofsHas
  <2>2. \A rr \in S : rr.type = "NSEC"
    BY <1>3, <1>12, NSECFields
  <2>3. \A rr \in v.rrs : rr.type # "SOA" /\ (rr.type = "NS" => rr.name = cut)
    BY <1>9, <1>10, <2>2
  <2> QED
    BY <1>5, <1>8, <1>9, <2>1, <2>3, ReferralIs
<1> QED
  BY <1>11, <1>12


-----------------------------------------------------------------------------
(* A step that leaves the backends, the packet cache and the last reply alone. *)
LEMMA DenialQuiet ==
  ASSUME DenialInv, UNCHANGED <<db, secured, pcache, sent>>
  PROVE  db' \in Databases /\ Keeps' /\ Shown'
<1>1. \A q, x : Denies(q, x)' = Denies(q, x)
  BY DeniesFixed
<1>2. Keeps'
  BY <1>1 DEF DenialInv, Keeps
<1>3. Shown'
  BY <1>1 DEF DenialInv, Shown
<1> QED
  BY <1>2, <1>3 DEF DenialInv

LEMMA SentDenies ==
  ASSUME UNCHANGED <<db, secured>>, NEW q, NEW x, NEW from, Send(q, x, from),
         from \in {"handler", "cache"} => Denies(q, x)
  PROVE  Shown'
<1>1. sent' = [q |-> q, packet |-> x, from |-> from]
  BY DEF Send
<1>2. sent'.q = q /\ sent'.packet = x /\ sent'.from = from
  BY <1>1
<1>3. Denies(q, x)' = Denies(q, x)
  BY DeniesFixed
<1>4. \A q1, x1 : /\ sent' # None
                  /\ sent'.from \in {"handler", "cache"}
                  /\ q1 = sent'.q /\ x1 = sent'.packet
                  /\ q1.class = "IN" /\ q1.form = "query"
                  => Denies(q1, x1)'
  BY <1>2, <1>3
<1> QED
  BY <1>4 DEF Shown

LEMMA DenialComposed ==
  ASSUME DenialInv, pc = "retargeted", NEW x, IsPacket(x), r.rrs \subseteq x.rrs,
         Fresh => Proven(Authority, p, x), Compose(x)
  PROVE  DenialInv'
<1>1. Denies(p, x)
  BY Ends DEF DenialInv
<1>2. db' \in Databases /\ Keeps' /\ Shown'
  BY DenialQuiet DEF Compose
<1>3. pc' = "sendit" /\ p' = p /\ r' = x /\ UNCHANGED <<db, secured>>
  BY DEF Compose
<1>4. Answering'
  <2>1. \A q, y : Denies(q, y)' = Denies(q, y)
    BY <1>3, DeniesFixed
  <2> QED
    BY <1>1, <1>3, <2>1 DEF Answering
<1>5. pc' # "retargeted" /\ p' \in Requests /\ IsPacket(r')
  BY <1>3 DEF DenialInv
<1> QED
  BY <1>2, <1>3, <1>4, <1>5 DEF DenialInv

LEMMA DenialRetargeted ==
  ASSUME DenialInv, pc = "retargeted", NEW x, NEW to, IsPacket(x), x.rcode = "NoError",
         \A rr \in x.rrs : rr.type = "CNAME" => rr.place = "answer",
         \E rr \in x.rrs : rr.type = "CNAME", Retarget(x, to)
  PROVE  DenialInv'
<1>1. db' \in Databases /\ Keeps' /\ Shown'
  BY DenialQuiet DEF Retarget
<1>2. pc' = "retargeted" /\ p' = p /\ r' = x
  BY DEF Retarget
<1>3. Typed(Answers(x), "CNAME") # {}
  BY DEF Typed, Answers
<1>4. Chased'
  BY <1>2, <1>3 DEF Chased, Typed, Answers
<1>5. Answering' /\ p' \in Requests /\ IsPacket(r')
  BY <1>2 DEF Answering, DenialInv
<1> QED
  BY <1>1, <1>2, <1>4, <1>5 DEF DenialInv

(* The question is done with; what is sent and kept denies what it should. *)
LEMMA DenialDone ==
  ASSUME DenialInv, Idle, UNCHANGED <<db, secured>>, Shown', Keeps'
  PROVE  DenialInv'
<1>1. pc' = "idle"
  BY DEF Idle
<1> QED
  BY <1>1 DEF DenialInv, Answering

LEMMA KeepsSame ==
  ASSUME DenialInv, UNCHANGED <<db, secured>>, pcache' \subseteq pcache
  PROVE  Keeps'
<1>1. \A q, x : Denies(q, x)' = Denies(q, x)
  BY DeniesFixed
<1> QED
  BY <1>1 DEF DenialInv, Keeps

LEMMA KeepsInserted ==
  ASSUME DenialInv, UNCHANGED <<db, secured>>, NEW q, NEW x, Insert(q, x),
         \A q1 \in Requests : Key(q) = Key(q1) => Denies(q1, x)
  PROVE  Keeps'
<1>1. \A q1, y : Denies(q1, y)' = Denies(q1, y)
  BY DeniesFixed
<1>2. PICK new : new = [key |-> Key(q), packet |-> x]
  OBVIOUS
<1>3. pcache' \subseteq pcache \cup {new} /\ new.key = Key(q) /\ new.packet = x
  BY <1>2 DEF Insert
<1> QED
  BY <1>1, <1>3 DEF DenialInv, Keeps

(* A packet without records or NXDomain denies nothing. *)
LEMMA BareProven ==
  ASSUME NEW z, NEW q, NEW x, x.rrs = {}, x.rcode # "NXDomain"
  PROVE  Proven(z, q, x)
<1>1. \A rr \in x.rrs : rr.place = "authority" => rr.type \notin {"SOA", "NS"}
  OBVIOUS
<1>2. Answers(x) = {}
  BY DEF Answers
<1> QED
  BY <1>1, <1>2, AnswerIs

LEMMA ReplyPacketIs ==
  /\ IsPacket(ReplyPacket) /\ ReplyPacket.rrs = {} /\ ReplyPacket.rcode = "NoError"
  /\ ReplyPacket.aa = TRUE
BY DEF ReplyPacket, IsPacket

LEMMA DenialRefuse ==
  ASSUME DenialInv, NEW q, Refuse(q)
  PROVE  DenialInv'
<1>1. PICK rcode, ra : /\ rcode = EarlyRcode(q)
                       /\ ra = (/\ RecursionAvailable(q)
                                /\ q.tsig # "bad"
                                /\ q.form = "query")
  OBVIOUS
<1>2. PICK x : /\ x = [ReplyPacket EXCEPT !.rcode = rcode,
                                 !.ra = /\ RecursionAvailable(q)
                                        /\ q.tsig # "bad"
                                        /\ q.form = "query"]
  OBVIOUS
<1>3. x.rrs = {} /\ x.rcode = rcode
  BY <1>2, ReplyPacketIs DEF IsPacket
<1>4. rcode # "NXDomain"
  BY <1>1 DEF EarlyRcode
<1>5. Send(q, x, "handler")
  BY <1>1, <1>2, Zenon DEF Refuse
<1>6. Denies(q, x)
  BY <1>3, <1>4, BareProven DEF Denies
<1>7. UNCHANGED <<db, secured, pcache, proxied, pc, p, r, target, retargetcount>>
  BY DEF Refuse, locals
<1>8. Shown'
  BY <1>5, <1>6, <1>7, SentDenies
<1>9. Keeps'
  BY <1>7, KeepsSame
<1>10. \A q1, y : Denies(q1, y)' = Denies(q1, y)
  BY <1>7, DeniesFixed
<1>11. Answering'
  BY <1>7, <1>10 DEF DenialInv, Answering
<1>12. Chased' <=> Chased
  BY <1>7 DEF Chased, Typed, Answers
<1> QED
  BY <1>7, <1>8, <1>9, <1>11, <1>12 DEF DenialInv

LEMMA DenialQuestion ==
  ASSUME DenialInv, NEW q \in Requests, QuestionOrRecurse(q)
  PROVE  DenialInv'
<1>1. db' \in Databases /\ Keeps' /\ Shown'
  BY DenialQuiet DEF QuestionOrRecurse
<1>2. p' = q /\ target' = q.qname /\ pc' \in {"sendit", "retargeted"} /\ UNCHANGED <<db, secured>>
  BY DEF QuestionOrRecurse
<1>3. PICK x : x = [ReplyPacket EXCEPT !.ra = RecursionAvailable(q), !.aa = q.class # "ANY"]
  OBVIOUS
<1>4. IsPacket(x) /\ x.rrs = {} /\ x.rcode = "NoError"
  BY <1>3, ReplyPacketIs DEF IsPacket
<1>5. r' = x
  BY <1>3, Zenon DEF QuestionOrRecurse
<1>6. Denies(q, x)
  BY <1>4, BareProven DEF Denies
<1>7. \A q1, y : Denies(q1, y)' = Denies(q1, y)
  BY <1>2, DeniesFixed
<1>8. Answering'
  BY <1>2, <1>5, <1>6, <1>7 DEF Answering
<1>9. Chased'
  BY <1>2, <1>4, <1>5 DEF Chased
<1> QED
  BY <1>1, <1>2, <1>4, <1>5, <1>8, <1>9 DEF DenialInv

LEMMA DenialFromCache ==
  ASSUME DenialInv, NEW q \in Requests, AnswerFromCache(q)
  PROVE  DenialInv'
<1>1. PICK e \in Hit(q) : Send(q, e.packet, "cache")
  BY DEF AnswerFromCache
<1>2. UNCHANGED <<db, secured, pcache, pc, p, r, target, retargetcount>>
  BY DEF AnswerFromCache, locals
<1>3. Denies(q, e.packet)
  BY <1>1 DEF Hit, DenialInv, Keeps
<1>4. Shown'
  BY <1>1, <1>2, <1>3, SentDenies
<1>5. Keeps'
  BY <1>2, KeepsSame
<1>6. \A q1, y : Denies(q1, y)' = Denies(q1, y)
  BY <1>2, DeniesFixed
<1>7. Answering'
  BY <1>2, <1>6 DEF DenialInv, Answering
<1>8. Chased' <=> Chased
  BY <1>2 DEF Chased, Typed, Answers
<1> QED
  BY <1>2, <1>4, <1>5, <1>7, <1>8 DEF DenialInv

LEMMA DenialExpire ==
  ASSUME DenialInv, Expire
  PROVE  DenialInv'
<1>1. pcache' \subseteq pcache /\ UNCHANGED <<db, secured, sent, pc, p, r, target>>
  BY DEF Expire, locals
<1>2. Keeps'
  BY <1>1, KeepsSame
<1>3. \A q1, y : Denies(q1, y)' = Denies(q1, y)
  BY <1>1, DeniesFixed
<1>4. Answering' /\ Shown'
  BY <1>1, <1>3 DEF DenialInv, Answering, Shown
<1>5. Chased' <=> Chased
  BY <1>1 DEF Chased, Typed, Answers
<1> QED
  BY <1>1, <1>2, <1>4, <1>5 DEF DenialInv

(* The recursor's answer is one that denies nothing. *)
LEMMA DenialRelay ==
  ASSUME DenialInv, RelayAnswer
  PROVE  DenialInv'
<1>1. PICK q, do, x :
        /\ x = [rcode |-> "NoError", aa |-> FALSE, ra |-> TRUE,
                rrs |-> {RR("answer", q.qname, q.qtype, <<"FromRecursor">>)}]
        /\ Insert([q EXCEPT !.do = do], x)
        /\ Send(q, x, "recursor")
  BY DEF RelayAnswer
<1>2. UNCHANGED <<db, secured, pc, p, r, target>>
  BY DEF RelayAnswer, locals
<1>3. Shown'
  BY <1>1, <1>2, SentDenies
<1>4. x.rcode # "NXDomain" /\ ~x.aa /\ \A rr \in x.rrs : rr.place = "answer"
  <2>1. PICK a, S : a = RR("answer", q.qname, q.qtype, <<"FromRecursor">>) /\ S = {a}
    OBVIOUS
  <2>2. x = [rcode |-> "NoError", aa |-> FALSE, ra |-> TRUE, rrs |-> S]
    BY <1>1, <2>1
  <2>3. x.aa = FALSE /\ x.rcode = "NoError" /\ x.rrs = S
    <3>1. x.aa = FALSE
      BY <2>2
    <3>2. x.rcode = "NoError"
      BY <2>2
    <3>3. x.rrs = S
      BY <2>2
    <3> QED
      BY <3>1, <3>2, <3>3, Zenon
  <2>4. a.place = "answer"
    BY <2>1 DEF RR
  <2>5. ~x.aa
    BY <2>3, Zenon
  <2> QED
    BY <2>1, <2>3, <2>4, <2>5
<1>5. ASSUME NEW z, NEW q1 PROVE Proven(z, q1, x)
  <2>1. RR("authority", z, "SOA", <<>>) \notin x.rrs
    BY <1>4, RRFields
  <2>2. NSNames(x) = {}
    BY <1>4 DEF NSNames, Authorities, Typed
  <2> QED
    BY <1>4, <2>1, <2>2 DEF Proven
<1>6. \A q1 : Denies(q1, x)
  BY <1>5 DEF Denies
<1>7. Keeps'
  BY <1>1, <1>2, <1>6, KeepsInserted
<1>8. \A q1, y : Denies(q1, y)' = Denies(q1, y)
  BY <1>2, DeniesFixed
<1>9. Answering'
  BY <1>2, <1>8 DEF DenialInv, Answering
<1>10. Chased' <=> Chased
  BY <1>2 DEF Chased, Typed, Answers
<1> QED
  BY <1>2, <1>3, <1>7, <1>9, <1>10 DEF DenialInv

LEMMA DenialSendIt ==
  ASSUME DenialInv, SendIt
  PROVE  DenialInv'
<1>1. PICK x : x = Additional(r)
  OBVIOUS
<1>2. /\ Send(p, x, "handler")
      /\ IF p.tsig = "none" THEN Insert(p, x) ELSE UNCHANGED pcache
      /\ Idle /\ UNCHANGED <<db, secured>> /\ pc = "sendit"
  BY <1>1 DEF SendIt
<1>3. Denies(p, r) /\ IsPacket(r)
  BY <1>2 DEF DenialInv, Answering
<1>4. Denies(p, x)
  BY <1>1, <1>3, AdditionalDenies
<1>5. PICK q : q = p
  OBVIOUS
<1>6. Shown'
  BY <1>2, <1>4, <1>5, SentDenies
<1>7. Keeps'
  <2>1. \A q1 \in Requests : Key(q) = Key(q1) => Denies(q1, x)
    BY <1>4, <1>5, DeniesKey
  <2>2. CASE Insert(q, x)
    BY <1>2, <2>1, <2>2, KeepsInserted
  <2>3. CASE UNCHANGED pcache
    BY <1>2, <2>3, KeepsSame
  <2> QED
    BY <1>2, <1>5, <2>2, <2>3
<1> QED
  BY <1>2, <1>6, <1>7, DenialDone

LEMMA DenialFails ==
  ASSUME DenialInv, BackendFails
  PROVE  DenialInv'
<1>1. PICK x, q : q = p /\ Send(q, x, "failed")
  BY DEF BackendFails
<1>2. Idle /\ UNCHANGED <<db, secured, pcache>>
  BY DEF BackendFails
<1>3. Shown'
  BY <1>1, <1>2, SentDenies
<1>4. Keeps'
  BY <1>2, KeepsSame
<1> QED
  BY <1>2, <1>3, <1>4, DenialDone

LEMMA DenialTooMany ==
  ASSUME DenialInv, TooManyRetargets
  PROVE  DenialInv'
<1>1. PICK x, q : q = p /\ x = ServFail(r) /\ Send(q, x, "handler")
  BY DEF TooManyRetargets
<1>2. Idle /\ UNCHANGED <<db, secured, pcache>> /\ Chased /\ IsPacket(r)
  BY DEF TooManyRetargets, DenialInv
<1>3. x.rrs = r.rrs /\ x.rcode = "ServFail"
  BY <1>1, <1>2 DEF ServFail, IsPacket
<1>4. Fresh => Proven(Authority, p, x)
  BY <1>3, BareProven DEF Fresh
<1>5. Denies(q, x)
  BY <1>1, <1>2, <1>3, <1>4, Ends
<1>6. Shown'
  BY <1>1, <1>2, <1>5, SentDenies
<1>7. Keeps'
  BY <1>2, KeepsSame
<1> QED
  BY <1>2, <1>6, <1>7, DenialDone

LEMMA DenialRecurse ==
  ASSUME DenialInv, Recurse
  PROVE  DenialInv'
<1>1. Idle /\ UNCHANGED <<db, secured, pcache, sent>>
  BY DEF Recurse
<1> QED
  BY <1>1, DenialQuiet, DenialDone

LEMMA DenialNoAnswer ==
  ASSUME DenialInv, GiveNoAnswer
  PROVE  DenialInv'
<1>1. PICK S : S = IF RootReferral THEN {RR("authority", <<>>, "NS", <<"RootServer">>)} ELSE {}
  OBVIOUS
<1>2. PICK y : y = Add(r, S)
  OBVIOUS
<1>3. PICK x : x = [y EXCEPT !.aa = @ /\ retargetcount > 0]
  OBVIOUS
<1>4. Compose(x) /\ pc = "retargeted" /\ GetAuth(target) = {}
  BY <1>1, <1>2, <1>3, Zenon DEF GiveNoAnswer, NoAuthority, Compose
<1>5. IsPacket(r)
  BY <1>4 DEF DenialInv
<1>6. IsPacket(y) /\ r.rrs \subseteq y.rrs
  BY <1>2, <1>5, AddIs, AddBrings
<1>7. IsPacket(x) /\ x.rrs = y.rrs
  BY <1>3, <1>6 DEF IsPacket
<1>8. ~Fresh
  BY <1>4, AuthorityIs DEF Fresh
<1> QED
  BY <1>4, <1>6, <1>7, <1>8, DenialComposed

-----------------------------------------------------------------------------
(***************************************************************************)
(* The rounds that find a zone: each composes a reply that proves what it  *)
(* denies, or follows a CNAME.                                             *)
(***************************************************************************)
LEMMA ZoneFound ==
  ASSUME DenialInv, HaveAuthority
  PROVE  /\ pc = "retargeted" /\ p \in Requests /\ p.qname \in Name
         /\ IsPacket(r) /\ r.rcode = "NoError"
         /\ \A rr \in r.rrs : rr.type = "CNAME" => rr.place = "answer"
BY DataAssumption DEF HaveAuthority, DenialInv, Chased, Question

(* In a secured zone there is nothing to choose. *)
LEMMA FreshSecured ==
  ASSUME Fresh, NEW sec \in IsSecuredZone(Authority)
  PROVE  sec = TRUE /\ p.do /\ Secured(Authority)
BY SecuredIs DEF Fresh

LEMMA TargetIsName ==
  ASSUME Fresh, p \in Requests
  PROVE  /\ target = p.qname /\ target \in Name
         /\ Authority \in Homes(target) /\ GetAuth(target) = Closest(p)
<1>1. p.qname \in Name
  BY DataAssumption DEF Question
<1>2. GetAuth(target) = Closest(p) /\ Authority = Longest(Closest(p)) /\ target = p.qname
  BY AuthorityIs DEF Fresh
<1>3. Closest(p) \subseteq Chops(p.qname) /\ Closest(p) # {} /\ Closest(p) \subseteq Homes(p.qname)
  BY DEF Closest, Homes, Fresh
<1>4. Longest(Closest(p)) \in Closest(p)
  BY <1>1, <1>3, LongestIn
<1> QED
  BY <1>1, <1>2, <1>3, <1>4

LEMMA HereExists ==
  ASSUME NEW z \in Zones, NEW n \in Name, n \in DOMAIN db[z]
  PROVE  Exists(z, n)
BY ChopsSelf DEF Exists

LEMMA DenialApex ==
  ASSUME DenialInv, AnswerApex
  PROVE  DenialInv'
<1>1. PICK S, x : S = ApexRecords(Authority) /\ x = Add(r, S)
  OBVIOUS
<1>2. HaveAuthority /\ S # {} /\ Compose(x)
  BY <1>1, Zenon DEF AnswerApex
<1>3. IsPacket(r) /\ pc = "retargeted" /\ p \in Requests
  BY <1>2, ZoneFound
<1>4. IsPacket(x) /\ r.rrs \subseteq x.rrs /\ x.rrs \subseteq r.rrs \cup S /\ x.rcode = r.rcode
  BY <1>1, <1>3, AddIs, AddBrings
<1>5. ASSUME Fresh PROVE Proven(Authority, p, x)
  <2>1. Authority = p.qname /\ \A rr \in S : rr.place = "answer"
    BY <1>1, <1>2, RRFields DEF ApexRecords
  <2>2. Authority \in Zones /\ target = p.qname /\ target \in Name
    BY <1>3, <1>5, TargetIsName DEF Homes
  <2>3. Authority \in DOMAIN db[Authority]
    BY <2>2, DataAssumption DEF DenialInv, Zones
  <2>4. Exists(Authority, p.qname)
    BY <2>1, <2>2, <2>3, HereExists
  <2>5. \A rr \in x.rrs : rr.place = "answer"
    BY <1>4, <1>5, <2>1 DEF Fresh
  <2>6. x.rcode = "NoError"
    BY <1>4, <1>5 DEF Fresh
  <2> QED
    BY <2>4, <2>5, <2>6, AnswerIs
<1> QED
  BY <1>2, <1>3, <1>4, <1>5, DenialComposed

LEMMA DenialTrump ==
  ASSUME DenialInv, TrumpCNAME
  PROVE  DenialInv'
<1>1. PICK S, x : /\ S = (IF p.qtype = "NSEC" THEN AddNSECX(Authority, target, 2)
                                              ELSE SynthesiseRRSIGs)
                  /\ x = Add(r, S)
  OBVIOUS
<1>2. /\ HaveAuthority /\ Compose(x)
      /\ p.qtype = "NSEC" \/ p.qtype = "RRSIG"
  BY <1>1, Zenon DEF TrumpCNAME, Trumps
<1>3. IsPacket(r) /\ pc = "retargeted" /\ p \in Requests
  BY <1>2, ZoneFound
<1>4. IsPacket(x) /\ r.rrs \subseteq x.rrs /\ x.rrs \subseteq r.rrs \cup S /\ x.rcode = r.rcode
  BY <1>1, <1>3, AddIs, AddBrings
<1>5. ASSUME Fresh PROVE Proven(Authority, p, x)
  <2>1. \A rr \in S : rr.place = "answer"
    <3>1. CASE p.qtype = "NSEC"
      BY <1>1, <3>1, NSECFields
    <3>2. CASE p.qtype # "NSEC"
      BY <1>1, <3>2, RRFields DEF SynthesiseRRSIGs
    <3> QED
      BY <3>1, <3>2
  <2>2. \A rr \in x.rrs : rr.place = "answer"
    BY <1>4, <1>5, <2>1 DEF Fresh
  <2>3. x.rcode = "NoError"
    BY <1>4, <1>5 DEF Fresh
  <2>4. p.qtype = "NSEC" => ProofAbout(x, p.qname)
    <3>1. p.qtype = "NSEC" => AddNSECX(Authority, p.qname, 2) \subseteq S
      BY <1>1, <1>5 DEF Fresh
    <3>2. p.qname \in Proofs(Authority, p.qname, 2)
      BY <1>5, ProofsHas DEF Fresh
    <3> QED
      BY <1>1, <1>3, <3>1, <3>2, NSECBrings
  <2> QED
    BY <1>2, <2>2, <2>3, <2>4, AnswerIs
<1> QED
  BY <1>2, <1>3, <1>4, <1>5, DenialComposed

LEMMA ReferralKeeps ==
  ASSUME NEW x, IsPacket(x), NEW z, NEW n, NEW sec
  PROVE  IsPacket(TryReferral(x, z, n, sec)) /\ x.rrs \subseteq TryReferral(x, z, n, sec).rrs
<1>1. PICK cut, N, ds : /\ cut = Longest(Cuts(z, n))
                        /\ N = Put("authority", cut, Typed(At(z, cut), "NS"))
                        /\ ds = Typed(At(z, cut), "DS")
  OBVIOUS
<1>2. PICK y, w : y = Add(x, N) /\ w = [y EXCEPT !.aa = FALSE]
  OBVIOUS
<1>3. PICK S : S = IF ds # {} THEN Put("authority", cut, ds) ELSE AddNSECX(z, cut, 0)
  OBVIOUS
<1>4. TryReferral(x, z, n, sec) = IF p.do /\ sec THEN Add(w, S) ELSE w
  BY <1>1, <1>2, <1>3, Zenon DEF TryReferral
<1>5. IsPacket(y) /\ x.rrs \subseteq y.rrs
  BY <1>2, AddIs, AddBrings
<1>6. IsPacket(w) /\ w.rrs = y.rrs
  BY <1>2, <1>5 DEF IsPacket
<1>7. IsPacket(Add(w, S)) /\ w.rrs \subseteq Add(w, S).rrs
  BY <1>6, AddIs, AddBrings
<1> QED
  BY <1>4, <1>5, <1>6, <1>7

LEMMA NOErrorKeeps ==
  ASSUME NEW x, IsPacket(x), NEW z, NEW n, NEW sec
  PROVE  IsPacket(MakeNOError(x, z, n, sec)) /\ x.rrs \subseteq MakeNOError(x, z, n, sec).rrs
BY AddIs, AddBrings DEF MakeNOError

LEMMA NXDomainKeeps ==
  ASSUME NEW x, IsPacket(x), NEW z, NEW n, NEW sec
  PROVE  IsPacket(MakeNXDomain(x, z, n, sec)) /\ x.rrs \subseteq MakeNXDomain(x, z, n, sec).rrs
<1>1. PICK S : S = {SOA(z)} \cup (IF p.do /\ sec THEN AddNSECX(z, n, 1) ELSE {})
  OBVIOUS
<1>2. PICK y : y = Add(x, S)
  OBVIOUS
<1>3. PICK w : w = [y EXCEPT !.rcode = "NXDomain"]
  OBVIOUS
<1>4. MakeNXDomain(x, z, n, sec) = w
  BY <1>1, <1>2, <1>3 DEF MakeNXDomain
<1>5. IsPacket(y) /\ x.rrs \subseteq y.rrs
  BY <1>2, AddIs, AddBrings
<1> QED
  BY <1>3, <1>4, <1>5 DEF IsPacket

(* A referral, whichever branch makes it. *)
LEMMA DenialReferral ==
  ASSUME DenialInv, HaveAuthority, NEW sec \in IsSecuredZone(Authority),
         Compose(TryReferral(r, Authority, target, sec))
  PROVE  DenialInv'
<1>1. PICK x, z, n : x = TryReferral(r, z, n, sec) /\ z = Authority /\ n = target
  OBVIOUS
<1>2. IsPacket(r) /\ pc = "retargeted"
  BY ZoneFound
<1>3. IsPacket(x) /\ r.rrs \subseteq x.rrs
  BY <1>1, <1>2, ReferralKeeps
<1>4. ASSUME Fresh PROVE Proven(Authority, p, x)
  <2>1. sec = TRUE /\ p.do /\ Secured(z)
    BY <1>1, <1>4, FreshSecured
  <2>2. r.rrs = {} /\ r.rcode = "NoError"
    BY <1>4 DEF Fresh
  <2>3. Proven(z, p, TryReferral(r, z, n, TRUE))
    BY <1>2, <2>1, <2>2, ReferralProven
  <2> QED
    BY <1>1, <2>1, <2>3
<1>5. Compose(x)
  BY <1>1
<1> QED
  BY <1>2, <1>3, <1>4, <1>5, DenialComposed

(* That the type is not there, whichever branch says so. *)
LEMMA DenialNOError ==
  ASSUME DenialInv, HaveAuthority, NEW sec \in IsSecuredZone(Authority),
         Compose(MakeNOError(r, Authority, target, sec))
  PROVE  DenialInv'
<1>1. PICK x, z, n : x = MakeNOError(r, z, n, sec) /\ z = Authority /\ n = target
  OBVIOUS
<1>2. IsPacket(r) /\ pc = "retargeted"
  BY ZoneFound
<1>3. IsPacket(x) /\ r.rrs \subseteq x.rrs
  BY <1>1, <1>2, NOErrorKeeps
<1>4. ASSUME Fresh PROVE Proven(Authority, p, x)
  <2>1. sec = TRUE /\ p.do /\ Secured(z)
    BY <1>1, <1>4, FreshSecured
  <2>2. r.rrs = {} /\ r.rcode = "NoError" /\ n = p.qname
    BY <1>1, <1>4 DEF Fresh
  <2>3. Proven(z, p, MakeNOError(r, z, p.qname, TRUE))
    BY <1>2, <2>1, <2>2, NOErrorProven
  <2> QED
    BY <1>1, <2>1, <2>2, <2>3
<1>5. Compose(x)
  BY <1>1
<1> QED
  BY <1>2, <1>3, <1>4, <1>5, DenialComposed

LEMMA DenialName ==
  ASSUME DenialInv, DenyName
  PROVE  DenialInv'
<1>1. PICK sec \in IsSecuredZone(Authority) : Compose(MakeNXDomain(r, Authority, target, sec))
  BY DEF DenyName
<1>0. HaveAuthority
  BY DEF DenyName, Nothing, Undenied, Looked, Ordinary
<1>2. PICK x, z, n : x = MakeNXDomain(r, z, n, sec) /\ z = Authority /\ n = target
  OBVIOUS
<1>3. IsPacket(r) /\ pc = "retargeted"
  BY <1>0, ZoneFound
<1>4. IsPacket(x) /\ r.rrs \subseteq x.rrs
  BY <1>2, <1>3, NXDomainKeeps
<1>5. ASSUME Fresh PROVE Proven(Authority, p, x)
  <2>1. sec = TRUE /\ p.do /\ Secured(z)
    BY <1>2, <1>5, FreshSecured
  <2>2. r.rrs = {} /\ r.rcode = "NoError" /\ n = p.qname
    BY <1>2, <1>5 DEF Fresh
  <2>3. Proven(z, p, MakeNXDomain(r, z, p.qname, TRUE))
    BY <1>3, <2>1, <2>2, NXDomainProven
  <2> QED
    BY <1>2, <2>1, <2>2, <2>3
<1>6. Compose(x)
  BY <1>1, <1>2
<1> QED
  BY <1>3, <1>4, <1>5, <1>6, DenialComposed

(* A CNAME is answered and followed: nothing is denied on the way. *)
LEMMA DenialFollow ==
  ASSUME DenialInv, FollowCNAME
  PROVE  DenialInv'
<1>1. PICK rr \in Typed(Recs(Authority), "CNAME") :
        Retarget(Add(r, Put("answer", target, {rr})), rr.to)
  BY DEF FollowCNAME
<1>0. HaveAuthority
  BY DEF FollowCNAME, Something, Undenied, Looked, Ordinary
<1>2. PICK S, x, to : S = Put("answer", target, {rr}) /\ x = Add(r, S) /\ to = rr.to
  OBVIOUS
<1>3. /\ IsPacket(r) /\ pc = "retargeted" /\ r.rcode = "NoError"
      /\ \A a \in r.rrs : a.type = "CNAME" => a.place = "answer"
  BY <1>0, ZoneFound
<1>4. /\ IsPacket(x) /\ r.rrs \subseteq x.rrs /\ x.rrs \subseteq r.rrs \cup S
      /\ x.rcode = r.rcode /\ \A a \in S : \E b \in x.rrs : Same(a, b)
  <2>1. x = Add(r, S) /\ IsPacket(r)
    BY <1>2, <1>3
  <2> QED
    BY <2>1, AddIs, AddBrings
<1>5. \A a \in S : a.place = "answer"
  BY <1>2, PutFields
<1>6. PICK a : a = RR("answer", target, rr.type, rr.to)
  OBVIOUS
<1>7. a \in S /\ a.type = "CNAME"
  BY <1>1, <1>2, <1>6, RRFields DEF Put, Typed
<1>8. \E b \in x.rrs : b.type = "CNAME"
  BY <1>4, <1>7 DEF Same
<1>9. \A b \in x.rrs : b.type = "CNAME" => b.place = "answer"
  BY <1>3, <1>4, <1>5
<1>10. Retarget(x, to)
  BY <1>1, <1>2
<1> QED
  BY <1>3, <1>4, <1>8, <1>9, <1>10, DenialRetargeted

LEMMA DenialRecords ==
  ASSUME DenialInv, AnswerRecords
  PROVE  DenialInv'
<1>1. PICK sec \in IsSecuredZone(Authority) :
        Compose(Add(Add(r, Put("answer", target, {rr \in Recs(Authority) : Wanted(rr)})),
                    CompleteANYRecords(Authority, sec)))
  BY DEF AnswerRecords
<1>0. HaveAuthority /\ Recs(Authority) # {}
  BY DEF AnswerRecords, Something, Undenied, Looked, Ordinary
<1>2. PICK S, T, y, x : /\ S = Put("answer", target, {rr \in Recs(Authority) : Wanted(rr)})
                        /\ T = CompleteANYRecords(Authority, sec)
                        /\ y = Add(r, S)
                        /\ x = Add(y, T)
  OBVIOUS
<1>3. IsPacket(r) /\ pc = "retargeted" /\ p \in Requests
  BY <1>0, ZoneFound
<1>4. IsPacket(y) /\ r.rrs \subseteq y.rrs /\ y.rrs \subseteq r.rrs \cup S /\ y.rcode = r.rcode
  BY <1>2, <1>3, AddIs, AddBrings
<1>5. IsPacket(x) /\ y.rrs \subseteq x.rrs /\ x.rrs \subseteq y.rrs \cup T /\ x.rcode = y.rcode
  BY <1>2, <1>4, AddIs, AddBrings
<1>6. Compose(x)
  BY <1>1, <1>2
<1>7. \A rr \in S : rr.place = "answer"
  BY <1>2, PutFields
<1>8. \A rr \in T : rr.place = "answer"
  <2>1. \A rr \in AddNSECX(Authority, target, 2) : rr.place = "answer"
    BY NSECFields
  <2> QED
    BY <1>2, <2>1, RRFields DEF CompleteANYRecords
<1>9. ASSUME Fresh PROVE Proven(Authority, p, x)
  <2>1. /\ target = p.qname /\ target \in Name /\ Authority \in Zones
        /\ r.rrs = {} /\ r.rcode = "NoError"
    BY <1>3, <1>9, TargetIsName DEF Fresh, Homes
  <2>2. target \in DOMAIN db[Authority]
    BY <1>0 DEF Recs, At
  <2>3. Exists(Authority, p.qname)
    BY <2>1, <2>2, HereExists
  <2>4. \A rr \in x.rrs : rr.place = "answer"
    BY <1>4, <1>5, <1>7, <1>8, <2>1
  <2> QED
    BY <1>4, <1>5, <2>1, <2>3, <2>4, AnswerIs
<1> QED
  BY <1>3, <1>4, <1>5, <1>6, <1>9, DenialComposed

LEMMA DenialUnauth ==
  ASSUME DenialInv, ReferUnauth
  PROVE  DenialInv'
<1>0. HaveAuthority
  BY DEF ReferUnauth, Something, Undenied, Looked, Ordinary
<1>1. CASE Cuts(Authority, target) = {}
  <2>1. Compose(r)
    BY <1>1 DEF ReferUnauth
  <2>2. PICK x : x = r
    OBVIOUS
  <2>3. IsPacket(x) /\ r.rrs \subseteq x.rrs /\ pc = "retargeted" /\ Compose(x)
    BY <1>0, <2>1, <2>2, ZoneFound
  <2>4. Fresh => Proven(Authority, p, x)
    BY <2>2, BareProven DEF Fresh
  <2> QED
    BY <2>3, <2>4, DenialComposed
<1>2. CASE Cuts(Authority, target) # {}
  BY <1>0, <1>2, DenialReferral DEF ReferUnauth
<1> QED
  BY <1>1, <1>2

LEMMA DenialWildcard ==
  ASSUME DenialInv, TryWildcard
  PROVE  DenialInv'
<1>0. HaveAuthority
  BY DEF TryWildcard, Nothing, Undenied, Looked, Ordinary
<1>1. PICK sec \in IsSecuredZone(Authority), again \in IsSecuredZone(Authority) :
       LET rrset == WildcardSet(Authority, target)
           done == Add(Add(r, Put("answer", target, rrset)), WildcardProof(Authority, sec))
       IN IF rrset = {}
          THEN Compose(MakeNOError(done, Authority, target, again))
          ELSE IF Typed(rrset, "CNAME") = {}
          THEN Compose(done)
          ELSE \E rr \in Typed(rrset, "CNAME") : Retarget(done, rr.to)
  BY DEF TryWildcard
<1>2. PICK z, n, R, S, T, y, x :
        /\ z = Authority /\ n = target
        /\ R = WildcardSet(z, n)
        /\ S = Put("answer", n, R)
        /\ T = WildcardProof(z, sec)
        /\ y = Add(r, S)
        /\ x = Add(y, T)
  OBVIOUS
<1>3. /\ IsPacket(r) /\ pc = "retargeted" /\ p \in Requests /\ r.rcode = "NoError"
      /\ \A a \in r.rrs : a.type = "CNAME" => a.place = "answer"
  BY <1>0, ZoneFound
<1>4. /\ IsPacket(y) /\ r.rrs \subseteq y.rrs /\ y.rrs \subseteq r.rrs \cup S
      /\ y.rcode = r.rcode /\ \A a \in S : \E b \in y.rrs : Same(a, b)
  BY <1>2, <1>3, AddIs, AddBrings
<1>5. IsPacket(x) /\ y.rrs \subseteq x.rrs /\ x.rrs \subseteq y.rrs \cup T /\ x.rcode = y.rcode
  BY <1>2, <1>4, AddIs, AddBrings
<1>6. \A a \in S : a.place = "answer"
  BY <1>2, PutFields
<1>7. \A a \in T : a.type = "NSEC"
  BY <1>2, NSECFields DEF WildcardProof
<1>8. \A a \in x.rrs : a.type = "CNAME" => a.place = "answer"
  BY <1>3, <1>4, <1>5, <1>6, <1>7
<1>9. Fresh => r.rrs = {} /\ n = p.qname /\ sec = TRUE /\ again = TRUE /\ p.do /\ Secured(z)
  BY <1>2, FreshSecured DEF Fresh
<1>10. Fresh => ProofAbout(x, p.qname)
  <2>1. Fresh => AddNSECX(z, p.qname, 3) \subseteq T
    BY <1>2, <1>9 DEF WildcardProof
  <2>2. Fresh => p.qname \in Proofs(z, p.qname, 3)
    BY <1>9, ProofsHas
  <2> QED
    BY <1>2, <1>4, <2>1, <2>2, NSECBrings
<1>11. CASE R = {}
  <2>1. PICK w : w = MakeNOError(x, z, n, again)
    OBVIOUS
  <2>2. Compose(w)
    BY <1>1, <1>2, <1>11, <2>1
  <2>3. IsPacket(w) /\ r.rrs \subseteq w.rrs
    BY <1>4, <1>5, <2>1, NOErrorKeeps
  <2>4. ASSUME Fresh PROVE Proven(Authority, p, w)
    <3>1. S = {}
      BY <1>2, <1>11 DEF Put
    <3>2. \A a \in x.rrs : a.place = "authority" => a.type # "NS"
      BY <1>4, <1>5, <1>7, <1>9, <2>4, <3>1
    <3>3. Proven(z, p, MakeNOError(x, z, p.qname, TRUE))
      BY <1>3, <1>4, <1>5, <1>9, <2>4, <3>2, NOErrorProven
    <3> QED
      BY <1>2, <1>9, <2>1, <2>4, <3>3
  <2> QED
    BY <1>3, <2>2, <2>3, <2>4, DenialComposed
<1>12. CASE R # {} /\ Typed(R, "CNAME") = {}
  <2>1. Compose(x)
    BY <1>1, <1>2, <1>12
  <2>2. ASSUME Fresh PROVE Proven(Authority, p, x)
    <3>1. \A a \in x.rrs : a.place = "authority" => a.type \notin {"SOA", "NS"}
      BY <1>4, <1>5, <1>6, <1>7, <1>9, <2>2
    <3> QED
      BY <1>3, <1>4, <1>5, <1>10, <2>2, <3>1, AnswerIs
  <2> QED
    BY <1>3, <1>4, <1>5, <2>1, <2>2, DenialComposed
<1>13. CASE R # {} /\ Typed(R, "CNAME") # {}
  <2>1. PICK rr \in Typed(R, "CNAME") : Retarget(x, rr.to)
    BY <1>1, <1>2, <1>13
  <2>2. PICK to, a : to = rr.to /\ a = RR("answer", n, rr.type, rr.to)
    OBVIOUS
  <2>3. a \in S /\ a.type = "CNAME"
    BY <1>2, <2>1, <2>2, RRFields DEF Put, Typed
  <2>4. \E b \in x.rrs : b.type = "CNAME"
    BY <1>4, <1>5, <2>3 DEF Same
  <2>5. Retarget(x, to) /\ x.rcode = "NoError"
    BY <1>3, <1>4, <1>5, <2>1, <2>2
  <2> QED
    BY <1>3, <1>5, <1>8, <2>4, <2>5, DenialRetargeted
<1> QED
  BY <1>11, <1>12, <1>13

LEMMA DenialInit == Init => DenialInv
<1> SUFFICES ASSUME Init PROVE DenialInv
  OBVIOUS
<1>1. db \in Databases /\ pc = "idle" /\ pcache = {} /\ sent = None
  BY DEF Init
<1> QED
  BY <1>1 DEF DenialInv, Answering, Keeps, Shown

LEMMA DenialInductive == DenialInv /\ [Next]_vars => DenialInv'
<1> SUFFICES ASSUME DenialInv, [Next]_vars PROVE DenialInv'
  OBVIOUS
<1>1. ASSUME NEW q \in Requests, AnswerFromCache(q) PROVE DenialInv'
  BY <1>1, DenialFromCache
<1>2. ASSUME NEW q \in Requests, Refuse(q) PROVE DenialInv'
  BY <1>2, DenialRefuse
<1>3. ASSUME NEW q \in Requests, QuestionOrRecurse(q) PROVE DenialInv'
  BY <1>3, DenialQuestion
<1>4. CASE Step
  <2>1. CASE TooManyRetargets
    BY <2>1, DenialTooMany
  <2>2. CASE Recurse
    BY <2>2, DenialRecurse
  <2>3. CASE GiveNoAnswer
    BY <2>3, DenialNoAnswer
  <2>4. CASE AnswerApex
    BY <2>4, DenialApex
  <2>5. CASE TrumpCNAME
    BY <2>5, DenialTrump
  <2>6. CASE Refer
    <3>1. HaveAuthority
      BY <2>6 DEF Refer, Ordinary
    <3> QED
      BY <2>6, <3>1, DenialReferral DEF Refer
  <2>7. CASE DenyDS
    <3>1. HaveAuthority
      BY <2>7 DEF DenyDS, Looked, Ordinary
    <3> QED
      BY <2>7, <3>1, DenialNOError DEF DenyDS
  <2>8. CASE ReferDS
    <3>1. HaveAuthority
      BY <2>8 DEF ReferDS, Nothing, Undenied, Looked, Ordinary
    <3> QED
      BY <2>8, <3>1, DenialReferral DEF ReferDS
  <2>9. CASE TryWildcard
    BY <2>9, DenialWildcard
  <2>10. CASE DenyName
    BY <2>10, DenialName
  <2>11. CASE FollowCNAME
    BY <2>11, DenialFollow
  <2>12. CASE AnswerRecords
    BY <2>12, DenialRecords
  <2>13. CASE ReferUnauth
    BY <2>13, DenialUnauth
  <2>14. CASE DenyType
    <3>1. HaveAuthority
      BY <2>14 DEF DenyType, Something, Undenied, Looked, Ordinary
    <3> QED
      BY <2>14, <3>1, DenialNOError DEF DenyType
  <2>15. CASE SendIt
    BY <2>15, DenialSendIt
  <2> QED
    BY <1>4, <2>1, <2>2, <2>3, <2>4, <2>5, <2>6, <2>7, <2>8, <2>9, <2>10, <2>11, <2>12,
       <2>13, <2>14, <2>15 DEF Step
<1>5. CASE BackendFails
  BY <1>5, DenialFails
<1>6. CASE RelayAnswer
  BY <1>6, DenialRelay
<1>7. CASE Expire
  BY <1>7, DenialExpire
<1>8. CASE UNCHANGED vars
  <2>1. UNCHANGED <<db, secured, pcache, sent, pc, p, r, target>>
    BY <1>8 DEF vars, locals
  <2>2. \A q, x : Denies(q, x)' = Denies(q, x)
    BY <2>1, DeniesFixed
  <2>3. Answering' /\ Shown' /\ Keeps'
    BY <2>1, <2>2 DEF DenialInv, Answering, Shown, Keeps
  <2>4. Chased' <=> Chased
    BY <2>1 DEF Chased, Typed, Answers
  <2> QED
    BY <2>1, <2>3, <2>4 DEF DenialInv
<1> QED
  BY <1>1, <1>2, <1>3, <1>4, <1>5, <1>6, <1>7, <1>8 DEF Next

(***************************************************************************)
(* A DNSSEC client is told why it gets no data: every reply the handler or *)
(* the packet cache sends about a secured zone, unless it follows a CNAME, *)
(* proves the name or the type it denies away, that a referral has no DS,  *)
(* and that an answer made from a wildcard has no closer name.             *)
(***************************************************************************)
THEOREM DenialProvedSafe == Spec => []DenialProved
<1>1. DenialInv => DenialProved
  BY DenialProvedIs DEF DenialInv
<1> QED
  BY DenialInit, DenialInductive, <1>1, PTL DEF Spec

-----------------------------------------------------------------------------
(***************************************************************************)
(* The answers.  The names a question leads to are what the recursive      *)
(* function Trail says they are: a shortest prefix of it that does not     *)
(* exist would be a longer one that does.                                  *)
(***************************************************************************)
IsTrail(t, q, n) == t = [i \in 0 .. n |-> IF i = 0 THEN q.qname ELSE After(t[i - 1], q.qtype)]

LEMMA TrailGrows ==
  ASSUME NEW q, NEW n \in Nat, n # 0, \E t : IsTrail(t, q, n - 1)
  PROVE  \E t : IsTrail(t, q, n)
<1>1. PICK t : IsTrail(t, q, n - 1)
  OBVIOUS
<1>2. PICK u : u = [i \in 0 .. n |-> IF i = n THEN After(t[n - 1], q.qtype) ELSE t[i]]
  OBVIOUS
<1>3. \A i \in 0 .. n - 1 : u[i] = t[i] /\ t[i] = IF i = 0 THEN q.qname ELSE After(t[i - 1], q.qtype)
  BY <1>1, <1>2 DEF IsTrail
<1>4. u[n] = After(t[n - 1], q.qtype) /\ u[n - 1] = t[n - 1]
  BY <1>2, <1>3
<1>5. ASSUME NEW i \in 0 .. n
      PROVE  u[i] = IF i = 0 THEN q.qname ELSE After(u[i - 1], q.qtype)
  <2>1. CASE i = n
    BY <1>4, <2>1
  <2>2. CASE i # n
    <3>1. i \in 0 .. n - 1 /\ (i # 0 => i - 1 \in 0 .. n - 1)
      BY <2>2
    <3> QED
      BY <1>3, <3>1
  <2> QED
    BY <2>1, <2>2
<1>6. IsTrail(u, q, n)
  BY <1>2, <1>5 DEF IsTrail
<1> QED
  BY <1>6

LEMMA TrailIs ==
  ASSUME NEW q
  PROVE  IsTrail(Trail(q), q, MaxRetargets + 1)
<1>1. PICK T : T = {n \in Nat : ~\E t : IsTrail(t, q, n)}
  OBVIOUS
<1>2. T = {}
  <2>1. SUFFICES ASSUME T # {} PROVE FALSE
    OBVIOUS
  <2>2. PICK n \in T : \A m \in T : n <= m
    BY <1>1, <2>1, LeastNumber
  <2>3. n \in Nat /\ ~\E t : IsTrail(t, q, n)
    BY <1>1
  <2>4. n # 0
    <3>1. PICK t : t = [i \in 0 .. 0 |-> q.qname]
      OBVIOUS
    <3>2. IsTrail(t, q, 0)
      BY <3>1 DEF IsTrail
    <3> QED
      BY <2>3, <3>2
  <2>5. n - 1 \in Nat /\ n - 1 \notin T
    BY <2>2, <2>3, <2>4
  <2>6. \E t : IsTrail(t, q, n - 1)
    BY <1>1, <2>5
  <2> QED
    BY <2>3, <2>4, <2>6, TrailGrows
<1>3. MaxRetargets + 1 \in Nat
  BY DataAssumption
<1>4. \E t : IsTrail(t, q, MaxRetargets + 1)
  BY <1>1, <1>2, <1>3
<1> QED
  BY <1>4, Zenon DEF Trail, IsTrail

LEMMA TrailSteps ==
  ASSUME NEW q
  PROVE  /\ Trail(q)[0] = q.qname
         /\ \A i \in 1 .. MaxRetargets + 1 : Trail(q)[i] = After(Trail(q)[i - 1], q.qtype)
<1>1. PICK t : t = Trail(q)
  OBVIOUS
<1>2. t = [i \in 0 .. MaxRetargets + 1 |-> IF i = 0 THEN q.qname ELSE After(t[i - 1], q.qtype)]
  BY <1>1, TrailIs DEF IsTrail
<1>3. MaxRetargets \in Nat
  BY DataAssumption
<1>4. t[0] = q.qname /\ \A i \in 1 .. MaxRetargets + 1 : t[i] = After(t[i - 1], q.qtype)
  BY <1>2, <1>3
<1> QED
  BY <1>1, <1>4

(* Where a name is no alias the trail ends. *)
LEMMA TrailStays ==
  ASSUME NEW q, NEW d \in 0 .. MaxRetargets + 1, NEW n, n = Trail(q)[d], After(n, q.qtype) = n
  PROVE  \A i \in d .. MaxRetargets + 1 : Trail(q)[i] = n
<1>1. PICK t : t = Trail(q)
  OBVIOUS
<1>0. MaxRetargets \in Nat
  BY DataAssumption
<1>2. PICK T : T = {i \in Nat : d <= i /\ i <= MaxRetargets + 1 /\ t[i] # n}
  OBVIOUS
<1>3. T = {}
  <2>1. SUFFICES ASSUME T # {} PROVE FALSE
    OBVIOUS
  <2>2. PICK i \in T : \A m \in T : i <= m
    BY <1>2, <2>1, LeastNumber
  <2>3. i \in Nat /\ d <= i /\ i <= MaxRetargets + 1 /\ t[i] # n /\ t[d] = n
    BY <1>1, <1>2
  <2>4. i - 1 \in Nat /\ d <= i - 1 /\ i \in 1 .. MaxRetargets + 1
    BY <1>0, <2>3
  <2>5. i - 1 \notin T
    BY <2>2, <2>3
  <2>6. t[i - 1] = n
    BY <1>0, <1>2, <2>3, <2>4, <2>5
  <2>7. t[i] = After(t[i - 1], q.qtype)
    BY <1>1, <2>4, TrailSteps
  <2> QED
    BY <2>3, <2>6, <2>7
<1> QED
  BY <1>0, <1>1, <1>2, <1>3

(***************************************************************************)
(* A question that has led, over k CNAMEs, to the name n.                  *)
(***************************************************************************)
Led(q, k, n) ==
  /\ k \in 0 .. MaxRetargets + 1
  /\ n \in Name /\ n = Trail(q)[k]
  /\ \A i \in 0 .. k - 1 : Verdict(q.qtype, Trail(q)[i]) = "alias"
Links(q, k) == {RR("answer", Trail(q)[i], "CNAME", AliasOf(Trail(q)[i])) : i \in 0 .. k - 1}

LEMMA LedFirst ==
  ASSUME NEW q, q.qname \in Name
  PROVE  Led(q, 0, q.qname) /\ Links(q, 0) = {}
<1>1. 0 \in 0 .. MaxRetargets + 1 /\ 0 .. 0 - 1 = {}
  BY DataAssumption
<1> QED
  BY <1>1, TrailSteps DEF Led, Links

LEMMA LedOn ==
  ASSUME NEW q, NEW k \in 0 .. MaxRetargets, NEW n, Led(q, k, n),
         Verdict(q.qtype, n) = "alias", AliasOf(n) \in Name
  PROVE  /\ Led(q, k + 1, AliasOf(n))
         /\ Links(q, k + 1) = Links(q, k) \cup {RR("answer", n, "CNAME", AliasOf(n))}
<1>0. MaxRetargets \in Nat
  BY DataAssumption
<1>1. k + 1 \in 1 .. MaxRetargets + 1 /\ (k + 1) - 1 = k /\ 0 .. (k + 1) - 1 = (0 .. k - 1) \cup {k}
  BY <1>0
<1>2. Trail(q)[k + 1] = After(Trail(q)[k], q.qtype)
  BY <1>1, TrailSteps
<1>3. Trail(q)[k] = n
  BY DEF Led
<1>4. Trail(q)[k + 1] = AliasOf(n)
  BY <1>2, <1>3 DEF After
<1>5. \A i \in 0 .. (k + 1) - 1 : Verdict(q.qtype, Trail(q)[i]) = "alias"
  BY <1>1, <1>3 DEF Led
<1>6. Links(q, k + 1) = Links(q, k) \cup {RR("answer", n, "CNAME", AliasOf(n))}
  BY <1>1, <1>3 DEF Links
<1>7. k + 1 \in 0 .. MaxRetargets + 1
  BY <1>0
<1> QED
  BY <1>4, <1>5, <1>6, <1>7 DEF Led

(* It has led to its end. *)
LEMMA LedEnds ==
  ASSUME NEW q, NEW k \in 0 .. MaxRetargets, NEW n, Led(q, k, n), Verdict(q.qtype, n) # "alias"
  PROVE  /\ Final(q) = n /\ Outcome(q) = Verdict(q.qtype, n)
         /\ Aliases(q) = Links(q, k)
         /\ n = q.qname <=> k = 0
<1>0. MaxRetargets \in Nat /\ k \in 0 .. MaxRetargets + 1
  BY DataAssumption
<1>1. PICK t : t = Trail(q)
  OBVIOUS
<1>2. t[k] = n /\ After(n, q.qtype) = n /\ \A i \in 0 .. k - 1 : Verdict(q.qtype, t[i]) = "alias"
  BY <1>1 DEF Led, After
<1>3. \A i \in k .. MaxRetargets + 1 : t[i] = n
  BY <1>0, <1>1, <1>2, TrailStays
<1>4. t[MaxRetargets] = n /\ t[MaxRetargets + 1] = n
  BY <1>0, <1>3
<1>5. Final(q) = n /\ Outcome(q) = Verdict(q.qtype, n)
  BY <1>1, <1>4 DEF Final, Outcome
<1>6. {j \in 0 .. MaxRetargets : Verdict(q.qtype, t[j]) = "alias"} = 0 .. k - 1
  <2>1. ASSUME NEW j \in 0 .. MaxRetargets, Verdict(q.qtype, t[j]) = "alias"
        PROVE  j \in 0 .. k - 1
    <3>1. j \notin k .. MaxRetargets + 1
      BY <1>3, <2>1
    <3> QED
      BY <1>0, <3>1
  <2>2. 0 .. k - 1 \subseteq 0 .. MaxRetargets
    BY <1>0
  <2> QED
    BY <1>2, <2>1, <2>2
<1>7. Aliases(q) = Links(q, k)
  BY <1>1, <1>6 DEF Aliases, Links
<1>8. n = q.qname <=> k = 0
  <2>1. t[0] = q.qname
    BY <1>1, TrailSteps
  <2>2. k # 0 => 0 \in 0 .. k - 1
    BY <1>0
  <2> QED
    BY <1>2, <2>1, <2>2
<1> QED
  BY <1>5, <1>7, <1>8

(* It has led on for too long. *)
LEMMA LedTooLong ==
  ASSUME NEW q, NEW n, Led(q, MaxRetargets + 1, n)
  PROVE  Outcome(q) = "TooLong" /\ Aliases(q) = Links(q, MaxRetargets + 1)
<1>1. PICK t : t = Trail(q)
  OBVIOUS
<1>2. MaxRetargets \in 0 .. MaxRetargets /\ 0 .. (MaxRetargets + 1) - 1 = 0 .. MaxRetargets
  BY DataAssumption
<1>3. \A i \in 0 .. MaxRetargets : Verdict(q.qtype, t[i]) = "alias"
  BY <1>1, <1>2 DEF Led
<1>4. {j \in 0 .. MaxRetargets : Verdict(q.qtype, t[j]) = "alias"} = 0 .. MaxRetargets
  BY <1>3
<1>5. Outcome(q) = "TooLong"
  BY <1>1, <1>2, <1>3 DEF Outcome
<1> QED
  BY <1>1, <1>2, <1>4, <1>5 DEF Aliases, Links

-----------------------------------------------------------------------------
(***************************************************************************)
(* The zone that is home to a name, and what it holds there.               *)
(***************************************************************************)
LEMMA HomeIs ==
  ASSUME db \in Databases, NEW n \in Name, Homes(n) # {}
  PROVE  /\ Home(n) \in Zones /\ Home(n) \in Chops(n) /\ Home(n) \in Name
         /\ Home(n) \in DOMAIN db[Home(n)]
<1>1. Homes(n) \subseteq Chops(n)
  BY DEF Homes
<1>2. Home(n) \in Homes(n)
  BY <1>1, LongestIn DEF Home
<1>3. Home(n) \in Zones /\ Home(n) \in Chops(n)
  BY <1>2 DEF Homes
<1> QED
  BY <1>3, DataAssumption DEF Zones

LEMMA AtIs ==
  ASSUME db \in Databases, NEW z \in Zones, NEW n, NEW rr \in At(z, n)
  PROVE  /\ n \in DOMAIN db[z] /\ At(z, n) = db[z][n] /\ n \in Name /\ rr.to \in Name
         /\ rr.type = "CNAME" => At(z, n) = {rr}
         /\ rr.type = "NS" => n = <<>> \/ n[1] # "*"
         /\ rr.auth \/ Delegations(z, n) # {}
<1>1. n \in DOMAIN db[z] /\ At(z, n) = db[z][n]
  BY DEF At
<1>2. /\ n \in Name /\ rr.to \in Name
      /\ rr.type = "CNAME" => db[z][n] = {rr}
      /\ rr.type = "NS" => n = <<>> \/ n[1] # "*"
      /\ rr.auth \/ \E s \in Chops(n) \ Chops(z) :
                       s \in DOMAIN db[z] /\ \E ns \in db[z][s] : ns.type = "NS"
  BY <1>1, DataAssumption DEF Zones
<1> QED
  BY <1>1, <1>2 DEF Delegations

LEMMA HomeOnly ==
  ASSUME db \in Databases, NEW n \in Name, Homes(n) # {}, p.qtype # "DS"
  PROVE  GetAuth(n) = Homes(n) /\ Longest(GetAuth(n)) = Home(n)
BY DEF GetAuth, Homes, Home

(* The ends of a name that are longer than the zone are the names below the apex. *)
LEMMA Below ==
  ASSUME NEW n \in Name, NEW z \in Chops(n), NEW s \in Chops(n)
  PROVE  /\ Len(s) > Len(z) <=> s \notin Chops(z)
         /\ Len(s) >= Len(z) <=> z \in Chops(s)
<1>1. /\ Len(s) \in Nat /\ Len(z) \in Nat /\ s \in Name /\ z \in Name
  BY ChopsAre
<1>2. s \in Chops(z) => Len(s) <= Len(z)
  BY <1>1, ChopsAre
<1>3. z \in Chops(s) => Len(z) <= Len(s)
  BY <1>1, ChopsAre
<1>4. Len(s) <= Len(z) => s \in Chops(z)
  BY ChopsChain
<1>5. Len(z) <= Len(s) => z \in Chops(s)
  BY ChopsChain
<1> QED
  BY <1>1, <1>2, <1>3, <1>4, <1>5

(* The cuts the code finds are the delegations above the name. *)
LEMMA CutsAre ==
  ASSUME db \in Databases, NEW n \in Name, NEW z \in Zones, z \in Chops(n)
  PROVE  Cuts(z, n) = Delegations(z, n)
<1>1. \A s : Typed(At(z, s), "NS") # {} <=> s \in DOMAIN db[z] /\ \E rr \in db[z][s] : rr.type = "NS"
  BY DEF Typed, At
<1>2. \A s \in Chops(n) : Len(s) > Len(z) <=> s \notin Chops(z)
  BY Below
<1> QED
  BY <1>1, <1>2 DEF Cuts, Delegations

(* In a regular zone there is one at most. *)
LEMMA OneCut ==
  ASSUME db \in Databases, NEW n \in Name, NEW z \in Zones, z \in Chops(n), Regular(z),
         NEW s \in Delegations(z, n), NEW t \in Delegations(z, n)
  PROVE  s = t
<1>1. /\ s \in Chops(n) /\ s \in DOMAIN db[z] /\ s \notin Chops(z) /\ \E rr \in db[z][s] : rr.type = "NS"
      /\ t \in Chops(n) /\ t \in DOMAIN db[z] /\ t \notin Chops(z) /\ \E rr \in db[z][t] : rr.type = "NS"
  BY DEF Delegations
<1>2. Len(s) \in Nat /\ Len(t) \in Nat
  BY <1>1, ChopsAre
<1>3. ASSUME NEW u \in Delegations(z, n), NEW v \in Delegations(z, n), Len(u) <= Len(v)
      PROVE  u = v
  <2>1. SUFFICES ASSUME u # v PROVE FALSE
    OBVIOUS
  <2>2. /\ u \in Chops(n) /\ u \in DOMAIN db[z] /\ u \notin Chops(z) /\ \E rr \in db[z][u] : rr.type = "NS"
        /\ v \in Chops(n) /\ v \in DOMAIN db[z] /\ \E rr \in db[z][v] : rr.type = "NS"
    BY DEF Delegations
  <2>3. u \in Chops(v)
    BY <1>3, <2>2, ChopsChain
  <2>4. u \in Delegations(z, v) \ {v}
    BY <2>1, <2>2, <2>3 DEF Delegations
  <2>5. \A rr \in db[z][v] : rr.type = "A"
    BY <2>2, <2>4 DEF Regular
  <2> QED
    BY <2>2, <2>5
<1> QED
  BY <1>2, <1>3

(* The lowest cut is the topmost one. *)
LEMMA CutIs ==
  ASSUME db \in Databases, NEW n \in Name, NEW z \in Zones, z \in Chops(n), Regular(z),
         Delegations(z, n) # {}
  PROVE  Longest(Cuts(z, n)) = Shortest(Delegations(z, n)) /\ Shortest(Delegations(z, n)) \in Delegations(z, n)
<1>1. PICK s : s \in Delegations(z, n)
  OBVIOUS
<1>2. Delegations(z, n) = {s} /\ Cuts(z, n) = {s}
  BY <1>1, OneCut, CutsAre
<1>3. Len(s) \in Nat
  BY <1>1, ChopsAre DEF Delegations
<1>4. Longest({s}) = s /\ Shortest({s}) = s
  BY <1>3 DEF Longest, Shortest
<1> QED
  BY <1>2, <1>4

(* In a regular zone the names that exist are those that have records. *)
LEMMA ExistsIs ==
  ASSUME db \in Databases, NEW n \in Name, NEW z \in Zones, z \in Chops(n), Regular(z)
  PROVE  Exists(z, n) <=> At(z, n) # {}
<1>1. ASSUME Exists(z, n) PROVE At(z, n) # {}
  BY <1>1 DEF Exists, Regular
<1>2. ASSUME At(z, n) # {} PROVE Exists(z, n)
  <2>1. n \in DOMAIN db[z]
    BY <1>2 DEF At
  <2> QED
    BY <2>1, HereExists
<1> QED
  BY <1>1, <1>2

(* The closest encloser of a name that does not exist. *)
LEMMA EncloserIs ==
  ASSUME db \in Databases, NEW n \in Name, NEW z \in Zones, z \in Chops(n), z \in DOMAIN db[z],
         ~Exists(z, n)
  PROVE  /\ Encloser(z, n) \in Chops(n) \ {n} /\ Encloser(z, n) \in Name
         /\ z \in Chops(Encloser(z, n))
         /\ Len(Encloser(z, n)) >= Len(z)
         /\ \A s \in Chops(n) : Exists(z, s) => Len(s) <= Len(Encloser(z, n))
<1>1. PICK S : S = {s \in Chops(n) : Exists(z, s)}
  OBVIOUS
<1>2. z \in S
  BY <1>1, HereExists, ChopsAre
<1>3. S \subseteq Chops(n) /\ S # {}
  BY <1>1, <1>2
<1>4. Longest(S) \in S /\ \A t \in S : Len(t) <= Len(Longest(S))
  BY <1>3, LongestIn
<1>5. Encloser(z, n) = Longest(S)
  BY <1>1 DEF Encloser
<1>6. Encloser(z, n) \in Chops(n) /\ Exists(z, Encloser(z, n)) /\ Len(z) <= Len(Encloser(z, n))
  BY <1>1, <1>2, <1>4, <1>5
<1>7. \A s \in Chops(n) : Exists(z, s) => Len(s) <= Len(Encloser(z, n))
  BY <1>1, <1>4, <1>5
<1>8. Encloser(z, n) # n
  BY <1>6
<1>9. Len(z) \in Nat /\ Len(Encloser(z, n)) \in Nat /\ Encloser(z, n) \in Name
  BY <1>6, ChopsAre
<1>10. z \in Chops(Encloser(z, n))
  BY <1>6, ChopsChain
<1> QED
  BY <1>6, <1>7, <1>8, <1>9, <1>10

(* The wildcard the code finds is the one at the closest encloser. *)
LEMMA WildcardsAre ==
  ASSUME db \in Databases, NEW n \in Name, NEW z \in Zones, z \in Chops(n), z \in DOMAIN db[z],
         RegularFor(z, n), ~Exists(z, n)
  PROVE  /\ Wildcards(z, n) # {} <=> Found(z, n)
         /\ Wildcards(z, n) # {} => Longest(Wildcards(z, n)) = Encloser(z, n)
<1>1. PICK E : E = Encloser(z, n)
  OBVIOUS
<1>2. /\ E \in Chops(n) \ {n} /\ E \in Name /\ z \in Chops(E) /\ Len(E) >= Len(z)
      /\ \A s \in Chops(n) : Exists(z, s) => Len(s) <= Len(E)
  BY <1>1, EncloserIs
<1>3. ASSUME NEW s \in Wildcards(z, n)
      PROVE  /\ s \in Chops(n) /\ Star(s) \in DOMAIN db[z] /\ z \in Chops(s) /\ Len(s) <= Len(E)
  <2>1. s \in Chops(n) /\ Len(s) >= Len(z) /\ Star(s) \in DOMAIN db[z]
    BY DEF Wildcards, At
  <2>2. z \in Chops(s) /\ s \in Name
    BY <2>1, Below, ChopsAre
  <2>3. s \in Chops(Star(s)) /\ Star(s) \in Name
    BY <2>2, ChopsStar
  <2>4. Exists(z, s)
    BY <2>1, <2>3 DEF Exists
  <2> QED
    BY <1>2, <2>1, <2>2, <2>4
<1>4. ASSUME Wildcards(z, n) # {} PROVE Star(E) \in DOMAIN db[z]
  <2>1. PICK s \in Wildcards(z, n) : s \in Chops(n) /\ Star(s) \in DOMAIN db[z] /\ z \in Chops(s)
    BY <1>3, <1>4
  <2> QED
    BY <1>1, <2>1 DEF RegularFor
<1>5. ASSUME Star(E) \in DOMAIN db[z] PROVE E \in Wildcards(z, n)
  <2>1. Star(E) \in Name /\ E \in Chops(Star(E))
    BY <1>2, ChopsStar
  <2>2. z \in Chops(Star(E)) /\ Star(E) \in Chops(Star(E))
    BY <1>2, <2>1, ChopsTrans, ChopsSelf
  <2>3. At(z, Star(E)) # {}
    BY <1>5, <2>2 DEF RegularFor, Regular
  <2> QED
    BY <1>2, <2>3 DEF Wildcards
<1>6. Found(z, n) <=> Star(E) \in DOMAIN db[z]
  BY <1>1 DEF Found
<1>7. ASSUME Wildcards(z, n) # {} PROVE Longest(Wildcards(z, n)) = E
  <2>1. E \in Wildcards(z, n) /\ Wildcards(z, n) \subseteq Chops(n)
    BY <1>4, <1>5, <1>7 DEF Wildcards
  <2>2. \A s \in Wildcards(z, n) : Len(s) <= Len(E)
    BY <1>3
  <2> QED
    BY <2>1, <2>2, LongestIs
<1> QED
  BY <1>1, <1>4, <1>5, <1>6, <1>7

-----------------------------------------------------------------------------
(***************************************************************************)
(* What a question comes to depends on the backends only, and on nothing   *)
(* of the question but its name and type.                                  *)
(***************************************************************************)
LEMMA TrailFixed ==
  ASSUME db' = db, NEW q
  PROVE  Trail(q)' = Trail(q)
BY DEF Trail, After, Verdict, AliasOf, Homes, Home, Zones, Longest, Delegations, Found, Exists,
       Encloser, Node, At, Typed

LEMMA VerdictFixed ==
  ASSUME db' = db, NEW type, NEW n
  PROVE  Verdict(type, n)' = Verdict(type, n) /\ AliasOf(n)' = AliasOf(n)
BY DEF Verdict, AliasOf, Homes, Home, Zones, Longest, Delegations, Found, Exists,
       Encloser, Node, At, Typed

LEMMA RightFixed ==
  ASSUME db' = db, NEW q, NEW x
  PROVE  Right(q, x)' = Right(q, x) /\ InScope(q)' = InScope(q)
<1>1. Trail(q)' = Trail(q)
  BY TrailFixed
<1>2. \A type, n : Verdict(type, n)' = Verdict(type, n) /\ AliasOf(n)' = AliasOf(n)
  BY VerdictFixed
<1>3. Final(q)' = Final(q) /\ Outcome(q)' = Outcome(q) /\ Aliases(q)' = Aliases(q)
  BY <1>1, <1>2 DEF Final, Outcome, Aliases
<1>4. Right(q, x)' = Right(q, x)
  BY <1>3 DEF Right, Home, Homes, Zones, Longest, Shortest, Delegations, Node, Encloser, Exists, At,
              Typed, Answers, Authorities
<1>5. InScope(q)' = InScope(q)
  BY <1>1 DEF InScope, Home, Homes, Zones, Longest, Delegations, Encloser, Exists, At, RegularFor,
              Regular
<1> QED
  BY <1>4, <1>5

(* The reply when the question has led to n, where v is found; its additional records are to come. *)
Reply(q, x, v, n) ==
  /\ x.rcode = CASE v = "TooLong" -> "ServFail"
                 [] v = "NoName" -> "NXDomain"
                 [] OTHER -> "NoError"
  /\ Answers(x) = Aliases(q) \cup
       (IF v = "data" THEN Put("answer", n, Typed(Node(Home(n), n), q.qtype)) ELSE {})
  /\ Authorities(x) =
       CASE v \in {"NoName", "NoData"} -> {RR("authority", Home(n), "SOA", <<>>)}
         [] v = "referral" ->
              Put("authority", Shortest(Delegations(Home(n), n)),
                  Typed(At(Home(n), Shortest(Delegations(Home(n), n))), "NS"))
         [] v = "outside" /\ RootReferral -> {RR("authority", <<>>, "NS", <<"RootServer">>)}
         [] OTHER -> {}
  /\ x.aa = IF n = q.qname THEN v \notin {"outside", "referral"} ELSE v # "referral"
Complete(q, x) ==
  /\ Reply(q, x, Outcome(q), Final(q))
  /\ Outcome(q) # "referral" =>
       \A rr \in Pointers(x) : rr.type = "NS" => rr.name = <<>> \/ rr.name \in Zones
  /\ Outcome(q) = "referral" => Home(Final(q)) \in Zones

(* The reply while CNAMEs are followed: the ones followed so far. *)
Chasing(q, x, k, n) ==
  /\ Led(q, k, n)
  /\ x.rcode = "NoError" /\ x.aa = TRUE
  /\ Answers(x) = Links(q, k)
  /\ \A rr \in x.rrs : rr.place = "answer" \/ (rr.place = "authority" /\ rr.type = "NSEC")

LEMMA ReplyFixed ==
  ASSUME db' = db, NEW q, NEW x
  PROVE  /\ Complete(q, x)' = Complete(q, x)
         /\ \A k, n : Chasing(q, x, k, n)' = Chasing(q, x, k, n)
<1>1. Trail(q)' = Trail(q)
  BY TrailFixed
<1>2. \A type, n : Verdict(type, n)' = Verdict(type, n) /\ AliasOf(n)' = AliasOf(n)
  BY VerdictFixed
<1>3. Final(q)' = Final(q) /\ Outcome(q)' = Outcome(q) /\ Aliases(q)' = Aliases(q)
  BY <1>1, <1>2 DEF Final, Outcome, Aliases
<1>4. \A v, n : Reply(q, x, v, n)' = Reply(q, x, v, n)
  BY <1>3 DEF Reply, Home, Homes, Zones, Longest, Shortest, Delegations, Node, Encloser, Exists, At,
              Typed, Answers, Authorities
<1>5. \A n : Home(n)' = Home(n)
  BY DEF Home, Homes, Zones, Longest
<1>6. Complete(q, x)' = Complete(q, x)
  BY <1>3, <1>4, <1>5 DEF Complete, Pointers, Zones
<1>7. \A k : Links(q, k)' = Links(q, k)
  BY <1>1, <1>2 DEF Links
<1>8. \A k, n : Chasing(q, x, k, n)' = Chasing(q, x, k, n)
  BY <1>1, <1>2, <1>7 DEF Chasing, Led, Answers
<1> QED
  BY <1>6, <1>8

LEMMA RightKey ==
  ASSUME NEW q, NEW q1, q.qname = q1.qname, q.qtype = q1.qtype
  PROVE  /\ \A x : Right(q, x) = Right(q1, x)
         /\ InScope(q) /\ q1.class = "IN" /\ EarlyRcode(q1) = "NoError" => InScope(q1)
<1>1. Trail(q) = Trail(q1)
  BY DEF Trail
<1>2. Final(q) = Final(q1) /\ Outcome(q) = Outcome(q1) /\ Aliases(q) = Aliases(q1)
  BY <1>1 DEF Final, Outcome, Aliases
<1>3. \A x : Right(q, x) = Right(q1, x)
  BY <1>2 DEF Right
<1>4. InScope(q) /\ q1.class = "IN" /\ EarlyRcode(q1) = "NoError" => InScope(q1)
  BY <1>1 DEF InScope
<1> QED
  BY <1>3, <1>4

(* doAdditionalProcessingAndDropAA makes it right: a referral's glue is in its zone. *)
LEMMA CompleteRight ==
  ASSUME NEW q, NEW x, IsPacket(x), Complete(q, x)
  PROVE  Right(q, Additional(x))
<1>1. PICK y, v, n, z, cut, ns :
        /\ y = Additional(x) /\ v = Outcome(q) /\ n = Final(q) /\ z = Home(n)
        /\ cut = Shortest(Delegations(z, n))
        /\ ns = Put("authority", cut, Typed(At(z, cut), "NS"))
  OBVIOUS
<1>2. /\ IsPacket(y) /\ y.rcode = x.rcode
      /\ y.aa = (x.aa /\ \A rr \in Pointers(x) : rr.type = "NS" => rr.name = <<>> \/ rr.name \in Zones)
      /\ Answers(y) = Answers(x) /\ Authorities(y) = Authorities(x)
  BY <1>1, AdditionalIs
<1>3. /\ y.rcode = CASE v = "TooLong" -> "ServFail"
                     [] v = "NoName" -> "NXDomain"
                     [] OTHER -> "NoError"
      /\ Answers(y) = Aliases(q) \cup
           (IF v = "data" THEN Put("answer", n, Typed(Node(z, n), q.qtype)) ELSE {})
      /\ Authorities(y) = CASE v \in {"NoName", "NoData"} -> {RR("authority", z, "SOA", <<>>)}
                            [] v = "referral" -> ns
                            [] v = "outside" /\ RootReferral ->
                                 {RR("authority", <<>>, "NS", <<"RootServer">>)}
                            [] OTHER -> {}
  BY <1>1, <1>2 DEF Complete, Reply
<1>4. y.aa = IF n = q.qname THEN v \notin {"outside", "referral"} ELSE v # "referral"
  <2>1. x.aa = IF n = q.qname THEN v \notin {"outside", "referral"} ELSE v # "referral"
    BY <1>1, Zenon DEF Complete, Reply
  <2>2. CASE v = "referral"
    <3>1. x.aa = FALSE
      BY <2>1, <2>2
    <3>2. y.aa = FALSE
      BY <1>2, <3>1, Zenon
    <3> QED
      BY <2>2, <3>2
  <2>3. CASE v # "referral"
    <3>1. \A rr \in Pointers(x) : rr.type = "NS" => rr.name = <<>> \/ rr.name \in Zones
      BY <1>1, <2>3 DEF Complete
    <3>2. x.aa \in BOOLEAN
      BY <2>1
    <3>3. y.aa = x.aa
      BY <1>2, <3>1, <3>2
    <3> QED
      BY <2>1, <3>3
  <2> QED
    BY <2>2, <2>3
<1>5. ASSUME v = "referral", NEW rr \in ns, NEW a \in Typed(At(z, rr.to), "A")
      PROVE  \E b \in y.rrs : b.name = rr.to /\ b.type = "A"
  <2>1. PICK S : S = UNION {Put("additional", rr1.to, Addresses(rr1.to)) : rr1 \in Pointers(x)}
    OBVIOUS
  <2>2. rr \in Authorities(x)
    BY <1>2, <1>3, <1>5
  <2>3. rr.type = "NS"
    BY <1>1, <1>5, PutFields DEF Typed
  <2>4. rr \in Pointers(x)
    BY <2>2, <2>3 DEF Authorities, Pointers
  <2>5. z \in Zones /\ a \in Addresses(rr.to) /\ a.type = "A"
    BY <1>1, <1>5 DEF Complete, Addresses, Typed
  <2>6. PICK new : new = RR("additional", rr.to, a.type, a.to)
    OBVIOUS
  <2>7. new \in Put("additional", rr.to, Addresses(rr.to))
    BY <2>5, <2>6 DEF Put
  <2>8. new \in S
    BY <2>1, <2>4, <2>7
  <2>9. PICK w : w = Add(x, S)
    OBVIOUS
  <2>10. IsPacket(w) /\ \E b \in w.rrs : Same(new, b)
    BY <2>8, <2>9, AddIs, AddBrings
  <2>11. y = [w EXCEPT !.aa = w.aa /\ \A rr1 \in Pointers(x) :
                                        rr1.type = "NS" => rr1.name = <<>> \/ rr1.name \in Zones]
    BY <1>1, <2>1, <2>9, Zenon DEF Additional
  <2>12. y.rrs = w.rrs
    BY <2>10, <2>11 DEF IsPacket
  <2>13. new.name = rr.to /\ new.type = "A"
    BY <2>5, <2>6, RRFields
  <2> QED
    BY <2>10, <2>12, <2>13 DEF Same
<1>6. v = "referral" =>
        \A rr \in ns : \A a \in Typed(At(z, rr.to), "A") :
          cut \in Chops(rr.to) => \E b \in y.rrs : b.name = rr.to /\ b.type = "A"
  BY <1>5
<1>7. Right(q, y)
  BY <1>1, <1>3, <1>4, <1>6, Zenon DEF Right
<1> QED
  BY <1>1, <1>7

-----------------------------------------------------------------------------
(***************************************************************************)
(* What is added to a reply in which CNAMEs were followed.                 *)
(***************************************************************************)
AnswersIn(S) == {a \in S : a.place = "answer"}
AuthoritiesIn(S) == {a \in S : a.place = "authority" /\ a.type \notin {"NSEC", "DS"}}

(* Records the reply cannot have yet, and proofs. *)
Fits(q, S) ==
  \A a \in S : \/ a.type = "NSEC" /\ a.place = "authority"
               \/ a.type \notin {"NSEC", "CNAME"}
               \/ a.type = "CNAME" /\ q.qtype = "CNAME"

LEMMA LinksAre ==
  ASSUME NEW q, NEW k, NEW n, Led(q, k, n), NEW a \in Links(q, k)
  PROVE  a.place = "answer" /\ a.type = "CNAME" /\ q.qtype # "CNAME"
<1>1. PICK i \in 0 .. k - 1 : a = RR("answer", Trail(q)[i], "CNAME", AliasOf(Trail(q)[i]))
  BY DEF Links
<1>2. a.place = "answer" /\ a.type = "CNAME"
  BY <1>1, RRFields
<1>3. PICK m : m = Trail(q)[i]
  OBVIOUS
<1>4. Verdict(q.qtype, m) = "alias"
  BY <1>3 DEF Led
<1>5. q.qtype # "CNAME"
  BY <1>4 DEF Verdict
<1> QED
  BY <1>2, <1>5

LEMMA Unlike ==
  ASSUME NEW q, NEW x, NEW k, NEW n, Chasing(q, x, k, n), NEW S, Fits(q, S),
         NEW a \in S, ~(a.type = "NSEC" /\ a.place = "authority")
  PROVE  \A b \in x.rrs : ~Same(a, b)
<1>1. SUFFICES ASSUME NEW b \in x.rrs, Same(a, b) PROVE FALSE
  OBVIOUS
<1>2. a.type = b.type
  BY <1>1 DEF Same
<1>3. CASE b.place = "answer"
  <2>1. b \in Links(q, k)
    BY <1>3 DEF Chasing, Answers
  <2>2. b.type = "CNAME" /\ q.qtype # "CNAME"
    BY <2>1, LinksAre DEF Chasing
  <2> QED
    BY <1>2, <2>2 DEF Fits
<1>4. CASE b.place # "answer"
  BY <1>2, <1>4 DEF Chasing, Fits
<1> QED
  BY <1>3, <1>4

(* The reply y once records S that fit were added, k CNAMEs followed before. *)
Fitted(q, k, S, y) ==
  /\ IsPacket(y) /\ y.rcode = "NoError"
  /\ Answers(y) = Links(q, k) \cup AnswersIn(S)
  /\ Authorities(y) = AuthoritiesIn(S)
  /\ \A rr \in y.rrs : rr.type # "NSEC" => rr \in Links(q, k) \cup S

LEMMA AddFits ==
  ASSUME NEW q, NEW x, IsPacket(x), NEW k, NEW n, Chasing(q, x, k, n), NEW S, Fits(q, S)
  PROVE  Fitted(q, k, S, Add(x, S))
<1>1. PICK y : y = Add(x, S)
  OBVIOUS
<1>2. IsPacket(y) /\ y.rcode = "NoError"
  <2>1. IsPacket(y) /\ y.rcode = x.rcode
    BY <1>1, AddIs
  <2> QED
    BY <2>1 DEF Chasing
<1>3. y.rrs = x.rrs \cup {a \in S : \A b \in x.rrs : ~Same(a, b)}
  BY <1>1, AddIs
<1>4. \A a \in S : ~(a.type = "NSEC" /\ a.place = "authority") => a \in y.rrs
  BY <1>3, Unlike
<1>5. y.rrs \subseteq x.rrs \cup S /\ x.rrs \subseteq y.rrs
  BY <1>3
<1>6. Answers(x) = Links(q, k) /\ \A rr \in x.rrs : rr.place = "answer" \/ (rr.place = "authority" /\ rr.type = "NSEC")
  BY DEF Chasing
<1>7. Answers(y) = Links(q, k) \cup AnswersIn(S)
  BY <1>4, <1>5, <1>6 DEF Answers, AnswersIn
<1>8. Authorities(y) = AuthoritiesIn(S)
  BY <1>4, <1>5, <1>6 DEF Authorities, AuthoritiesIn
<1>9. \A rr \in y.rrs : rr.type # "NSEC" => rr \in Links(q, k) \cup S
  BY <1>5, <1>6 DEF Answers
<1>10. Fitted(q, k, S, y)
  BY <1>2, <1>7, <1>8, <1>9 DEF Fitted
<1> QED
  BY <1>1, <1>10

(* Proofs and DS records change neither answers nor authorities. *)
LEMMA AddQuiet ==
  ASSUME NEW x, IsPacket(x), NEW S, \A a \in S : a.place = "authority" /\ a.type \in {"NSEC", "DS"}
  PROVE  /\ IsPacket(Add(x, S)) /\ Add(x, S).rcode = x.rcode
         /\ Add(x, S).aa = x.aa /\ Add(x, S).ra = x.ra
         /\ Answers(Add(x, S)) = Answers(x) /\ Authorities(Add(x, S)) = Authorities(x)
         /\ \A rr \in Add(x, S).rrs : rr.type \notin {"NSEC", "DS"} => rr \in x.rrs
<1>1. PICK y : y = Add(x, S)
  OBVIOUS
<1>2. IsPacket(y) /\ y.rcode = x.rcode /\ y.aa = x.aa /\ y.ra = x.ra
  BY <1>1, AddIs
<1>3. y.rrs \subseteq x.rrs \cup S /\ x.rrs \subseteq y.rrs
  BY <1>1, AddBrings
<1>4. Answers(y) = Answers(x) /\ Authorities(y) = Authorities(x)
  BY <1>3 DEF Answers, Authorities
<1>5. \A rr \in y.rrs : rr.type \notin {"NSEC", "DS"} => rr \in x.rrs
  BY <1>3
<1> QED
  BY <1>1, <1>2, <1>4, <1>5

(* A proof may be added while CNAMEs are followed. *)
LEMMA ChasingProof ==
  ASSUME NEW q, NEW x, IsPacket(x), NEW k, NEW n, Chasing(q, x, k, n),
         NEW S, \A a \in S : a.place = "authority" /\ a.type = "NSEC"
  PROVE  Chasing(q, Add(x, S), k, n) /\ IsPacket(Add(x, S)) /\ Add(x, S).ra = x.ra
<1>1. PICK y : y = Add(x, S)
  OBVIOUS
<1>2. IsPacket(y) /\ y.rcode = x.rcode /\ y.aa = x.aa /\ y.ra = x.ra /\ Answers(y) = Answers(x)
  BY <1>1, AddQuiet
<1>3. y.rrs \subseteq x.rrs \cup S
  BY <1>1, AddBrings
<1>4. \A rr \in y.rrs : rr.place = "answer" \/ (rr.place = "authority" /\ rr.type = "NSEC")
  BY <1>3 DEF Chasing
<1>5. Chasing(q, y, k, n)
  BY <1>2, <1>4 DEF Chasing
<1> QED
  BY <1>1, <1>2, <1>5

(* A CNAME is followed. *)
LEMMA ChasingOn ==
  ASSUME NEW q, NEW x, IsPacket(x), NEW k \in 0 .. MaxRetargets, NEW n, Chasing(q, x, k, n),
         Verdict(q.qtype, n) = "alias", AliasOf(n) \in Name,
         NEW S, S = {RR("answer", n, "CNAME", AliasOf(n))}
  PROVE  Chasing(q, Add(x, S), k + 1, AliasOf(n)) /\ IsPacket(Add(x, S)) /\ Add(x, S).ra = x.ra
<1>1. PICK y, a : y = Add(x, S) /\ a = RR("answer", n, "CNAME", AliasOf(n))
  OBVIOUS
<1>2. IsPacket(y) /\ y.rcode = x.rcode /\ y.aa = x.aa /\ y.ra = x.ra
      /\ y.rrs = x.rrs \cup {c \in S : \A b \in x.rrs : ~Same(c, b)}
  BY <1>1, AddIs
<1>3. a.place = "answer" /\ a.type = "CNAME" /\ a.name = n /\ a.to = AliasOf(n)
  BY <1>1, RRFields
<1>4. Led(q, k + 1, AliasOf(n)) /\ Links(q, k + 1) = Links(q, k) \cup {a}
  BY <1>1, LedOn DEF Chasing
<1>5. ASSUME NEW b \in x.rrs, Same(a, b) PROVE a = b
  <2>1. b.type = "CNAME" /\ b.name = n /\ b.to = AliasOf(n)
    BY <1>3, <1>5 DEF Same
  <2>2. b \in Links(q, k)
    BY <2>1 DEF Chasing, Answers
  <2>3. PICK i \in 0 .. k - 1 : b = RR("answer", Trail(q)[i], "CNAME", AliasOf(Trail(q)[i]))
    BY <2>2 DEF Links
  <2>4. b.name = Trail(q)[i] /\ b.to = AliasOf(Trail(q)[i])
    BY <2>3, RRFields
  <2> QED
    BY <1>1, <2>1, <2>3, <2>4
<1>6. y.rrs = x.rrs \cup {a}
  BY <1>1, <1>2, <1>5
<1>7. Answers(y) = Links(q, k + 1)
  BY <1>3, <1>4, <1>6 DEF Answers, Chasing
<1>8. \A rr \in y.rrs : rr.place = "answer" \/ (rr.place = "authority" /\ rr.type = "NSEC")
  BY <1>3, <1>6 DEF Chasing
<1>9. y.rcode = "NoError" /\ y.aa = TRUE
  BY <1>2 DEF Chasing
<1>10. Chasing(q, y, k + 1, AliasOf(n))
  BY <1>4, <1>7, <1>8, <1>9 DEF Chasing
<1> QED
  BY <1>1, <1>2, <1>10

(***************************************************************************)
(* The reply is complete when the question has led to its end.             *)
(***************************************************************************)
HasAA(x, v, k) == x.aa = (v # "referral" /\ (v = "outside" => k # 0))

LEMMA Completed ==
  ASSUME NEW q, NEW k \in 0 .. MaxRetargets, NEW n, Led(q, k, n),
         NEW v, v = Verdict(q.qtype, n), v # "alias", NEW x,
         x.rcode = IF v = "NoName" THEN "NXDomain" ELSE "NoError",
         Answers(x) = Links(q, k) \cup
           (IF v = "data" THEN Put("answer", n, Typed(Node(Home(n), n), q.qtype)) ELSE {}),
         Authorities(x) =
           CASE v \in {"NoName", "NoData"} -> {RR("authority", Home(n), "SOA", <<>>)}
             [] v = "referral" ->
                  Put("authority", Shortest(Delegations(Home(n), n)),
                      Typed(At(Home(n), Shortest(Delegations(Home(n), n))), "NS"))
             [] v = "outside" /\ RootReferral -> {RR("authority", <<>>, "NS", <<"RootServer">>)}
             [] OTHER -> {},
         HasAA(x, v, k),
         v # "referral" => \A rr \in Pointers(x) : rr.type = "NS" => rr.name = <<>> \/ rr.name \in Zones,
         v = "referral" => Home(n) \in Zones
  PROVE  Complete(q, x)
<1>1. Final(q) = n /\ Outcome(q) = v /\ Aliases(q) = Links(q, k) /\ (n = q.qname <=> k = 0)
  BY LedEnds
<1>2. v # "TooLong"
  BY DEF Verdict
<1>3. x.aa = IF n = q.qname THEN v \notin {"outside", "referral"} ELSE v # "referral"
  BY <1>1 DEF HasAA
<1>4. Reply(q, x, v, n)
  BY <1>1, <1>2, <1>3 DEF Reply
<1> QED
  BY <1>1, <1>4 DEF Complete

-----------------------------------------------------------------------------
(***************************************************************************)
(* What the branches of a round find is what the name comes to.            *)
(***************************************************************************)
LEMMA ScopeIs ==
  ASSUME NEW q, InScope(q)
  PROVE  /\ q.class = "IN" /\ EarlyRcode(q) = "NoError"
         /\ q.qtype \in {"A", "MX", "NS", "CNAME"}
         /\ \A k \in 0 .. MaxRetargets : \A n :
              Led(q, k, n) /\ Homes(n) # {} => RegularFor(Home(n), n)
         /\ \A k \in 0 .. MaxRetargets : \A n :
              Led(q, k, n) /\ Homes(n) # {} /\ q.qtype = "CNAME" => Exists(Home(n), n)
<1>1. /\ q.class = "IN" /\ EarlyRcode(q) = "NoError"
      /\ q.qtype \in {"A", "MX", "NS", "CNAME"}
  BY DEF InScope
<1>2. ASSUME NEW k \in 0 .. MaxRetargets, NEW n, Led(q, k, n), Homes(n) # {}
      PROVE  RegularFor(Home(n), n)
  BY <1>2 DEF InScope, Led
<1>3. ASSUME NEW k \in 0 .. MaxRetargets, NEW n, Led(q, k, n), Homes(n) # {}, q.qtype = "CNAME"
      PROVE  Exists(Home(n), n)
  <2>1. k = 0
    <3>1. \A i \in 0 .. k - 1 : Verdict(q.qtype, Trail(q)[i]) # "alias"
      BY <1>3 DEF Verdict
    <3>2. 0 \notin 0 .. k - 1
      BY <1>3, <3>1 DEF Led
    <3> QED
      BY <3>2, DataAssumption
  <2>2. n = q.qname
    BY <1>3, <2>1, TrailSteps DEF Led
  <2>3. Home(n) \in Homes(n)
    <3>1. n \in Name /\ Homes(n) \subseteq Chops(n)
      BY <1>3 DEF Led, Homes
    <3> QED
      BY <1>3, <3>1, LongestIn DEF Home
  <2> QED
    BY <1>3, <2>2, <2>3 DEF InScope
<1> QED
  BY <1>1, <1>2, <1>3

LEMMA ReferralFound ==
  ASSUME db \in Databases, NEW n \in Name, Homes(n) # {}, NEW type
  PROVE  Cuts(Home(n), n) # {} <=> Verdict(type, n) = "referral"
<1>1. Cuts(Home(n), n) = Delegations(Home(n), n)
  BY HomeIs, CutsAre
<1> QED
  BY <1>1 DEF Verdict

(* There are records at the name, all of them authoritative. *)
LEMMA RecordsFound ==
  ASSUME db \in Databases, NEW n \in Name, Homes(n) # {}, NEW z, z = Home(n), RegularFor(z, n),
         Cuts(z, n) = {}, At(z, n) # {}, NEW type
  PROVE  /\ Node(z, n) = At(z, n) /\ \A rr \in At(z, n) : rr.auth
         /\ Verdict(type, n) = IF Typed(At(z, n), "CNAME") # {} /\ type # "CNAME" THEN "alias"
                               ELSE IF Typed(At(z, n), type) # {} THEN "data" ELSE "NoData"
<1>1. z \in Zones /\ z \in Chops(n) /\ Delegations(z, n) = {}
  BY HomeIs, CutsAre
<1>2. Exists(z, n)
  BY <1>1, ExistsIs DEF RegularFor
<1>3. Node(z, n) = At(z, n) /\ Found(z, n)
  BY <1>2 DEF Node, Found
<1>4. \A rr \in At(z, n) : rr.auth
  BY <1>1, AtIs
<1> QED
  BY <1>1, <1>3, <1>4 DEF Verdict

(* There are none: what counts is the wildcard. *)
LEMMA WildcardFound ==
  ASSUME db \in Databases, NEW n \in Name, Homes(n) # {}, NEW z, z = Home(n), RegularFor(z, n),
         Cuts(z, n) = {}, At(z, n) = {}, NEW type
  PROVE  /\ ~Exists(z, n)
         /\ Wildcards(z, n) = {} => Verdict(type, n) = "NoName"
         /\ Wildcards(z, n) # {} =>
              /\ Node(z, n) = At(z, Star(Longest(Wildcards(z, n))))
              /\ Verdict(type, n) = IF Typed(Node(z, n), "CNAME") # {} /\ type # "CNAME" THEN "alias"
                                    ELSE IF Typed(Node(z, n), type) # {} THEN "data" ELSE "NoData"
<1>1. z \in Zones /\ z \in Chops(n) /\ z \in DOMAIN db[z] /\ Delegations(z, n) = {}
  BY HomeIs, CutsAre
<1>2. ~Exists(z, n)
  BY <1>1, ExistsIs DEF RegularFor
<1>3. /\ Wildcards(z, n) # {} <=> Found(z, n)
      /\ Wildcards(z, n) # {} => Longest(Wildcards(z, n)) = Encloser(z, n)
  BY <1>1, <1>2, WildcardsAre
<1>4. Node(z, n) = At(z, Star(Encloser(z, n)))
  BY <1>2 DEF Node
<1>5. Wildcards(z, n) = {} => Verdict(type, n) = "NoName"
  BY <1>1, <1>3 DEF Verdict
<1>6. Wildcards(z, n) # {} =>
         Verdict(type, n) = IF Typed(Node(z, n), "CNAME") # {} /\ type # "CNAME" THEN "alias"
                            ELSE IF Typed(Node(z, n), type) # {} THEN "data" ELSE "NoData"
  BY <1>1, <1>3 DEF Verdict
<1> QED
  BY <1>2, <1>3, <1>4, <1>5, <1>6

(* The records a name comes to are those of one name of the zone. *)
LEMMA NodeIs ==
  ASSUME db \in Databases, NEW n \in Name, Homes(n) # {}, NEW z, z = Home(n), NEW rr \in Node(z, n)
  PROVE  /\ rr.to \in Name
         /\ rr.type = "CNAME" => Node(z, n) = {rr}
         /\ rr.type = "NS" /\ Delegations(z, n) = {} => n \in Zones
<1>1. z \in Zones /\ z \in Chops(n) /\ z \in DOMAIN db[z]
  BY HomeIs
<1>2. CASE Exists(z, n)
  <2>1. Node(z, n) = At(z, n)
    BY <1>2 DEF Node
  <2>2. /\ rr.to \in Name
        /\ rr.type = "CNAME" => At(z, n) = {rr}
        /\ n \in DOMAIN db[z] /\ rr \in db[z][n]
    BY <1>1, <2>1, AtIs
  <2>3. ASSUME rr.type = "NS", Delegations(z, n) = {} PROVE n \in Zones
    <3>1. n \in Chops(n)
      BY ChopsSelf
    <3>2. n \in Chops(z)
      BY <2>2, <2>3, <3>1 DEF Delegations
    <3>3. Len(n) = Len(z)
      BY <1>1, <3>1, <3>2, ChopsAre
    <3>4. n = z
      BY <1>1, <3>1, <3>3, ChopsAre, ChopsChain
    <3> QED
      BY <1>1, <3>4
  <2> QED
    BY <2>1, <2>2, <2>3
<1>3. CASE ~Exists(z, n)
  <2>1. PICK m : m = Star(Encloser(z, n))
    OBVIOUS
  <2>2. Encloser(z, n) \in Name
    BY <1>1, <1>3, EncloserIs
  <2>3. m # <<>> /\ m[1] = "*"
    BY <2>1, <2>2, ChopsStar
  <2>4. Node(z, n) = At(z, m)
    BY <1>3, <2>1 DEF Node
  <2>5. /\ rr.to \in Name
        /\ rr.type = "CNAME" => At(z, m) = {rr}
        /\ rr.type = "NS" => m = <<>> \/ m[1] # "*"
    BY <1>1, <2>4, AtIs
  <2> QED
    BY <2>3, <2>4, <2>5
<1> QED
  BY <1>2, <1>3

(* An alias has one target. *)
LEMMA AliasIs ==
  ASSUME db \in Databases, NEW n \in Name, Homes(n) # {}, NEW z, z = Home(n),
         NEW rr \in Typed(Node(z, n), "CNAME")
  PROVE  Node(z, n) = {rr} /\ AliasOf(n) = rr.to /\ rr.to \in Name
<1>1. rr \in Node(z, n) /\ rr.type = "CNAME"
  BY DEF Typed
<1>2. Node(z, n) = {rr} /\ rr.to \in Name
  BY <1>1, NodeIs
<1>3. Typed(Node(z, n), "CNAME") = {rr}
  BY <1>1, <1>2 DEF Typed
<1>4. AliasOf(n) = rr.to
  <2>1. PICK a : a = CHOOSE b \in {rr} : TRUE
    OBVIOUS
  <2>2. a = rr
    BY <2>1
  <2> QED
    BY <1>3, <2>1, <2>2 DEF AliasOf
<1> QED
  BY <1>2, <1>4

-----------------------------------------------------------------------------
(***************************************************************************)
(* The replies a round ends with.                                          *)
(***************************************************************************)
LEMMA RoundTooLong ==
  ASSUME NEW q, NEW x, IsPacket(x), NEW n, Chasing(q, x, MaxRetargets + 1, n)
  PROVE  Right(q, ServFail(x))
<1>1. PICK y : y = ServFail(x)
  OBVIOUS
<1>2. y.rcode = "ServFail" /\ y.rrs = x.rrs
  BY <1>1 DEF ServFail, IsPacket
<1>3. y.aa = TRUE
  <2>1. x.aa = TRUE
    BY DEF Chasing
  <2>2. y.aa = x.aa
    BY <1>1 DEF ServFail, IsPacket
  <2> QED
    BY <2>1, <2>2
<1>4. Outcome(q) = "TooLong" /\ Aliases(q) = Links(q, MaxRetargets + 1)
  BY LedTooLong DEF Chasing
<1>5. Answers(y) = Links(q, MaxRetargets + 1) /\ Authorities(y) = {}
  BY <1>2 DEF Chasing, Answers, Authorities
<1>6. Right(q, y)
  BY <1>2, <1>3, <1>4, <1>5 DEF Right
<1> QED
  BY <1>1, <1>6

LEMMA RoundOutside ==
  ASSUME NEW q, NEW x, IsPacket(x), NEW k \in 0 .. MaxRetargets, NEW n, Chasing(q, x, k, n),
         Homes(n) = {}, NEW S,
         S = IF RootReferral THEN {RR("authority", <<>>, "NS", <<"RootServer">>)} ELSE {},
         NEW y, y = [Add(x, S) EXCEPT !.aa = @ /\ k > 0]
  PROVE  Complete(q, y)
<1>1. PICK w : w = Add(x, S)
  OBVIOUS
<1>2. \A a \in S : a.type = "NS" /\ a.place = "authority" /\ a.name = <<>>
  <2>1. PICK ns : ns = RR("authority", <<>>, "NS", <<"RootServer">>)
    OBVIOUS
  <2>2. ns.type = "NS" /\ ns.place = "authority" /\ ns.name = <<>>
    BY <2>1 DEF RR
  <2> QED
    BY <2>1, <2>2
<1>3. Fits(q, S) /\ AnswersIn(S) = {} /\ AuthoritiesIn(S) = S
  BY <1>2 DEF Fits, AnswersIn, AuthoritiesIn
<1>4. /\ IsPacket(w) /\ w.rcode = "NoError"
      /\ Answers(w) = Links(q, k) /\ Authorities(w) = S
      /\ \A rr \in w.rrs : rr.type # "NSEC" => rr \in Links(q, k) \cup S
  <2>1. Fitted(q, k, S, w)
    BY <1>1, <1>3, AddFits
  <2> QED
    BY <1>3, <2>1 DEF Fitted
<1>5. w.aa = TRUE
  <2>1. w.aa = x.aa
    BY <1>1, AddIs
  <2> QED
    BY <2>1 DEF Chasing
<1>6. PICK B : B = (w.aa /\ k > 0)
  OBVIOUS
<1>7. y = [w EXCEPT !.aa = B]
  BY <1>1, <1>6
<1>8. y.rcode = "NoError" /\ y.rrs = w.rrs /\ y.aa = B
  BY <1>4, <1>7 DEF IsPacket
<1>9. y.aa = (k > 0)
  BY <1>5, <1>6, <1>8
<1>10. Answers(y) = Links(q, k) /\ Authorities(y) = S
  BY <1>4, <1>8 DEF Answers, Authorities
<1>11. \A rr \in Pointers(y) : rr.type = "NS" => rr.name = <<>> \/ rr.name \in Zones
  <2>1. \A rr \in Links(q, k) : rr.type = "CNAME"
    BY LinksAre DEF Chasing
  <2> QED
    BY <1>2, <1>4, <1>8, <2>1 DEF Pointers
<1>12. Verdict(q.qtype, n) = "outside"
  BY DEF Verdict
<1>13. k > 0 <=> k # 0
  BY DataAssumption
<1>14. PICK v : v = "outside"
  OBVIOUS
<1>15. HasAA(y, v, k)
  BY <1>9, <1>13, <1>14 DEF HasAA
<1>16. Led(q, k, n)
  BY DEF Chasing
<1> QED
  BY <1>8, <1>10, <1>11, <1>12, <1>14, <1>15, <1>16, Completed

LEMMA RoundReferral ==
  ASSUME db \in Databases, NEW q, NEW x, IsPacket(x), NEW k \in 0 .. MaxRetargets, NEW n,
         Chasing(q, x, k, n), Homes(n) # {}, NEW z, z = Home(n), RegularFor(z, n),
         Cuts(z, n) # {}, NEW sec
  PROVE  Complete(q, TryReferral(x, z, n, sec))
<1>1. PICK cut, N, ds : /\ cut = Longest(Cuts(z, n))
                        /\ N = Put("authority", cut, Typed(At(z, cut), "NS"))
                        /\ ds = Typed(At(z, cut), "DS")
  OBVIOUS
<1>2. PICK y, w : y = Add(x, N) /\ w = [y EXCEPT !.aa = FALSE]
  OBVIOUS
<1>3. PICK S : S = IF ds # {} THEN Put("authority", cut, ds) ELSE AddNSECX(z, cut, 0)
  OBVIOUS
<1>4. PICK u : u = IF p.do /\ sec THEN Add(w, S) ELSE w
  OBVIOUS
<1>5. TryReferral(x, z, n, sec) = u
  BY <1>1, <1>2, <1>3, <1>4, Zenon DEF TryReferral
<1>6. \A a \in N : a.type = "NS" /\ a.place = "authority"
  BY <1>1, PutFields DEF Typed
<1>7. Fits(q, N) /\ AnswersIn(N) = {} /\ AuthoritiesIn(N) = N
  BY <1>6 DEF Fits, AnswersIn, AuthoritiesIn
<1>8. IsPacket(y) /\ y.rcode = "NoError" /\ Answers(y) = Links(q, k) /\ Authorities(y) = N
  <2>1. Fitted(q, k, N, y)
    BY <1>2, <1>7, AddFits
  <2> QED
    BY <1>7, <2>1 DEF Fitted
<1>9. IsPacket(w) /\ w.rcode = "NoError" /\ w.rrs = y.rrs
  BY <1>2, <1>8 DEF IsPacket
<1>10. w.aa = FALSE
  BY <1>2, <1>8 DEF IsPacket
<1>11. Answers(w) = Links(q, k) /\ Authorities(w) = N
  BY <1>8, <1>9 DEF Answers, Authorities
<1>12. \A a \in S : a.place = "authority" /\ a.type \in {"NSEC", "DS"}
  <2>1. \A a \in Put("authority", cut, ds) : a.place = "authority" /\ a.type = "DS"
    BY <1>1, PutFields DEF Typed
  <2>2. \A a \in AddNSECX(z, cut, 0) : a.place = "authority" /\ a.type = "NSEC"
    BY NSECFields
  <2> QED
    BY <1>3, <2>1, <2>2
<1>13. u.rcode = "NoError" /\ Answers(u) = Links(q, k) /\ Authorities(u) = N
  <2>1. PICK w2 : w2 = Add(w, S)
    OBVIOUS
  <2>2. w2.rcode = w.rcode /\ Answers(w2) = Answers(w) /\ Authorities(w2) = Authorities(w)
    BY <1>9, <1>12, <2>1, AddQuiet
  <2> QED
    BY <1>4, <1>9, <1>11, <2>1, <2>2
<1>14. u.aa = FALSE
  <2>1. PICK w2 : w2 = Add(w, S)
    OBVIOUS
  <2>2. w2.aa = w.aa
    BY <1>9, <1>12, <2>1, AddQuiet
  <2> QED
    BY <1>4, <1>10, <2>1, <2>2
<1>15. n \in Name /\ Led(q, k, n)
  BY DEF Chasing, Led
<1>16. z \in Zones /\ z \in Chops(n)
  BY <1>15, HomeIs
<1>17. Verdict(q.qtype, n) = "referral" /\ Delegations(z, n) # {}
  BY <1>15, <1>16, ReferralFound, CutsAre
<1>18. cut = Shortest(Delegations(z, n))
  BY <1>1, <1>15, <1>16, <1>17, CutIs DEF RegularFor
<1>19. PICK v : v = "referral"
  OBVIOUS
<1>20. HasAA(u, v, k)
  BY <1>14, <1>19 DEF HasAA
<1>21. Complete(q, u)
  BY <1>1, <1>13, <1>15, <1>16, <1>17, <1>18, <1>19, <1>20, Completed
<1> QED
  BY <1>5, <1>21

(* What both denials say: the SOA of the zone. *)
Denying(q, k, z, y) ==
  /\ IsPacket(y) /\ y.rcode = "NoError"
  /\ Answers(y) = Links(q, k)
  /\ Authorities(y) = {RR("authority", z, "SOA", <<>>)}
  /\ \A rr \in y.rrs : rr.type # "NS"

LEMMA RoundDenial ==
  ASSUME NEW q, NEW x, IsPacket(x), NEW k \in 0 .. MaxRetargets, NEW n, Chasing(q, x, k, n),
         NEW z, NEW S, NEW T, S = {SOA(z)} \cup T,
         \A a \in T : a.place = "authority" /\ a.type = "NSEC"
  PROVE  Denying(q, k, z, Add(x, S))
<1>1. PICK y, soa : y = Add(x, S) /\ soa = RR("authority", z, "SOA", <<>>)
  OBVIOUS
<1>2. soa.place = "authority" /\ soa.type = "SOA" /\ S = {soa} \cup T
  BY <1>1, RRFields DEF SOA
<1>3. Fits(q, S) /\ AnswersIn(S) = {} /\ AuthoritiesIn(S) = {soa}
  BY <1>2 DEF Fits, AnswersIn, AuthoritiesIn
<1>4. /\ IsPacket(y) /\ y.rcode = "NoError"
      /\ Answers(y) = Links(q, k) /\ Authorities(y) = {soa}
      /\ \A rr \in y.rrs : rr.type # "NSEC" => rr \in Links(q, k) \cup S
  <2>1. Fitted(q, k, S, y)
    BY <1>1, <1>3, AddFits
  <2> QED
    BY <1>3, <2>1 DEF Fitted
<1>5. \A rr \in Links(q, k) : rr.type = "CNAME"
  BY LinksAre DEF Chasing
<1>6. \A rr \in y.rrs : rr.type # "NS"
  BY <1>2, <1>4, <1>5
<1>7. Denying(q, k, z, y)
  BY <1>1, <1>4, <1>6 DEF Denying
<1> QED
  BY <1>1, <1>7

LEMMA RoundNOError ==
  ASSUME NEW q, NEW x, IsPacket(x), NEW k \in 0 .. MaxRetargets, NEW n, Chasing(q, x, k, n),
         Verdict(q.qtype, n) = "NoData", NEW sec
  PROVE  Complete(q, MakeNOError(x, Home(n), n, sec))
<1>1. PICK z, T, S, y : /\ z = Home(n)
                        /\ T = (IF p.do /\ sec THEN AddNSECX(z, n, 0) ELSE {})
                        /\ S = {SOA(z)} \cup T
                        /\ y = Add(x, S)
  OBVIOUS
<1>2. MakeNOError(x, z, n, sec) = y
  BY <1>1 DEF MakeNOError
<1>3. \A a \in T : a.place = "authority" /\ a.type = "NSEC"
  <2>1. \A a \in AddNSECX(z, n, 0) : a.place = "authority" /\ a.type = "NSEC"
    BY NSECFields
  <2> QED
    BY <1>1, <2>1
<1>4. /\ y.rcode = "NoError"
      /\ Answers(y) = Links(q, k) /\ Authorities(y) = {RR("authority", z, "SOA", <<>>)}
      /\ \A rr \in y.rrs : rr.type # "NS"
  <2>1. Denying(q, k, z, y)
    BY <1>1, <1>3, RoundDenial
  <2> QED
    BY <2>1 DEF Denying
<1>5. PICK v : v = "NoData"
  OBVIOUS
<1>6. HasAA(y, v, k)
  <2>1. y.aa = x.aa
    BY <1>1, AddIs
  <2> QED
    BY <1>5, <2>1 DEF Chasing, HasAA
<1>7. \A rr \in Pointers(y) : rr.type # "NS"
  BY <1>4 DEF Pointers
<1>8. Led(q, k, n)
  BY DEF Chasing
<1>9. Complete(q, y)
  BY <1>1, <1>4, <1>5, <1>6, <1>7, <1>8, Completed
<1> QED
  BY <1>1, <1>2, <1>9

LEMMA RoundNXDomain ==
  ASSUME NEW q, NEW x, IsPacket(x), NEW k \in 0 .. MaxRetargets, NEW n, Chasing(q, x, k, n),
         Verdict(q.qtype, n) = "NoName", NEW sec
  PROVE  Complete(q, MakeNXDomain(x, Home(n), n, sec))
<1>1. PICK z, T, S, y, w : /\ z = Home(n)
                           /\ T = (IF p.do /\ sec THEN AddNSECX(z, n, 1) ELSE {})
                           /\ S = {SOA(z)} \cup T
                           /\ y = Add(x, S)
                           /\ w = [y EXCEPT !.rcode = "NXDomain"]
  OBVIOUS
<1>2. MakeNXDomain(x, z, n, sec) = w
  BY <1>1 DEF MakeNXDomain
<1>3. \A a \in T : a.place = "authority" /\ a.type = "NSEC"
  <2>1. \A a \in AddNSECX(z, n, 1) : a.place = "authority" /\ a.type = "NSEC"
    BY NSECFields
  <2> QED
    BY <1>1, <2>1
<1>4. /\ IsPacket(y)
      /\ Answers(y) = Links(q, k) /\ Authorities(y) = {RR("authority", z, "SOA", <<>>)}
      /\ \A rr \in y.rrs : rr.type # "NS"
  <2>1. Denying(q, k, z, y)
    BY <1>1, <1>3, RoundDenial
  <2> QED
    BY <2>1 DEF Denying
<1>5. w.rcode = "NXDomain" /\ w.rrs = y.rrs
  BY <1>1, <1>4 DEF IsPacket
<1>6. w.aa = TRUE
  <2>1. w.aa = y.aa
    BY <1>1, <1>4 DEF IsPacket
  <2>2. y.aa = x.aa
    BY <1>1, AddIs
  <2> QED
    BY <2>1, <2>2 DEF Chasing
<1>7. PICK v : v = "NoName"
  OBVIOUS
<1>8. HasAA(w, v, k)
  BY <1>6, <1>7 DEF HasAA
<1>9. \A rr \in Pointers(w) : rr.type # "NS"
  BY <1>4, <1>5 DEF Pointers
<1>10. Answers(w) = Links(q, k) /\ Authorities(w) = {RR("authority", z, "SOA", <<>>)}
  BY <1>4, <1>5 DEF Answers, Authorities
<1>11. Led(q, k, n)
  BY DEF Chasing
<1>12. z = Home(n)
  BY <1>1
<1>13. Complete(q, w)
  BY <1>5, <1>7, <1>8, <1>9, <1>10, <1>11, <1>12, Completed
<1> QED
  BY <1>2, <1>12, <1>13

(* The records asked for, and proofs if there are. *)
LEMMA RoundData ==
  ASSUME db \in Databases, NEW q, NEW x, IsPacket(x), NEW k \in 0 .. MaxRetargets, NEW n,
         Chasing(q, x, k, n), q.qtype \in {"A", "MX", "NS", "CNAME"},
         Verdict(q.qtype, n) = "data", NEW R, R = Typed(Node(Home(n), n), q.qtype),
         NEW S, S = Put("answer", n, R), NEW y, y = Add(x, S),
         NEW T, \A a \in T : a.place = "authority" /\ a.type = "NSEC"
  PROVE  Complete(q, Add(y, T))
<1>1. PICK w, z : w = Add(y, T) /\ z = Home(n)
  OBVIOUS
<1>2. \A a \in S : a.place = "answer" /\ a.name = n /\ a.type = q.qtype
  BY PutFields DEF Typed
<1>3. Fits(q, S) /\ AnswersIn(S) = S /\ AuthoritiesIn(S) = {}
  BY <1>2 DEF Fits, AnswersIn, AuthoritiesIn
<1>4. /\ IsPacket(y) /\ y.rcode = "NoError"
      /\ Answers(y) = Links(q, k) \cup S /\ Authorities(y) = {}
      /\ \A rr \in y.rrs : rr.type # "NSEC" => rr \in Links(q, k) \cup S
  <2>1. Fitted(q, k, S, y)
    BY <1>3, AddFits
  <2> QED
    BY <1>3, <2>1 DEF Fitted
<1>5. /\ w.rcode = y.rcode
      /\ Answers(w) = Answers(y) /\ Authorities(w) = Authorities(y)
      /\ \A rr \in w.rrs : rr.type \notin {"NSEC", "DS"} => rr \in y.rrs
  BY <1>1, <1>4, AddQuiet
<1>6. n \in Name /\ Homes(n) # {} /\ Delegations(z, n) = {} /\ Led(q, k, n)
  BY <1>1 DEF Chasing, Led, Verdict
<1>7. \A rr \in Pointers(w) : rr.type = "NS" => rr.name \in Zones
  <2>1. SUFFICES ASSUME NEW rr \in Pointers(w), rr.type = "NS" PROVE rr.name \in Zones
    OBVIOUS
  <2>2. rr \in Links(q, k) \cup S
    BY <1>4, <1>5, <2>1 DEF Pointers
  <2>3. rr \in S
    BY <1>6, <2>1, <2>2, LinksAre
  <2>4. rr.name = n /\ \E d \in R : d.type = "NS"
    BY <1>2, <2>1, <2>3, PutFields
  <2>5. PICK d \in Node(z, n) : d.type = "NS"
    BY <1>1, <2>4 DEF Typed
  <2>6. n \in Zones
    BY <1>1, <1>6, <2>5, NodeIs
  <2> QED
    BY <2>4, <2>6
<1>8. PICK v : v = "data"
  OBVIOUS
<1>9. HasAA(w, v, k)
  <2>1. y.aa = x.aa
    BY AddIs
  <2>2. w.aa = y.aa
    BY <1>1, <1>4, AddIs
  <2> QED
    BY <1>8, <2>1, <2>2 DEF Chasing, HasAA
<1>10. Complete(q, w)
  BY <1>1, <1>4, <1>5, <1>6, <1>7, <1>8, <1>9, Completed
<1> QED
  BY <1>1, <1>10

-----------------------------------------------------------------------------
(***************************************************************************)
(* The inductive invariant: what was followed and what is composed is what *)
(* the question comes to, and only what may not recurse is asked elsewhere. *)
(***************************************************************************)
Recursable(q, x) == x.ra => MeritsRecursion(q)
Handling ==
  /\ pc = "idle" => retargetcount = 0
  /\ pc # "idle" => EarlyRcode(p) = "NoError"
  /\ pc = "retargeted" => Recursable(p, r)
  /\ \A q \in proxied : q \in Requests /\ MeritsRecursion(q)
Followed ==
  \A q, x, k, n : /\ pc = "retargeted" /\ InScope(q)
                  /\ q = p /\ x = r /\ k = retargetcount /\ n = target
                  => Chasing(q, x, k, n)
Composed == \A q, x : pc = "sendit" /\ InScope(q) /\ q = p /\ x = r => Complete(q, x)
Answered ==
  \A q, x : sent # None /\ sent.from = "handler" /\ q = sent.q /\ x = sent.packet /\ InScope(q)
              => Right(q, x)
AnswerInv == DenialInv /\ Handling /\ Followed /\ Composed /\ Answered /\ CacheRight

LEMMA AnsweredIs == AnswersRight <=> Answered
<1>1. AnswersRight <=> (sent # None /\ sent.from = "handler" /\ InScope(sent.q)
                          => Right(sent.q, sent.packet))
  BY DEF AnswersRight
<1> QED
  BY <1>1, Zenon DEF Answered

LEMMA CacheKeeps ==
  ASSUME AnswerInv, UNCHANGED db, pcache' \subseteq pcache
  PROVE  CacheRight'
<1>1. \A q, x : Right(q, x)' = Right(q, x) /\ InScope(q)' = InScope(q)
  BY RightFixed
<1> QED
  BY <1>1 DEF AnswerInv, CacheRight

LEMMA CacheInserted ==
  ASSUME AnswerInv, UNCHANGED db, NEW q, NEW x, Insert(q, x),
         \A q1 \in Requests : /\ Key(q) = Key(q1) /\ q.class = "IN" /\ InScope(q1)
                              /\ ~MeritsRecursion(q)
                              => Right(q1, x)
  PROVE  CacheRight'
<1>1. \A q1, y : Right(q1, y)' = Right(q1, y) /\ InScope(q1)' = InScope(q1)
  BY RightFixed
<1>2. PICK new : new = [key |-> Key(q), packet |-> x]
  OBVIOUS
<1>3. new.key = Key(q) /\ new.packet = x
  BY <1>2
<1>4. pcache' = IF q.class = "IN" THEN {e \in pcache : e.key # Key(q)} \cup {new} ELSE pcache
  BY <1>2 DEF Insert
<1>5. Key(q).merits = MeritsRecursion(q)
  BY DEF Key
<1>6. ASSUME NEW e \in pcache', NEW q1 \in Requests, e.key = Key(q1), InScope(q1), ~e.key.merits
      PROVE  Right(q1, e.packet)
  <2>1. CASE e \in pcache
    BY <1>6, <2>1 DEF AnswerInv, CacheRight
  <2>2. CASE e \notin pcache
    <3>1. e = new /\ q.class = "IN"
      BY <1>4, <1>6, <2>2
    <3>2. Key(q) = Key(q1)
      BY <1>3, <1>6, <3>1
    <3>3. ~Key(q).merits
      BY <1>3, <1>6, <3>1
    <3>4. ~MeritsRecursion(q)
      BY <1>5, <3>3
    <3>5. Right(q1, x)
      BY <1>6, <3>1, <3>2, <3>4
    <3> QED
      BY <1>3, <3>1, <3>5
  <2> QED
    BY <2>1, <2>2
<1> QED
  BY <1>1, <1>6 DEF CacheRight

LEMMA SentRight ==
  ASSUME UNCHANGED db, NEW q, NEW x, NEW from, Send(q, x, from),
         from = "handler" /\ InScope(q) => Right(q, x)
  PROVE  Answered'
<1>1. sent' = [q |-> q, packet |-> x, from |-> from]
  BY DEF Send
<1>2. sent'.q = q /\ sent'.packet = x /\ sent'.from = from
  BY <1>1
<1>3. Right(q, x)' = Right(q, x) /\ InScope(q)' = InScope(q)
  BY RightFixed
<1>4. \A q1, x1 : sent' # None /\ sent'.from = "handler" /\ q1 = sent'.q /\ x1 = sent'.packet /\ InScope(q1)'
                    => Right(q1, x1)'
  BY <1>2, <1>3
<1> QED
  BY <1>4 DEF Answered

(* A step that leaves the backends, the packet cache and the last reply alone. *)
LEMMA AnswerQuiet ==
  ASSUME AnswerInv, UNCHANGED <<db, pcache, sent>>
  PROVE  Answered' /\ CacheRight'
<1>1. \A q, x : Right(q, x)' = Right(q, x) /\ InScope(q)' = InScope(q)
  BY RightFixed
<1>2. Answered'
  BY <1>1 DEF AnswerInv, Answered
<1>3. CacheRight'
  BY CacheKeeps
<1> QED
  BY <1>2, <1>3

LEMMA AnswerComposed ==
  ASSUME AnswerInv, DenialInv', pc = "retargeted", NEW x, Compose(x),
         InScope(p) => Complete(p, x)
  PROVE  AnswerInv'
<1>1. Answered' /\ CacheRight'
  BY AnswerQuiet DEF Compose
<1>2. pc' = "sendit" /\ p' = p /\ r' = x /\ UNCHANGED <<db, proxied>>
  BY DEF Compose
<1>3. \A q, y : Complete(q, y)' = Complete(q, y) /\ InScope(q)' = InScope(q)
  BY <1>2, ReplyFixed, RightFixed
<1>4. Composed'
  BY <1>2, <1>3 DEF Composed
<1>5. Followed' /\ Handling'
  BY <1>2 DEF AnswerInv, Followed, Handling
<1> QED
  BY <1>1, <1>4, <1>5 DEF AnswerInv

LEMMA AnswerRetargeted ==
  ASSUME AnswerInv, DenialInv', pc = "retargeted", NEW x, NEW to, Retarget(x, to), x.ra = r.ra,
         InScope(p) => Chasing(p, x, retargetcount + 1, to)
  PROVE  AnswerInv'
<1>1. Answered' /\ CacheRight'
  BY AnswerQuiet DEF Retarget
<1>2. /\ pc' = pc /\ p' = p /\ r' = x /\ target' = to /\ retargetcount' = retargetcount + 1
      /\ UNCHANGED <<db, proxied>>
  BY DEF Retarget
<1>3. \A q, y, k, n : Chasing(q, y, k, n)' = Chasing(q, y, k, n) /\ InScope(q)' = InScope(q)
  BY <1>2, ReplyFixed, RightFixed
<1>4. Followed'
  BY <1>2, <1>3 DEF Followed
<1>5. Recursable(p, r) <=> Recursable(p, x)
  BY DEF Recursable
<1>6. Composed' /\ Handling'
  BY <1>2, <1>5 DEF AnswerInv, Composed, Handling
<1> QED
  BY <1>1, <1>4, <1>6 DEF AnswerInv

(* The question is done with. *)
LEMMA AnswerDone ==
  ASSUME AnswerInv, DenialInv', Idle, Answered', CacheRight',
         \A q \in proxied' : q \in Requests /\ MeritsRecursion(q)
  PROVE  AnswerInv'
<1>1. pc' = "idle" /\ retargetcount' = 0
  BY DEF Idle
<1>2. Followed' /\ Composed' /\ Handling'
  BY <1>1 DEF Followed, Composed, Handling
<1> QED
  BY <1>2 DEF AnswerInv

(* A step that leaves the question alone. *)
LEMMA AnswerBeside ==
  ASSUME AnswerInv, DenialInv', UNCHANGED <<db, pc, locals>>, Answered', CacheRight',
         proxied' \subseteq proxied
  PROVE  AnswerInv'
<1>1. UNCHANGED <<db, pc, p, r, target, retargetcount>>
  BY DEF locals
<1>2. \A q, y, k, n : Chasing(q, y, k, n)' = Chasing(q, y, k, n) /\ InScope(q)' = InScope(q)
  BY <1>1, ReplyFixed, RightFixed
<1>3. \A q, y : Complete(q, y)' = Complete(q, y)
  BY <1>1, ReplyFixed
<1>4. Followed'
  BY <1>1, <1>2 DEF AnswerInv, Followed
<1>5. Composed'
  BY <1>1, <1>2, <1>3 DEF AnswerInv, Composed
<1>6. Handling'
  BY <1>1 DEF AnswerInv, Handling
<1> QED
  BY <1>4, <1>5, <1>6 DEF AnswerInv

-----------------------------------------------------------------------------
(***************************************************************************)
(* The steps.                                                              *)
(***************************************************************************)
LEMMA AnswerRefuse ==
  ASSUME AnswerInv, DenialInv', NEW q, Refuse(q)
  PROVE  AnswerInv'
<1>1. PICK x : Send(q, x, "handler")
  BY DEF Refuse
<1>2. UNCHANGED <<db, pcache, proxied, pc, locals>> /\ EarlyRcode(q) # "NoError"
  BY DEF Refuse
<1>3. Answered'
  BY <1>1, <1>2, ScopeIs, SentRight
<1>4. CacheRight'
  BY <1>2, CacheKeeps
<1> QED
  BY <1>2, <1>3, <1>4, AnswerBeside

LEMMA AnswerFromCacheKeeps ==
  ASSUME AnswerInv, DenialInv', NEW q, AnswerFromCache(q)
  PROVE  AnswerInv'
<1>1. PICK e \in Hit(q) : Send(q, e.packet, "cache")
  BY DEF AnswerFromCache
<1>2. UNCHANGED <<db, pcache, proxied, pc, locals>>
  BY DEF AnswerFromCache
<1>3. Answered'
  BY <1>1, <1>2, SentRight
<1>4. CacheRight'
  BY <1>2, CacheKeeps
<1> QED
  BY <1>2, <1>3, <1>4, AnswerBeside

LEMMA AnswerExpire ==
  ASSUME AnswerInv, DenialInv', Expire
  PROVE  AnswerInv'
<1>1. UNCHANGED <<db, sent, proxied, pc, locals>> /\ pcache' \subseteq pcache
  BY DEF Expire
<1>2. \A q, x : Right(q, x)' = Right(q, x) /\ InScope(q)' = InScope(q)
  BY <1>1, RightFixed
<1>3. Answered'
  BY <1>1, <1>2 DEF AnswerInv, Answered
<1>4. CacheRight'
  BY <1>1, CacheKeeps
<1> QED
  BY <1>1, <1>3, <1>4, AnswerBeside

LEMMA AnswerQuestion ==
  ASSUME AnswerInv, DenialInv', NEW q \in Requests, QuestionOrRecurse(q)
  PROVE  AnswerInv'
<1>1. Answered' /\ CacheRight'
  BY AnswerQuiet DEF QuestionOrRecurse
<1>2. /\ p' = q /\ target' = q.qname /\ retargetcount' = retargetcount /\ UNCHANGED <<db, proxied>>
      /\ pc = "idle" /\ EarlyRcode(q) = "NoError"
      /\ pc' = IF q.class = "CH" THEN "sendit" ELSE "retargeted"
  BY DEF QuestionOrRecurse
<1>3. PICK x : x = [ReplyPacket EXCEPT !.ra = RecursionAvailable(q), !.aa = q.class # "ANY"]
  OBVIOUS
<1>4. r' = x
  BY <1>3, Zenon DEF QuestionOrRecurse
<1>5. x.rrs = {} /\ x.rcode = "NoError"
  BY <1>3, ReplyPacketIs DEF IsPacket
<1>6. x.aa = (q.class # "ANY")
  BY <1>3, ReplyPacketIs DEF IsPacket
<1>7. x.ra = RecursionAvailable(q)
  BY <1>3, ReplyPacketIs DEF IsPacket
<1>8. Recursable(q, x)
  <2>1. x.ra => RecursionAvailable(q)
    BY <1>7, Zenon
  <2> QED
    BY <2>1 DEF RecursionAvailable, MeritsRecursion, Recursable
<1>9. retargetcount = 0
  BY <1>2 DEF AnswerInv, Handling
<1>10. q.qname \in Name
  BY DataAssumption DEF Question
<1>11. ASSUME InScope(q) PROVE Chasing(q, x, 0, q.qname)
  <2>1. q.class = "IN"
    BY <1>11, ScopeIs
  <2>2. x.aa = TRUE
    BY <1>6, <2>1
  <2>3. Led(q, 0, q.qname) /\ Links(q, 0) = {}
    BY <1>10, LedFirst
  <2>4. Answers(x) = {}
    BY <1>5 DEF Answers
  <2> QED
    BY <1>5, <2>2, <2>3, <2>4 DEF Chasing
<1>12. /\ \A k, n : Chasing(q, x, k, n)' = Chasing(q, x, k, n)
       /\ InScope(q)' = InScope(q)
  BY <1>2, ReplyFixed, RightFixed
<1>13. Followed'
  BY <1>2, <1>4, <1>9, <1>11, <1>12 DEF Followed
<1>14. Composed'
  <2>1. pc' = "sendit" => ~InScope(q)
    BY <1>2, ScopeIs
  <2> QED
    BY <1>2, <1>12, <2>1 DEF Composed
<1>15. Handling'
  BY <1>2, <1>4, <1>8 DEF AnswerInv, Handling
<1> QED
  BY <1>1, <1>13, <1>14, <1>15 DEF AnswerInv

LEMMA AnswerFails ==
  ASSUME AnswerInv, DenialInv', BackendFails
  PROVE  AnswerInv'
<1>1. PICK x, q : q = p /\ Send(q, x, "failed")
  BY DEF BackendFails
<1>2. Idle /\ UNCHANGED <<db, pcache, proxied>>
  BY DEF BackendFails
<1>3. Answered'
  BY <1>1, <1>2, SentRight
<1>4. CacheRight'
  BY <1>2, CacheKeeps
<1>5. \A o \in proxied' : o \in Requests /\ MeritsRecursion(o)
  BY <1>2 DEF AnswerInv, Handling
<1> QED
  BY <1>2, <1>3, <1>4, <1>5, AnswerDone

(* What the recursor said is kept under a key that may recurse. *)
LEMMA AnswerRelay ==
  ASSUME AnswerInv, DenialInv', RelayAnswer
  PROVE  AnswerInv'
<1>0. PICK q \in proxied : \E do, x : /\ proxied' = proxied \ {q}
                                     /\ Insert([q EXCEPT !.do = do], x)
                                     /\ Send(q, x, "recursor")
  BY DEF RelayAnswer
<1>1. PICK do, x : /\ proxied' = proxied \ {q}
                   /\ Insert([q EXCEPT !.do = do], x)
                   /\ Send(q, x, "recursor")
  BY <1>0
<1>2. UNCHANGED <<db, pc, locals>>
  BY DEF RelayAnswer
<1>3. Answered'
  BY <1>1, <1>2, SentRight
<1>4. q \in Question /\ MeritsRecursion(q)
  BY DataAssumption DEF AnswerInv, Handling
<1>5. PICK q1 : q1 = [q EXCEPT !.do = do]
  OBVIOUS
<1>6. q1.rd = q.rd
  BY <1>4, <1>5 DEF Question
<1>7. MeritsRecursion(q1)
  BY <1>4, <1>6 DEF MeritsRecursion
<1>8. CacheRight'
  BY <1>1, <1>2, <1>5, <1>7, CacheInserted
<1> QED
  BY <1>1, <1>2, <1>3, <1>8, AnswerBeside

LEMMA AnswerSendIt ==
  ASSUME AnswerInv, DenialInv', SendIt
  PROVE  AnswerInv'
<1>1. PICK x, q : x = Additional(r) /\ q = p
  OBVIOUS
<1>2. /\ Send(q, x, "handler")
      /\ IF q.tsig = "none" THEN Insert(q, x) ELSE UNCHANGED pcache
      /\ Idle /\ UNCHANGED <<db, proxied>> /\ pc = "sendit"
  BY <1>1 DEF SendIt
<1>3. IsPacket(r) /\ EarlyRcode(q) = "NoError"
  BY <1>1, <1>2 DEF AnswerInv, DenialInv, Handling
<1>4. InScope(q) => Right(q, x)
  <2>1. InScope(q) => Complete(q, r)
    BY <1>1, <1>2 DEF AnswerInv, Composed
  <2> QED
    BY <1>1, <1>3, <2>1, CompleteRight
<1>5. Answered'
  BY <1>2, <1>4, SentRight
<1>6. \A q1 \in Requests : /\ Key(q) = Key(q1) /\ q.class = "IN" /\ InScope(q1)
                           /\ ~MeritsRecursion(q)
                           => Right(q1, x)
  <2>1. SUFFICES ASSUME NEW q1 \in Requests, Key(q) = Key(q1), q.class = "IN", InScope(q1)
                 PROVE  Right(q1, x)
    OBVIOUS
  <2>2. q1.qname = q.qname /\ q1.qtype = q.qtype
    BY <2>1 DEF Key
  <2>3. InScope(q) /\ Right(q1, x) = Right(q, x)
    BY <1>3, <2>1, <2>2, RightKey
  <2> QED
    BY <1>4, <2>3
<1>7. CacheRight'
  <2>1. CASE Insert(q, x)
    BY <1>2, <1>6, <2>1, CacheInserted
  <2>2. CASE UNCHANGED pcache
    BY <1>2, <2>2, CacheKeeps
  <2> QED
    BY <1>2, <2>1, <2>2
<1>8. \A q1 \in proxied' : q1 \in Requests /\ MeritsRecursion(q1)
  BY <1>2 DEF AnswerInv, Handling
<1> QED
  BY <1>2, <1>5, <1>7, <1>8, AnswerDone

LEMMA AnswerRecurse ==
  ASSUME AnswerInv, DenialInv', Recurse
  PROVE  AnswerInv'
<1>1. Idle /\ UNCHANGED <<db, pcache, sent>> /\ proxied' = proxied \cup {p} /\ pc = "retargeted" /\ r.ra
  BY DEF Recurse, NoAuthority
<1>2. Answered' /\ CacheRight'
  BY <1>1, AnswerQuiet
<1>3. p \in Requests /\ MeritsRecursion(p)
  BY <1>1 DEF AnswerInv, DenialInv, Handling, Recursable
<1>4. \A q \in proxied' : q \in Requests /\ MeritsRecursion(q)
  BY <1>1, <1>3 DEF AnswerInv, Handling
<1> QED
  BY <1>1, <1>2, <1>4, AnswerDone

-----------------------------------------------------------------------------
(* A round of a question in scope. *)
LEMMA RoundIs ==
  ASSUME AnswerInv, pc = "retargeted", InScope(p)
  PROVE  /\ db \in Databases /\ IsPacket(r)
         /\ p.qtype \in {"A", "MX", "NS", "CNAME"}
         /\ Chasing(p, r, retargetcount, target)
         /\ target \in Name /\ retargetcount \in 0 .. MaxRetargets + 1
         /\ retargetcount =< MaxRetargets => retargetcount \in 0 .. MaxRetargets
         /\ retargetcount =< MaxRetargets /\ Homes(target) # {} => RegularFor(Home(target), target)
         /\ retargetcount =< MaxRetargets /\ Homes(target) # {} /\ p.qtype = "CNAME"
              => Exists(Home(target), target)
<1>1. db \in Databases /\ IsPacket(r)
  BY DEF AnswerInv, DenialInv
<1>2. PICK q, x, k, n : q = p /\ x = r /\ k = retargetcount /\ n = target
  OBVIOUS
<1>3. Chasing(q, x, k, n)
  BY <1>2 DEF AnswerInv, Followed
<1>4. Led(q, k, n) /\ n \in Name /\ k \in 0 .. MaxRetargets + 1
  BY <1>3 DEF Chasing, Led
<1>5. k =< MaxRetargets => k \in 0 .. MaxRetargets
  BY <1>4, DataAssumption
<1>6. /\ q.qtype \in {"A", "MX", "NS", "CNAME"}
      /\ k =< MaxRetargets /\ Homes(n) # {} => RegularFor(Home(n), n)
      /\ k =< MaxRetargets /\ Homes(n) # {} /\ q.qtype = "CNAME" => Exists(Home(n), n)
  BY <1>2, <1>4, <1>5, ScopeIs
<1> QED
  BY <1>1, <1>2, <1>3, <1>4, <1>5, <1>6

(* A round that finds a zone. *)
LEMMA RoundHome ==
  ASSUME AnswerInv, HaveAuthority, InScope(p)
  PROVE  /\ pc = "retargeted" /\ retargetcount \in 0 .. MaxRetargets
         /\ Homes(target) # {} /\ Authority = Home(target)
         /\ RegularFor(Home(target), target)
<1>1. pc = "retargeted" /\ retargetcount =< MaxRetargets /\ GetAuth(target) # {}
  BY DEF HaveAuthority
<1>2. p.qtype \in {"A", "MX", "NS", "CNAME"} /\ target \in Name /\ db \in Databases
      /\ retargetcount \in 0 .. MaxRetargets
  BY <1>1, RoundIs
<1>3. Homes(target) # {}
  BY <1>1 DEF GetAuth, Homes
<1>4. Authority = Home(target)
  BY <1>2, <1>3, HomeOnly DEF Authority
<1>5. RegularFor(Home(target), target)
  BY <1>1, <1>3, RoundIs
<1> QED
  BY <1>1, <1>2, <1>3, <1>4, <1>5

LEMMA AnswerTooMany ==
  ASSUME AnswerInv, DenialInv', TooManyRetargets
  PROVE  AnswerInv'
<1>1. PICK q, x, k, n, y : q = p /\ x = r /\ k = retargetcount /\ n = target /\ y = ServFail(x)
  OBVIOUS
<1>2. Send(q, y, "handler")
  BY <1>1, Zenon DEF TooManyRetargets
<1>3. pc = "retargeted" /\ k > MaxRetargets /\ Idle /\ UNCHANGED <<db, pcache, proxied>>
  BY <1>1 DEF TooManyRetargets
<1>4. InScope(q) => Right(q, y)
  <2>1. SUFFICES ASSUME InScope(q) PROVE Right(q, y)
    OBVIOUS
  <2>2. Chasing(q, x, k, n) /\ IsPacket(x) /\ k \in 0 .. MaxRetargets + 1
    BY <1>1, <1>3, <2>1, RoundIs
  <2>3. k = MaxRetargets + 1
    BY <1>3, <2>2, DataAssumption
  <2> QED
    BY <1>1, <2>2, <2>3, RoundTooLong
<1>5. Answered'
  BY <1>2, <1>3, <1>4, SentRight
<1>6. CacheRight'
  BY <1>3, CacheKeeps
<1>7. \A q1 \in proxied' : q1 \in Requests /\ MeritsRecursion(q1)
  BY <1>3 DEF AnswerInv, Handling
<1> QED
  BY <1>3, <1>5, <1>6, <1>7, AnswerDone

LEMMA AnswerNoAnswer ==
  ASSUME AnswerInv, DenialInv', GiveNoAnswer
  PROVE  AnswerInv'
<1>1. PICK k, S : /\ k = retargetcount
                  /\ S = IF RootReferral THEN {RR("authority", <<>>, "NS", <<"RootServer">>)} ELSE {}
  OBVIOUS
<1>2. PICK x : x = [Add(r, S) EXCEPT !.aa = @ /\ k > 0]
  OBVIOUS
<1>3. /\ Compose(x) /\ pc = "retargeted" /\ GetAuth(target) = {}
      /\ retargetcount =< MaxRetargets
  BY <1>1, <1>2, Zenon DEF GiveNoAnswer, NoAuthority, Compose
<1>4. ASSUME InScope(p) PROVE Complete(p, x)
  <2>1. PICK q, n, y : q = p /\ n = target /\ y = r
    OBVIOUS
  <2>2. /\ Chasing(q, y, k, n) /\ IsPacket(y) /\ k \in 0 .. MaxRetargets
        /\ q.qtype \in {"A", "MX", "NS", "CNAME"}
    BY <1>1, <1>3, <1>4, <2>1, RoundIs
  <2>3. Homes(n) = {}
    BY <1>3, <2>1, <2>2 DEF GetAuth, Homes
  <2>4. x = [Add(y, S) EXCEPT !.aa = @ /\ k > 0]
    BY <1>2, <2>1
  <2>5. S = IF RootReferral THEN {RR("authority", <<>>, "NS", <<"RootServer">>)} ELSE {}
    BY <1>1
  <2>6. Complete(q, x)
    BY <2>2, <2>3, <2>4, <2>5, RoundOutside
  <2> QED
    BY <2>1, <2>6
<1> QED
  BY <1>3, <1>4, AnswerComposed

LEMMA AnswerApexOther ==
  ASSUME AnswerInv, DenialInv', AnswerApex \/ TrumpCNAME
  PROVE  AnswerInv'
<1>1. PICK x : Compose(x)
  BY DEF AnswerApex, TrumpCNAME
<1>2. HaveAuthority
  BY DEF AnswerApex, TrumpCNAME
<1>3. ~InScope(p)
  <2>1. SUFFICES ASSUME p.qtype \in {"A", "MX", "NS", "CNAME"} PROVE FALSE
    BY ScopeIs
  <2>2. ApexRecords(Authority) = {}
    BY <2>1 DEF ApexRecords
  <2>3. ~\E sec \in IsSecuredZone(Authority) : Trumps(Authority, sec)
    BY <2>1 DEF Trumps
  <2> QED
    BY <2>2, <2>3 DEF AnswerApex, TrumpCNAME
<1>4. pc = "retargeted"
  BY <1>2 DEF HaveAuthority
<1> QED
  BY <1>1, <1>3, <1>4, AnswerComposed

LEMMA AnswerRefer ==
  ASSUME AnswerInv, DenialInv', HaveAuthority, Cuts(Authority, target) # {},
         NEW sec, Compose(TryReferral(r, Authority, target, sec))
  PROVE  AnswerInv'
<1>1. PICK q, x, k, n, z, y : /\ q = p /\ x = r /\ k = retargetcount /\ n = target
                              /\ z = Authority /\ y = TryReferral(x, z, n, sec)
  OBVIOUS
<1>2. Compose(y) /\ pc = "retargeted"
  BY <1>1 DEF HaveAuthority
<1>3. ASSUME InScope(q) PROVE Complete(q, y)
  <2>1. k \in 0 .. MaxRetargets /\ Homes(n) # {} /\ z = Home(n) /\ RegularFor(z, n)
    BY <1>1, <1>3, RoundHome
  <2>2. Chasing(q, x, k, n) /\ IsPacket(x) /\ db \in Databases
    BY <1>1, <1>2, <1>3, RoundIs
  <2>3. Cuts(z, n) # {}
    BY <1>1
  <2>4. Complete(q, TryReferral(x, z, n, sec))
    BY <2>1, <2>2, <2>3, RoundReferral
  <2> QED
    BY <1>1, <2>4
<1> QED
  BY <1>1, <1>2, <1>3, AnswerComposed

(* A question in scope whose target is looked up is below no delegation. *)
LEMMA LookedIs ==
  ASSUME AnswerInv, NEW q, q = p, InScope(q), NEW n, n = target, NEW z, z = Authority, Looked(z)
  PROVE  /\ HaveAuthority /\ pc = "retargeted" /\ z = Home(n) /\ Homes(n) # {}
         /\ RegularFor(z, n) /\ Cuts(z, n) = {} /\ n \in Name /\ db \in Databases
         /\ retargetcount \in 0 .. MaxRetargets
         /\ Chasing(q, r, retargetcount, n) /\ IsPacket(r)
         /\ q.qtype \in {"A", "MX", "NS", "CNAME"}
         /\ q.qtype = "CNAME" => Exists(z, n)
<1>1. HaveAuthority /\ (p.qtype = "DS" \/ Cuts(z, target) = {})
  BY DEF Looked, Ordinary
<1>2. /\ pc = "retargeted" /\ retargetcount \in 0 .. MaxRetargets
      /\ Homes(target) # {} /\ Authority = Home(target)
      /\ RegularFor(Home(target), target)
  BY <1>1, RoundHome
<1>3. /\ db \in Databases /\ IsPacket(r)
      /\ p.qtype \in {"A", "MX", "NS", "CNAME"}
      /\ Chasing(p, r, retargetcount, target) /\ target \in Name
      /\ p.qtype = "CNAME" => Exists(Home(target), target)
  <2>1. retargetcount =< MaxRetargets
    BY <1>1 DEF HaveAuthority
  <2> QED
    BY <1>2, <2>1, RoundIs
<1> QED
  BY <1>1, <1>2, <1>3

(* What it has at the target is what was asked for, an alias, or neither. *)
LEMMA SomethingIs ==
  ASSUME AnswerInv, NEW q, q = p, InScope(q), NEW n, n = target, NEW z, z = Authority, Something(z)
  PROVE  /\ Looked(z) /\ Node(z, n) = Recs(z)
         /\ WeRedirected(z) <=> Verdict(q.qtype, n) = "alias"
         /\ ~WeRedirected(z) /\ WeDone(z) => Verdict(q.qtype, n) = "data"
         /\ {rr \in Recs(z) : Wanted(rr)} = Typed(Node(z, n), q.qtype)
         /\ ~WeRedirected(z) /\ ~WeDone(z) => Verdict(q.qtype, n) = "NoData" /\ ~WeHaveUnauth(z)
<1>1. Looked(z) /\ Recs(z) = At(z, n) /\ At(z, n) # {}
  BY DEF Something, Undenied, Recs
<1>2. /\ z = Home(n) /\ Homes(n) # {} /\ RegularFor(z, n) /\ Cuts(z, n) = {} /\ n \in Name
      /\ db \in Databases /\ q.qtype \in {"A", "MX", "NS", "CNAME"}
  BY <1>1, LookedIs
<1>3. /\ Node(z, n) = At(z, n) /\ \A rr \in At(z, n) : rr.auth
      /\ Verdict(q.qtype, n) = IF Typed(At(z, n), "CNAME") # {} /\ q.qtype # "CNAME" THEN "alias"
                               ELSE IF Typed(At(z, n), q.qtype) # {} THEN "data" ELSE "NoData"
  BY <1>1, <1>2, RecordsFound
<1>4. WeRedirected(z) <=> Typed(At(z, n), "CNAME") # {} /\ q.qtype # "CNAME"
  BY <1>1 DEF WeRedirected
<1>5. \A rr \in At(z, n) : Wanted(rr) <=> rr.type = q.qtype
  BY <1>2, <1>3 DEF Wanted
<1>6. {rr \in Recs(z) : Wanted(rr)} = Typed(At(z, n), q.qtype)
  BY <1>1, <1>5 DEF Typed
<1>7. WeDone(z) <=> Typed(At(z, n), q.qtype) # {}
  BY <1>1, <1>5 DEF WeDone, Typed
<1>8. ~WeHaveUnauth(z) \/ WeDone(z)
  <2>1. SUFFICES ASSUME WeHaveUnauth(z) PROVE FALSE
    OBVIOUS
  <2>2. PICK rr \in At(z, n) : rr.type = "NS" /\ n # z
    BY <1>1, <1>3, <2>1 DEF WeHaveUnauth
  <2>3. z \in Zones /\ z \in Chops(n)
    BY <1>2, HomeIs
  <2>4. n \in DOMAIN db[z] /\ rr \in db[z][n] /\ n \in Chops(n)
    BY <1>2, <2>3, AtIs, ChopsSelf
  <2>5. Delegations(z, n) = {}
    BY <1>2, <2>3, CutsAre
  <2>6. n \in Chops(z)
    BY <2>2, <2>4, <2>5 DEF Delegations
  <2>7. Len(n) = Len(z)
    BY <1>2, <2>3, <2>6, ChopsAre
  <2>8. n = z
    BY <1>2, <2>3, <2>4, <2>7, ChopsChain
  <2> QED
    BY <2>2, <2>8
<1>9. Typed(At(z, n), q.qtype) # {} \/ Typed(At(z, n), q.qtype) = {}
  OBVIOUS
<1> QED
  BY <1>1, <1>3, <1>4, <1>6, <1>7, <1>8

LEMMA AnswerFollow ==
  ASSUME AnswerInv, DenialInv', FollowCNAME
  PROVE  AnswerInv'
<1>1. PICK rr \in Typed(Recs(Authority), "CNAME") :
        Retarget(Add(r, Put("answer", target, {rr})), rr.to)
  BY DEF FollowCNAME
<1>2. PICK q, n, z, k, S, x, to :
        /\ q = p /\ n = target /\ z = Authority /\ k = retargetcount
        /\ S = Put("answer", target, {rr}) /\ x = Add(r, S) /\ to = rr.to
  OBVIOUS
<1>3. Retarget(x, to)
  BY <1>1, <1>2
<1>4. HaveAuthority /\ Something(z) /\ WeRedirected(z)
  BY <1>2 DEF FollowCNAME, Something, Undenied, Looked, Ordinary
<1>5. IsPacket(r) /\ pc = "retargeted"
  BY <1>4 DEF HaveAuthority, AnswerInv, DenialInv
<1>6. x.ra = r.ra
  BY <1>2, <1>5, AddIs
<1>7. ASSUME InScope(q) PROVE Chasing(q, x, k + 1, to)
  <2>1. Looked(z) /\ Node(z, n) = Recs(z) /\ Verdict(q.qtype, n) = "alias"
    BY <1>2, <1>4, <1>7, SomethingIs
  <2>2. /\ z = Home(n) /\ Homes(n) # {} /\ n \in Name /\ db \in Databases
        /\ k \in 0 .. MaxRetargets /\ Chasing(q, r, k, n)
    BY <1>2, <1>7, <2>1, LookedIs
  <2>3. rr \in Typed(Node(z, n), "CNAME") /\ rr.type = "CNAME"
    BY <1>1, <1>2, <2>1 DEF Typed
  <2>4. AliasOf(n) = to /\ to \in Name
    BY <1>2, <2>2, <2>3, AliasIs
  <2>5. S = {RR("answer", n, "CNAME", AliasOf(n))}
    BY <1>2, <2>3, <2>4 DEF Put
  <2>6. Chasing(q, x, k + 1, AliasOf(n))
    BY <1>2, <1>5, <2>1, <2>2, <2>4, <2>5, ChasingOn
  <2> QED
    BY <2>4, <2>6
<1> QED
  BY <1>2, <1>3, <1>5, <1>6, <1>7, AnswerRetargeted

LEMMA AnswerGiven ==
  ASSUME AnswerInv, DenialInv', AnswerRecords
  PROVE  AnswerInv'
<1>1. PICK sec \in IsSecuredZone(Authority) :
        Compose(Add(Add(r, Put("answer", target, {rr \in Recs(Authority) : Wanted(rr)})),
                    CompleteANYRecords(Authority, sec)))
  BY DEF AnswerRecords
<1>2. PICK q, n, z, k, R, S, y, T, x :
        /\ q = p /\ n = target /\ z = Authority /\ k = retargetcount
        /\ R = {rr \in Recs(z) : Wanted(rr)} /\ S = Put("answer", n, R) /\ y = Add(r, S)
        /\ T = CompleteANYRecords(z, sec) /\ x = Add(y, T)
  OBVIOUS
<1>3. Compose(x)
  BY <1>1, <1>2
<1>4. HaveAuthority /\ Something(z) /\ ~WeRedirected(z) /\ WeDone(z)
  BY <1>2 DEF AnswerRecords, Something, Undenied, Looked, Ordinary
<1>5. ASSUME InScope(q) PROVE Complete(q, x)
  <2>1. Looked(z) /\ R = Typed(Node(z, n), q.qtype) /\ Verdict(q.qtype, n) = "data"
    BY <1>2, <1>4, <1>5, SomethingIs
  <2>2. /\ z = Home(n) /\ db \in Databases
        /\ k \in 0 .. MaxRetargets /\ Chasing(q, r, k, n) /\ IsPacket(r)
        /\ q.qtype \in {"A", "MX", "NS", "CNAME"}
    BY <1>2, <1>5, <2>1, LookedIs
  <2>3. T = {}
    BY <1>2, <2>2 DEF CompleteANYRecords
  <2>4. S = Put("answer", n, R) /\ y = Add(r, S) /\ R = Typed(Node(Home(n), n), q.qtype)
    BY <1>2, <2>1, <2>2
  <2>5. Complete(q, Add(y, T))
    BY <2>1, <2>2, <2>3, <2>4, RoundData
  <2> QED
    BY <1>2, <2>5
<1>6. pc = "retargeted"
  BY <1>4 DEF HaveAuthority
<1> QED
  BY <1>2, <1>3, <1>5, <1>6, AnswerComposed

LEMMA AnswerDenyType ==
  ASSUME AnswerInv, DenialInv', DenyType
  PROVE  AnswerInv'
<1>1. PICK sec : Compose(MakeNOError(r, Authority, target, sec))
  BY DEF DenyType
<1>2. PICK q, n, z, k, x : /\ q = p /\ n = target /\ z = Authority /\ k = retargetcount
                           /\ x = MakeNOError(r, z, n, sec)
  OBVIOUS
<1>3. HaveAuthority /\ Something(z) /\ ~WeRedirected(z) /\ ~WeDone(z)
  BY <1>2 DEF DenyType, Something, Undenied, Looked, Ordinary
<1>4. ASSUME InScope(q) PROVE Complete(q, x)
  <2>1. Looked(z) /\ Verdict(q.qtype, n) = "NoData"
    BY <1>2, <1>3, <1>4, SomethingIs
  <2>2. z = Home(n) /\ k \in 0 .. MaxRetargets /\ Chasing(q, r, k, n) /\ IsPacket(r)
    BY <1>2, <1>4, <2>1, LookedIs
  <2>3. Complete(q, MakeNOError(r, Home(n), n, sec))
    BY <2>1, <2>2, RoundNOError
  <2> QED
    BY <1>2, <2>2, <2>3
<1>5. pc = "retargeted" /\ Compose(x)
  BY <1>1, <1>2, <1>3 DEF HaveAuthority
<1> QED
  BY <1>2, <1>4, <1>5, AnswerComposed

LEMMA AnswerDenyDS ==
  ASSUME AnswerInv, DenialInv', DenyDS
  PROVE  AnswerInv'
<1>1. PICK x : Compose(x)
  BY DEF DenyDS
<1>2. pc = "retargeted" /\ p.qtype = "DS"
  BY DEF DenyDS, MayDenyDS, Looked, Ordinary, HaveAuthority
<1>3. ~InScope(p)
  BY <1>2, ScopeIs
<1> QED
  BY <1>1, <1>2, <1>3, AnswerComposed

LEMMA AnswerUnauth ==
  ASSUME AnswerInv, DenialInv', ReferUnauth
  PROVE  AnswerInv'
<1>1. PICK x : Compose(x)
  BY DEF ReferUnauth
<1>2. PICK q, n, z : q = p /\ n = target /\ z = Authority
  OBVIOUS
<1>3. /\ Something(z) /\ ~WeRedirected(z) /\ ~WeDone(z) /\ WeHaveUnauth(z)
  BY <1>2 DEF ReferUnauth
<1>4. pc = "retargeted"
  BY DEF ReferUnauth, Something, Undenied, Looked, Ordinary, HaveAuthority
<1>5. ~InScope(q)
  BY <1>2, <1>3, SomethingIs
<1> QED
  BY <1>1, <1>2, <1>4, <1>5, AnswerComposed

(* There is nothing at the target: what it comes to is the wildcard's. *)
LEMMA NothingIs ==
  ASSUME AnswerInv, NEW q, q = p, InScope(q), NEW n, n = target, NEW z, z = Authority, Nothing(z)
  PROVE  /\ Looked(z)
         /\ Wildcards(z, n) = {} => Verdict(q.qtype, n) = "NoName"
         /\ Wildcards(z, n) # {} =>
              /\ WildcardSet(z, n) = {rr \in Node(z, n) : rr.type \in {q.qtype, "CNAME"}}
              /\ q.qtype # "CNAME"
              /\ Verdict(q.qtype, n) = IF Typed(Node(z, n), "CNAME") # {} THEN "alias"
                                       ELSE IF Typed(Node(z, n), q.qtype) # {} THEN "data" ELSE "NoData"
<1>1. Looked(z) /\ At(z, n) = {}
  BY DEF Nothing, Undenied, Recs
<1>2. /\ z = Home(n) /\ Homes(n) # {} /\ RegularFor(z, n) /\ Cuts(z, n) = {} /\ n \in Name
      /\ db \in Databases /\ q.qtype \in {"A", "MX", "NS", "CNAME"}
      /\ q.qtype = "CNAME" => Exists(z, n)
  BY <1>1, LookedIs
<1>3. /\ ~Exists(z, n)
      /\ Wildcards(z, n) = {} => Verdict(q.qtype, n) = "NoName"
      /\ Wildcards(z, n) # {} =>
           /\ Node(z, n) = At(z, Star(Longest(Wildcards(z, n))))
           /\ Verdict(q.qtype, n) =
                IF Typed(Node(z, n), "CNAME") # {} /\ q.qtype # "CNAME" THEN "alias"
                ELSE IF Typed(Node(z, n), q.qtype) # {} THEN "data" ELSE "NoData"
  BY <1>1, <1>2, WildcardFound
<1>4. q.qtype # "CNAME"
  BY <1>2, <1>3
<1>5. Wildcards(z, n) # {} =>
        WildcardSet(z, n) = {rr \in Node(z, n) : rr.type \in {q.qtype, "CNAME"}}
  BY <1>2, <1>3 DEF WildcardSet
<1> QED
  BY <1>1, <1>3, <1>4, <1>5

LEMMA AnswerDenyName ==
  ASSUME AnswerInv, DenialInv', DenyName
  PROVE  AnswerInv'
<1>1. PICK sec : Compose(MakeNXDomain(r, Authority, target, sec))
  BY DEF DenyName
<1>2. PICK q, n, z, k, x : /\ q = p /\ n = target /\ z = Authority /\ k = retargetcount
                           /\ x = MakeNXDomain(r, z, n, sec)
  OBVIOUS
<1>3. HaveAuthority /\ Nothing(z) /\ Wildcards(z, n) = {}
  BY <1>2 DEF DenyName, Nothing, Undenied, Looked, Ordinary
<1>4. ASSUME InScope(q) PROVE Complete(q, x)
  <2>1. Looked(z) /\ Verdict(q.qtype, n) = "NoName"
    BY <1>2, <1>3, <1>4, NothingIs
  <2>2. z = Home(n) /\ k \in 0 .. MaxRetargets /\ Chasing(q, r, k, n) /\ IsPacket(r)
    BY <1>2, <1>4, <2>1, LookedIs
  <2>3. Complete(q, MakeNXDomain(r, Home(n), n, sec))
    BY <2>1, <2>2, RoundNXDomain
  <2> QED
    BY <1>2, <2>2, <2>3
<1>5. pc = "retargeted" /\ Compose(x)
  BY <1>1, <1>2, <1>3 DEF HaveAuthority
<1> QED
  BY <1>2, <1>4, <1>5, AnswerComposed

LEMMA AnswerWildcard ==
  ASSUME AnswerInv, DenialInv', TryWildcard
  PROVE  AnswerInv'
<1>1. PICK sec \in IsSecuredZone(Authority), again \in IsSecuredZone(Authority) :
       LET rrset == WildcardSet(Authority, target)
           done == Add(Add(r, Put("answer", target, rrset)), WildcardProof(Authority, sec))
       IN IF rrset = {}
          THEN Compose(MakeNOError(done, Authority, target, again))
          ELSE IF Typed(rrset, "CNAME") = {}
          THEN Compose(done)
          ELSE \E rr \in Typed(rrset, "CNAME") : Retarget(done, rr.to)
  BY DEF TryWildcard
<1>2. PICK q, n, z, k, R, S, T, y, x :
        /\ q = p /\ n = target /\ z = Authority /\ k = retargetcount
        /\ R = WildcardSet(z, n)
        /\ S = Put("answer", n, R)
        /\ T = WildcardProof(z, sec)
        /\ y = Add(r, S)
        /\ x = Add(y, T)
  OBVIOUS
<1>3. HaveAuthority /\ Nothing(z) /\ Wildcards(z, n) # {}
  BY <1>2 DEF TryWildcard, Nothing, Undenied, Looked, Ordinary
<1>4. pc = "retargeted" /\ IsPacket(r)
  BY <1>3 DEF HaveAuthority, AnswerInv, DenialInv
<1>5. IsPacket(y) /\ y.ra = r.ra
  BY <1>2, <1>4, AddIs
<1>6. IsPacket(x) /\ x.ra = r.ra
  <2>1. x = Add(y, T)
    BY <1>2
  <2>2. IsPacket(x) /\ x.ra = y.ra
    BY <1>5, <2>1, AddIs
  <2> QED
    BY <1>5, <2>2
<1>7. \A a \in T : a.place = "authority" /\ a.type = "NSEC"
  <2>1. \A a \in AddNSECX(z, p.qname, 3) : a.place = "authority" /\ a.type = "NSEC"
    BY NSECFields
  <2> QED
    BY <1>2, <2>1 DEF WildcardProof
<1>8. ASSUME InScope(q)
      PROVE  /\ db \in Databases /\ z = Home(n) /\ Homes(n) # {} /\ n \in Name
             /\ k \in 0 .. MaxRetargets /\ Chasing(q, r, k, n)
             /\ q.qtype \in {"A", "MX", "NS", "CNAME"}
             /\ R = {rr \in Node(z, n) : rr.type \in {q.qtype, "CNAME"}}
             /\ q.qtype # "CNAME"
             /\ Verdict(q.qtype, n) = IF Typed(Node(z, n), "CNAME") # {} THEN "alias"
                                      ELSE IF Typed(Node(z, n), q.qtype) # {} THEN "data" ELSE "NoData"
  <2>1. /\ Looked(z) /\ R = {rr \in Node(z, n) : rr.type \in {q.qtype, "CNAME"}}
        /\ q.qtype # "CNAME"
        /\ Verdict(q.qtype, n) = IF Typed(Node(z, n), "CNAME") # {} THEN "alias"
                                 ELSE IF Typed(Node(z, n), q.qtype) # {} THEN "data" ELSE "NoData"
    BY <1>2, <1>3, <1>8, NothingIs
  <2>2. /\ db \in Databases /\ z = Home(n) /\ Homes(n) # {} /\ n \in Name
        /\ k \in 0 .. MaxRetargets /\ Chasing(q, r, k, n)
        /\ q.qtype \in {"A", "MX", "NS", "CNAME"}
    BY <1>2, <1>8, <2>1, LookedIs
  <2> QED
    BY <2>1, <2>2
<1>9. CASE R = {}
  <2>1. PICK w : w = MakeNOError(x, z, n, again)
    OBVIOUS
  <2>2. Compose(w)
    BY <1>1, <1>2, <1>9, <2>1
  <2>3. ASSUME InScope(q) PROVE Complete(q, w)
    <3>1. Verdict(q.qtype, n) = "NoData" /\ z = Home(n) /\ k \in 0 .. MaxRetargets /\ Chasing(q, r, k, n)
      BY <1>8, <1>9, <2>3 DEF Typed
    <3>2. S = {}
      BY <1>2, <1>9 DEF Put
    <3>3. Chasing(q, y, k, n)
      BY <1>2, <1>4, <3>1, <3>2, ChasingProof
    <3>4. Chasing(q, x, k, n)
      BY <1>2, <1>5, <1>7, <3>3, ChasingProof
    <3>5. Complete(q, MakeNOError(x, Home(n), n, again))
      BY <1>6, <3>1, <3>4, RoundNOError
    <3> QED
      BY <2>1, <3>1, <3>5
  <2> QED
    BY <1>2, <1>4, <2>2, <2>3, AnswerComposed
<1>10. CASE R # {} /\ Typed(R, "CNAME") = {}
  <2>1. Compose(x)
    BY <1>1, <1>2, <1>10
  <2>2. ASSUME InScope(q) PROVE Complete(q, x)
    <3>1. Typed(Node(z, n), "CNAME") = {} /\ R = Typed(Node(z, n), q.qtype)
      BY <1>8, <1>10, <2>2 DEF Typed
    <3>2. Verdict(q.qtype, n) = "data"
      BY <1>8, <1>10, <2>2, <3>1
    <3>3. /\ db \in Databases /\ z = Home(n) /\ k \in 0 .. MaxRetargets /\ Chasing(q, r, k, n)
          /\ q.qtype \in {"A", "MX", "NS", "CNAME"}
      BY <1>8, <2>2
    <3>4. S = Put("answer", n, R) /\ y = Add(r, S) /\ R = Typed(Node(Home(n), n), q.qtype)
      BY <1>2, <3>1, <3>3
    <3>5. Complete(q, Add(y, T))
      BY <1>4, <1>7, <3>2, <3>3, <3>4, RoundData
    <3> QED
      BY <1>2, <3>5
  <2> QED
    BY <1>2, <1>4, <2>1, <2>2, AnswerComposed
<1>11. CASE R # {} /\ Typed(R, "CNAME") # {}
  <2>1. PICK rr \in Typed(R, "CNAME") : Retarget(x, rr.to)
    BY <1>1, <1>2, <1>11
  <2>2. PICK to : to = rr.to
    OBVIOUS
  <2>3. ASSUME InScope(q) PROVE Chasing(q, x, k + 1, to)
    <3>1. rr \in Typed(Node(z, n), "CNAME") /\ rr.type = "CNAME"
      BY <1>8, <2>1, <2>3 DEF Typed
    <3>2. /\ db \in Databases /\ z = Home(n) /\ Homes(n) # {} /\ n \in Name
          /\ k \in 0 .. MaxRetargets /\ Chasing(q, r, k, n) /\ Verdict(q.qtype, n) = "alias"
      BY <1>8, <2>3, <3>1
    <3>3. Node(z, n) = {rr} /\ AliasOf(n) = to /\ to \in Name
      BY <2>2, <3>1, <3>2, AliasIs
    <3>4. R = {rr}
      BY <1>8, <2>3, <3>1, <3>3
    <3>5. S = {RR("answer", n, "CNAME", AliasOf(n))}
      BY <1>2, <2>2, <3>1, <3>3, <3>4 DEF Put
    <3>6. Chasing(q, y, k + 1, AliasOf(n))
      BY <1>2, <1>4, <3>2, <3>3, <3>5, ChasingOn
    <3>7. Chasing(q, x, k + 1, AliasOf(n))
      BY <1>2, <1>5, <1>7, <3>6, ChasingProof
    <3> QED
      BY <3>3, <3>7
  <2> QED
    BY <1>2, <1>4, <1>6, <2>1, <2>2, <2>3, AnswerRetargeted
<1> QED
  BY <1>9, <1>10, <1>11

LEMMA AnswerInit == Init => AnswerInv
<1> SUFFICES ASSUME Init PROVE AnswerInv
  OBVIOUS
<1>1. pc = "idle" /\ pcache = {} /\ sent = None /\ retargetcount = 0 /\ proxied = {}
  BY DEF Init
<1> QED
  BY <1>1, DenialInit DEF AnswerInv, Handling, Followed, Composed, Answered, CacheRight

LEMMA AnswerInductive == AnswerInv /\ [Next]_vars => AnswerInv'
<1> SUFFICES ASSUME AnswerInv, [Next]_vars PROVE AnswerInv'
  OBVIOUS
<1>0. DenialInv'
  BY DenialInductive DEF AnswerInv
<1>1. ASSUME NEW q \in Requests, AnswerFromCache(q) PROVE AnswerInv'
  BY <1>0, <1>1, AnswerFromCacheKeeps
<1>2. ASSUME NEW q \in Requests, Refuse(q) PROVE AnswerInv'
  BY <1>0, <1>2, AnswerRefuse
<1>3. ASSUME NEW q \in Requests, QuestionOrRecurse(q) PROVE AnswerInv'
  BY <1>0, <1>3, AnswerQuestion
<1>4. CASE Step
  <2>1. CASE TooManyRetargets
    BY <1>0, <2>1, AnswerTooMany
  <2>2. CASE Recurse
    BY <1>0, <2>2, AnswerRecurse
  <2>3. CASE GiveNoAnswer
    BY <1>0, <2>3, AnswerNoAnswer
  <2>4. CASE AnswerApex
    BY <1>0, <2>4, AnswerApexOther
  <2>5. CASE TrumpCNAME
    BY <1>0, <2>5, AnswerApexOther
  <2>6. CASE Refer
    <3>1. HaveAuthority /\ Cuts(Authority, target) # {}
      BY <2>6 DEF Refer, Ordinary
    <3> QED
      BY <1>0, <2>6, <3>1, AnswerRefer DEF Refer
  <2>7. CASE DenyDS
    BY <1>0, <2>7, AnswerDenyDS
  <2>8. CASE ReferDS
    <3>1. HaveAuthority /\ Cuts(Authority, target) # {}
      BY <2>8 DEF ReferDS, Nothing, Undenied, Looked, Ordinary
    <3> QED
      BY <1>0, <2>8, <3>1, AnswerRefer DEF ReferDS
  <2>9. CASE TryWildcard
    BY <1>0, <2>9, AnswerWildcard
  <2>10. CASE DenyName
    BY <1>0, <2>10, AnswerDenyName
  <2>11. CASE FollowCNAME
    BY <1>0, <2>11, AnswerFollow
  <2>12. CASE AnswerRecords
    BY <1>0, <2>12, AnswerGiven
  <2>13. CASE ReferUnauth
    BY <1>0, <2>13, AnswerUnauth
  <2>14. CASE DenyType
    BY <1>0, <2>14, AnswerDenyType
  <2>15. CASE SendIt
    BY <1>0, <2>15, AnswerSendIt
  <2> QED
    BY <1>4, <2>1, <2>2, <2>3, <2>4, <2>5, <2>6, <2>7, <2>8, <2>9, <2>10, <2>11, <2>12,
       <2>13, <2>14, <2>15 DEF Step
<1>5. CASE BackendFails
  BY <1>0, <1>5, AnswerFails
<1>6. CASE RelayAnswer
  BY <1>0, <1>6, AnswerRelay
<1>7. CASE Expire
  BY <1>0, <1>7, AnswerExpire
<1>8. CASE UNCHANGED vars
  <2>1. UNCHANGED <<db, pcache, proxied, sent, pc, locals>>
    BY <1>8 DEF vars
  <2> QED
    BY <1>0, <2>1, AnswerQuiet, AnswerBeside
<1> QED
  BY <1>1, <1>2, <1>3, <1>4, <1>5, <1>6, <1>7, <1>8 DEF Next

(***************************************************************************)
(* Every answer the handler composes about regular zones, for a question   *)
(* of type A, MX, NS or CNAME, is the one RFC 1034 and 4592 give: the      *)
(* order of questionOrRecurse's tests, bottom up and with a goto for each  *)
(* CNAME, comes to the same as the search from the top.                    *)
(***************************************************************************)
THEOREM AnswersRightSafe == Spec => []AnswersRight
<1>1. AnswerInv => AnswersRight
  BY AnsweredIs DEF AnswerInv
<1> QED
  BY AnswerInit, AnswerInductive, <1>1, PTL DEF Spec

(***************************************************************************)
(* What the packet cache keeps is such an answer for every question that   *)
(* has its key and may not recurse: no ServFail of a backend that broke    *)
(* and no half followed chain of CNAMEs is served again, and nothing the   *)
(* recursor said to a question that may recurse.                           *)
(***************************************************************************)
THEOREM CacheRightSafe == Spec => []CacheRight
<1>1. AnswerInv => CacheRight
  BY DEF AnswerInv
<1> QED
  BY AnswerInit, AnswerInductive, <1>1, PTL DEF Spec
=============================================================================
