--------------------------- MODULE PacketHandler ---------------------------
(***************************************************************************)
(* How the authoritative server comes to its answer (packethandler.cc),    *)
(* from the packet cache lookup of qthread to PC.insert, and on to the     *)
(* recursing proxy for the questions it has no authority over.  A name is  *)
(* the sequence of its labels, most specific first, <<>> the root.         *)
(*                                                                         *)
(* One question is handled at a time; the backends do not change meanwhile *)
(* but may throw an exception in any round of lookups.  A round is one     *)
(* pass from the label retargeted to the next goto.  Signatures, record    *)
(* contents and ttls are left out; an NSEC or NSEC3 record is the name it  *)
(* proves something about.  The zones are rectified, or have no DNSSEC     *)
(* data at all (auth is TRUE everywhere).                                  *)
(***************************************************************************)
EXTENDS Integers, Sequences, FiniteSets

CONSTANTS
  Label,         \* the labels of names; what an address or a key is made of
  Databases,     \* what the backends may hold: zone apex |-> name |-> records
  Securities,    \* zone apex |-> "none", "inactive" (keys only), "nsec" or "nsec3"
  Requests,      \* the questions clients may ask
  Recursion,     \* whether recursor is set
  RootReferral,  \* whether send-root-referral is set
  MaxRetargets,  \* 10 in the code
  MaxQuestions   \* bound on the questions that reach the handler

(* A name and everything chopOff leaves of it, the root included. *)
Chops(n) == {SubSeq(n, i, Len(n)) : i \in 1 .. Len(n) + 1}

(***************************************************************************)
(* A zone has records at its apex; an alias has one target and no other    *)
(* data (RFC 1034, 3.6.2); a wildcard is no delegation (RFC 4592, 4.2);    *)
(* only delegations and what is below them are not authoritative data.     *)
(***************************************************************************)
Name == Seq(Label)
Question == [qname : Name, qtype : STRING, do : BOOLEAN, rd : BOOLEAN, allowed : BOOLEAN,
             tsig : STRING, form : STRING, class : STRING]
ASSUME DataAssumption ==
  /\ "*" \in Label
  /\ MaxRetargets \in Nat
  /\ Requests \subseteq Question
  /\ \A d \in Databases : \A z \in DOMAIN d :
       /\ z \in Name /\ z \in DOMAIN d[z]
       /\ \A n \in DOMAIN d[z] : n \in Name /\ \A rr \in d[z][n] :
            /\ rr.to \in Name
            /\ rr.type = "CNAME" => d[z][n] = {rr}
            /\ rr.type = "NS" => n = <<>> \/ n[1] # "*"
            /\ rr.auth \/ \E s \in Chops(n) \ Chops(z) :
                            s \in DOMAIN d[z] /\ \E ns \in d[z][s] : ns.type = "NS"

VARIABLES
  db,            \* what the backends hold
  secured,       \* what the DNSSECKeeper holds
  pcache,        \* the packet cache: packets under their keys
  proxied,       \* questions DP->sendPacket took and the recursor has not answered
  asked,         \* how many questions reached the handler
  sent,          \* the last reply sent, with its question (history)
  pc,            \* where questionOrRecurse is
  p,             \* the question
  r,             \* the reply packet
  target,        \* the name looked for
  retargetcount

locals == <<p, r, target, retargetcount>>
vars == <<db, secured, pcache, proxied, asked, sent, pc, locals>>

Zones == DOMAIN db

Longest(S) == CHOOSE s \in S : \A t \in S : Len(t) =< Len(s)
Star(n) == <<"*">> \o n

At(z, n) == IF n \in DOMAIN db[z] THEN db[z][n] ELSE {}
Typed(S, type) == {rr \in S : rr.type = type}

(* Records of the reply; place is their section. *)
RR(place, n, type, to) == [place |-> place, name |-> n, type |-> type, to |-> to]
Put(place, n, S) == {RR(place, n, rr.type, rr.to) : rr \in S}

(* DNSPacket::addRecord drops a record the packet has already, whatever its section. *)
Same(a, b) == a.name = b.name /\ a.type = b.type /\ a.to = b.to
Add(packet, new) ==
  [packet EXCEPT !.rrs = @ \cup {a \in new : \A b \in packet.rrs : ~Same(a, b)}]

(* replyPacket: an empty authoritative answer. *)
ReplyPacket == [rcode |-> "NoError", aa |-> TRUE, ra |-> FALSE, rrs |-> {}]
ServFail(packet) == [packet EXCEPT !.rcode = "ServFail"]

None == [none |-> TRUE]
Idle ==
  /\ pc' = "idle"
  /\ p' = None
  /\ r' = None
  /\ target' = <<>>
  /\ retargetcount' = 0

Init ==
  /\ db \in Databases
  /\ secured \in Securities
  /\ pcache = {}
  /\ proxied = {}
  /\ asked = 0
  /\ sent = None
  /\ pc = "idle"
  /\ p = None
  /\ r = None
  /\ target = <<>>
  /\ retargetcount = 0

(* The reply leaves; from tells who made it. *)
Send(q, packet, from) == sent' = [q |-> q, packet |-> packet, from |-> from]

-----------------------------------------------------------------------------
(***************************************************************************)
(* The packet cache, as qthread, questionOrRecurse and DNSProxy use it.    *)
(* Entries expire at any time.                                             *)
(***************************************************************************)
MeritsRecursion(q) == Recursion /\ q.rd
Key_nodo(q) == [qname |-> q.qname, qtype |-> q.qtype, do |-> FALSE,
                merits |-> MeritsRecursion(q)]
Key(q) == [qname |-> q.qname, qtype |-> q.qtype, do |-> q.do,
           merits |-> MeritsRecursion(q)]
Hit(q) == {e \in pcache : e.key = Key(q) /\ q.class = "IN"}
Insert(q, packet) ==
  pcache' = IF q.class = "IN"
            THEN {e \in pcache : e.key # Key(q)} \cup {[key |-> Key(q), packet |-> packet]}
            ELSE pcache

(* qthread: a question the packet cache answers never reaches the handler. *)
AnswerFromCache(q) ==
  /\ \E e \in Hit(q) : Send(q, e.packet, "cache")
  /\ UNCHANGED <<db, secured, pcache, proxied, asked, pc, locals>>

Expire ==
  /\ \E e \in pcache : pcache' = pcache \ {e}
  /\ UNCHANGED <<db, secured, proxied, asked, sent, pc, locals>>

(* The questions refused before any lookup. *)
EarlyRcode(q) ==
  IF q.tsig = "bad" THEN "NotAuth"
  ELSE IF q.form = "BadName" THEN "ServFail"
  ELSE IF q.form = "opcode" \/ q.qtype = "IXFR" THEN "NotImp"
  ELSE IF q.qtype = "URL" THEN "ServFail"
  ELSE "NoError"

RecursionAvailable(q) == q.rd /\ Recursion /\ q.allowed

(* questionOrRecurse on a question it refuses. *)
Refuse(q) ==
  /\ pc = "idle"
  /\ asked < MaxQuestions
  /\ Hit(q) = {}
  /\ EarlyRcode(q) # "NoError"
  /\ Send(q, [ReplyPacket EXCEPT !.rcode = EarlyRcode(q),
                                 !.ra = /\ RecursionAvailable(q)
                                        /\ q.tsig # "bad"
                                        /\ q.form = "query"], "handler")
  /\ asked' = asked + 1
  /\ UNCHANGED <<db, secured, pcache, proxied, pc, locals>>

(* questionOrRecurse up to the label retargeted. *)
QuestionOrRecurse(q) ==
  /\ pc = "idle"
  /\ asked < MaxQuestions
  /\ Hit(q) = {}
  /\ EarlyRcode(q) = "NoError"
  /\ asked' = asked + 1
  /\ p' = q
  /\ r' = [ReplyPacket EXCEPT !.ra = RecursionAvailable(q), !.aa = q.class # "ANY"]
  /\ pc' = IF q.class = "CH" THEN "sendit" ELSE "retargeted"
  /\ target' = q.qname
  /\ UNCHANGED <<db, secured, pcache, proxied, sent, retargetcount>>

-----------------------------------------------------------------------------
(***************************************************************************)
(* isSecuredZone wants an active key signing key when it reads the keys,   *)
(* but any key will do when they come from the key cache: for a zone whose *)
(* keys are all inactive it says either, on every call.                    *)
(***************************************************************************)
IsSecuredZone(z) ==
  CASE secured[z] = "none" -> {FALSE}
    [] secured[z] = "inactive" -> BOOLEAN
    [] OTHER -> {TRUE}

(* addNSECX: the names the NSECs, or NSEC3s, added in a mode tell about. *)
Proofs(z, n, mode) ==
  IF secured[z] = "nsec3"
  THEN {z, p.qname, Star(z)}
  ELSE IF ~p.do THEN {} ELSE IF mode = 1 THEN {n, z} ELSE {n}
AddNSECX(z, n, mode) ==
  {RR(IF mode = 2 THEN "answer" ELSE "authority", a, "NSEC", <<>>) : a \in Proofs(z, n, mode)}

SOA(z) == RR("authority", z, "SOA", <<>>)

MakeNOError(packet, z, n, sec) ==
  Add(packet, {SOA(z)} \cup (IF p.do /\ sec THEN AddNSECX(z, n, 0) ELSE {}))
MakeNXDomain(packet, z, n, sec) ==
  [Add(packet, {SOA(z)} \cup (IF p.do /\ sec THEN AddNSECX(z, n, 1) ELSE {}))
     EXCEPT !.rcode = "NXDomain"]

(* getAuth: a DS question is never answered from the apex it is about. *)
GetAuth(n) == {z \in Chops(n) \cap Zones : ~(p.qtype = "DS" /\ z = n)}

(* getBestReferralNS: the closest names with NS records, under the apex. *)
Cuts_apex(z, n) == {s \in Chops(n) : Len(s) >= Len(z) /\ Typed(At(z, s), "NS") # {}}
Cuts(z, n) == {s \in Chops(n) : Len(s) > Len(z) /\ Typed(At(z, s), "NS") # {}}

TryReferral(packet, z, n, sec) ==
  LET cut == Longest(Cuts(z, n))
      ds == Typed(At(z, cut), "DS")
      ns == [Add(packet, Put("authority", cut, Typed(At(z, cut), "NS"))) EXCEPT !.aa = FALSE]
  IN IF p.do /\ sec
     THEN Add(ns, IF ds # {} THEN Put("authority", cut, ds) ELSE AddNSECX(z, cut, 0))
     ELSE ns

(* getBestWildcard: the wildcards above n, up to the one at the apex. *)
Wildcards(z, n) ==
  {s \in Chops(n) \ {n} : Len(s) >= Len(z) /\ At(z, Star(s)) # {}}
WildcardSet(z, n) ==
  {rr \in At(z, Star(Longest(Wildcards(z, n)))) :
     rr.type = p.qtype \/ rr.type = "CNAME" \/ p.qtype = "ANY"}

-----------------------------------------------------------------------------
(***************************************************************************)
(* A round of questionOrRecurse, from the label retargeted.  Its branches  *)
(* are tried in this order, one action each; sd.qname is the zone found.   *)
(***************************************************************************)
TooManyRetargets ==
  /\ pc = "retargeted"
  /\ retargetcount > MaxRetargets
  /\ Send(p, ServFail(r), "handler")
  /\ Idle
  /\ UNCHANGED <<db, secured, pcache, proxied, asked>>

NoAuthority ==
  /\ pc = "retargeted"
  /\ retargetcount =< MaxRetargets
  /\ GetAuth(target) = {}

Recurse ==
  /\ NoAuthority
  /\ r.ra
  /\ proxied' = proxied \cup {p}
  /\ Idle
  /\ UNCHANGED <<db, secured, pcache, asked, sent>>

GiveNoAnswer ==
  /\ NoAuthority
  /\ ~r.ra
  /\ r' = [Add(r, IF RootReferral THEN {RR("authority", <<>>, "NS", <<"RootServer">>)}
                                  ELSE {})
             EXCEPT !.aa = @ /\ retargetcount > 0]
  /\ pc' = "sendit"
  /\ UNCHANGED <<db, secured, pcache, proxied, asked, sent, p, target, retargetcount>>

Authority == Longest(GetAuth(target))
HaveAuthority ==
  /\ pc = "retargeted"
  /\ retargetcount =< MaxRetargets
  /\ GetAuth(target) # {}

(* The round ends at sendit, with this packet. *)
Compose(packet) ==
  /\ r' = packet
  /\ pc' = "sendit"
  /\ UNCHANGED <<db, secured, pcache, proxied, asked, sent, p, target, retargetcount>>

(* The round ends at retargeted, with this packet and target. *)
Retarget_ifNew(packet, to) ==
  /\ r' = packet
  /\ target' = to
  /\ retargetcount' = IF packet = r THEN retargetcount ELSE retargetcount + 1
  /\ UNCHANGED <<db, secured, pcache, proxied, asked, sent, pc, p>>
Retarget(packet, to) ==
  /\ r' = packet
  /\ target' = to
  /\ retargetcount' = retargetcount + 1
  /\ UNCHANGED <<db, secured, pcache, proxied, asked, sent, pc, p>>

(* doDNSKEYRequest, doNSEC3PARAMRequest and the SOA of the zone. *)
ApexRecords(z) ==
  IF /\ z = p.qname
     /\ \/ p.qtype = "DNSKEY" /\ secured[z] # "none"
        \/ p.qtype = "NSEC3PARAM" /\ secured[z] = "nsec3"
        \/ p.qtype = "SOA"
  THEN {RR("answer", z, p.qtype, <<>>)}
  ELSE {}
AnswerApex ==
  /\ HaveAuthority
  /\ ApexRecords(Authority) # {}
  /\ Compose(Add(r, ApexRecords(Authority)))

(* synthesiseRRSIGs signs what is at qname, and the NSEC it would have, with the active keys. *)
SynthesiseRRSIGs ==
  LET z == Longest(GetAuth(p.qname))
  IN IF secured[z] = "nsec" \/ (secured[z] = "nsec3" /\ \E rr \in At(z, p.qname) : rr.auth)
     THEN {RR("answer", p.qname, "RRSIG", <<>>)}
     ELSE {}

(* The NSEC and RRSIG questions that trump a CNAME. *)
Trumps(z, sec) ==
  /\ sec
  /\ \/ p.qtype = "NSEC" /\ p.do /\ secured[z] # "nsec3"
     \/ p.qtype = "RRSIG"
TrumpCNAME ==
  /\ HaveAuthority
  /\ ApexRecords(Authority) = {}
  /\ \E sec \in IsSecuredZone(Authority) : Trumps(Authority, sec)
  /\ Compose(Add(r, IF p.qtype = "NSEC" THEN AddNSECX(Authority, target, 2)
                                        ELSE SynthesiseRRSIGs))

Ordinary(z) ==
  /\ HaveAuthority
  /\ z = Authority
  /\ ApexRecords(z) = {}
  /\ \E sec \in IsSecuredZone(z) : ~Trumps(z, sec)

Refer ==
  /\ Ordinary(Authority)
  /\ p.qtype # "DS"
  /\ Cuts(Authority, target) # {}
  /\ \E sec \in IsSecuredZone(Authority) : Compose(TryReferral(r, Authority, target, sec))

(* The lookup of everything at the target, and what it shows. *)
Looked(z) == Ordinary(z) /\ (p.qtype = "DS" \/ Cuts(z, target) = {})
Recs(z) == At(z, target)
Wanted(rr) == (p.qtype = "ANY" \/ rr.type = p.qtype) /\ (rr.auth \/ rr.type = "DS")
WeDone(z) == \E rr \in Recs(z) : Wanted(rr)
WeHaveUnauth(z) ==
  \E rr \in Recs(z) :
    \/ rr.type = p.qtype /\ ~rr.auth /\ rr.type # "DS"
    \/ rr.type = "NS" /\ (~rr.auth \/ target # z)
WeRedirected(z) == p.qtype # "CNAME" /\ Typed(Recs(z), "CNAME") # {}

(* A DS question at a delegation without one, in a secured zone. *)
MayDenyDS(z) ==
  p.qtype = "DS" /\ WeHaveUnauth(z) /\ ~WeDone(z) /\ ~WeRedirected(z)
DenyDS ==
  /\ Looked(Authority)
  /\ MayDenyDS(Authority)
  /\ TRUE \in IsSecuredZone(Authority)
  /\ \E sec \in IsSecuredZone(Authority) : Compose(MakeNOError(r, Authority, target, sec))
Undenied(z) == Looked(z) /\ (MayDenyDS(z) => FALSE \in IsSecuredZone(z))

(* Nothing at the target. *)
Nothing(z) == Undenied(z) /\ Recs(z) = {}
ReferDS ==
  /\ Nothing(Authority)
  /\ Cuts(Authority, target) # {}
  /\ \E sec \in IsSecuredZone(Authority) : Compose(TryReferral(r, Authority, target, sec))

(* tryWildcard: the proof it adds is about the question's name, not the target. *)
WildcardProof(z, sec) == IF p.do /\ sec THEN AddNSECX(z, p.qname, 3) ELSE {}
TryWildcard ==
  /\ Nothing(Authority)
  /\ Cuts(Authority, target) = {}
  /\ Wildcards(Authority, target) # {}
  /\ \E sec, again \in IsSecuredZone(Authority) :
       LET rrset == WildcardSet(Authority, target)
           done == Add(Add(r, Put("answer", target, rrset)), WildcardProof(Authority, sec))
       IN IF rrset = {}
          THEN Compose(MakeNOError(done, Authority, target, again))
          ELSE IF Typed(rrset, "CNAME") = {}
          THEN Compose(done)
          ELSE \E rr \in Typed(rrset, "CNAME") : Retarget(done, rr.to)
DenyName ==
  /\ Nothing(Authority)
  /\ Cuts(Authority, target) = {}
  /\ Wildcards(Authority, target) = {}
  /\ \E sec \in IsSecuredZone(Authority) : Compose(MakeNXDomain(r, Authority, target, sec))

(* Something at the target. *)
Something(z) == Undenied(z) /\ Recs(z) # {}
FollowCNAME ==
  /\ Something(Authority)
  /\ WeRedirected(Authority)
  /\ \E rr \in Typed(Recs(Authority), "CNAME") :
       Retarget(Add(r, Put("answer", target, {rr})), rr.to)

(* completeANYRecords adds the NSEC of the target, and the keys at the apex. *)
CompleteANYRecords(z, sec) ==
  IF p.qtype # "ANY" \/ ~sec
  THEN {}
  ELSE AddNSECX(z, target, 2)
         \cup {RR("answer", n, "DNSKEY", <<>>) : n \in {z} \cap {p.qname}}
AnswerRecords ==
  /\ Something(Authority)
  /\ ~WeRedirected(Authority)
  /\ WeDone(Authority)
  /\ \E sec \in IsSecuredZone(Authority) :
       Compose(Add(Add(r, Put("answer", target, {rr \in Recs(Authority) : Wanted(rr)})),
                   CompleteANYRecords(Authority, sec)))

(* Only data of a child zone: without NS records above it the reply stays as it is. *)
ReferUnauth ==
  /\ Something(Authority)
  /\ ~WeRedirected(Authority)
  /\ ~WeDone(Authority)
  /\ WeHaveUnauth(Authority)
  /\ IF Cuts(Authority, target) = {}
     THEN Compose(r)
     ELSE \E sec \in IsSecuredZone(Authority) :
            Compose(TryReferral(r, Authority, target, sec))
DenyType ==
  /\ Something(Authority)
  /\ ~WeRedirected(Authority)
  /\ ~WeDone(Authority)
  /\ ~WeHaveUnauth(Authority)
  /\ \E sec \in IsSecuredZone(Authority) : Compose(MakeNOError(r, Authority, target, sec))

-----------------------------------------------------------------------------
(* doAdditionalProcessingAndDropAA: the addresses of the names that records point at. *)
Pointers(packet) == {rr \in packet.rrs : rr.place # "additional" /\ rr.type \in {"NS", "MX"}}
Addresses(n) == UNION {Typed(At(z, n), "A") : z \in Zones}
Additional(packet) ==
  [Add(packet, UNION {Put("additional", rr.to, Addresses(rr.to)) : rr \in Pointers(packet)})
     EXCEPT !.aa = /\ @
                   /\ \A rr \in Pointers(packet) :
                        rr.type = "NS" => rr.name = <<>> \/ rr.name \in Zones]

(* From the label sendit: only a question with a TSIG stays out of the packet cache. *)
SendIt ==
  /\ pc = "sendit"
  /\ LET packet == Additional(r)
     IN /\ Send(p, packet, "handler")
        /\ IF p.tsig = "none" THEN Insert(p, packet) ELSE UNCHANGED pcache
  /\ Idle
  /\ UNCHANGED <<db, secured, proxied, asked>>

(* The catch clauses: a DBException leaves the reply's records in, any other starts anew. *)
BackendFails_cached ==
  /\ pc # "idle"
  /\ \E packet \in {r, ReplyPacket} :
       /\ Send(p, ServFail(packet), "failed")
       /\ Insert(p, ServFail(packet))
  /\ Idle
  /\ UNCHANGED <<db, secured, proxied, asked>>
BackendFails ==
  /\ pc # "idle"
  /\ \E packet \in {r, ReplyPacket} : Send(p, ServFail(packet), "failed")
  /\ Idle
  /\ UNCHANGED <<db, secured, pcache, proxied, asked>>

(* DNSProxy::mainloop: the recursor's answer goes into the packet cache and to the client. *)
(* The key is read off that answer, which may or may not repeat the DO bit.                *)
RelayAnswer ==
  /\ \E q \in proxied :
       LET packet == [rcode |-> "NoError", aa |-> FALSE, ra |-> TRUE,
                      rrs |-> {RR("answer", q.qname, q.qtype, <<"FromRecursor">>)}]
       IN /\ proxied' = proxied \ {q}
          /\ \E do \in {q.do, FALSE} : Insert([q EXCEPT !.do = do], packet)
          /\ Send(q, packet, "recursor")
  /\ UNCHANGED <<db, secured, asked, pc, locals>>

Step == TooManyRetargets \/ Recurse \/ GiveNoAnswer \/ AnswerApex \/ TrumpCNAME \/ Refer
          \/ DenyDS \/ ReferDS \/ TryWildcard \/ DenyName \/ FollowCNAME \/ AnswerRecords
          \/ ReferUnauth \/ DenyType \/ SendIt

Next ==
  \/ \E q \in Requests : AnswerFromCache(q) \/ Refuse(q) \/ QuestionOrRecurse(q)
  \/ Step
  \/ BackendFails
  \/ RelayAnswer
  \/ Expire

(* The handler's thread runs; the recursor need not answer. *)
Spec == Init /\ [][Next]_vars /\ WF_vars(Step)

-----------------------------------------------------------------------------
(***************************************************************************)
(* What a question should come to, top down as RFC 1034 4.3.2 has it: find *)
(* the zone, leave at the topmost delegation, else take the name itself or *)
(* the wildcard at its closest encloser, and start again at a CNAME.       *)
(***************************************************************************)
Shortest(S) == CHOOSE s \in S : \A t \in S : Len(s) =< Len(t)
Homes(n) == {z \in Zones : z \in Chops(n)}
Home(n) == Longest(Homes(n))
Delegations(z, n) ==
  {s \in Chops(n) \ Chops(z) : s \in DOMAIN db[z] /\ \E rr \in db[z][s] : rr.type = "NS"}
Exists(z, n) == \E m \in DOMAIN db[z] : n \in Chops(m)
Encloser(z, n) == Longest({s \in Chops(n) : Exists(z, s)})
Node(z, n) == IF Exists(z, n) THEN At(z, n) ELSE At(z, Star(Encloser(z, n)))
Found(z, n) == Exists(z, n) \/ Star(Encloser(z, n)) \in DOMAIN db[z]

(* What one name comes to. *)
Verdict(type, n) ==
  IF Homes(n) = {} THEN "outside"
  ELSE LET z == Home(n)
       IN IF Delegations(z, n) # {} THEN "referral"
          ELSE IF ~Found(z, n) THEN "NoName"
          ELSE IF Typed(Node(z, n), "CNAME") # {} /\ type # "CNAME" THEN "alias"
          ELSE IF Typed(Node(z, n), type) # {} THEN "data"
          ELSE "NoData"

(* The names a question leads to, one per CNAME followed. *)
AliasOf(n) == (CHOOSE rr \in Typed(Node(Home(n), n), "CNAME") : TRUE).to
After(n, type) == IF Verdict(type, n) = "alias" THEN AliasOf(n) ELSE n
Trail(q) ==
  LET t[i \in 0 .. MaxRetargets + 1] == IF i = 0 THEN q.qname ELSE After(t[i - 1], q.qtype)
  IN t
Final(q) == Trail(q)[MaxRetargets + 1]
Outcome(q) ==
  IF Verdict(q.qtype, Trail(q)[MaxRetargets]) = "alias" THEN "TooLong"
  ELSE Verdict(q.qtype, Final(q))
Aliases(q) ==
  {RR("answer", n, "CNAME", AliasOf(n)) :
     n \in {Trail(q)[i] : i \in {j \in 0 .. MaxRetargets : Verdict(q.qtype, Trail(q)[j]) = "alias"}}}

Answers(packet) == {rr \in packet.rrs : rr.place = "answer"}
Authorities(packet) == {rr \in packet.rrs : rr.place = "authority" /\ rr.type \notin {"NSEC", "DS"}}

Right(q, packet) ==
  LET n == Final(q)
      z == Home(n)
      cut == Shortest(Delegations(z, n))
      ns == Put("authority", cut, Typed(At(z, cut), "NS"))
      v == Outcome(q)
  IN /\ packet.rcode = CASE v = "TooLong" -> "ServFail"
                         [] v = "NoName" -> "NXDomain"
                         [] OTHER -> "NoError"
     /\ Answers(packet) = Aliases(q) \cup
          (IF v = "data" THEN Put("answer", n, Typed(Node(z, n), q.qtype)) ELSE {})
     /\ Authorities(packet) = CASE v \in {"NoName", "NoData"} -> {RR("authority", z, "SOA", <<>>)}
                                [] v = "referral" -> ns
                                [] v = "outside" /\ RootReferral ->
                                     {RR("authority", <<>>, "NS", <<"RootServer">>)}
                                [] OTHER -> {}
     /\ packet.aa = IF n = q.qname THEN v \notin {"outside", "referral"} ELSE v # "referral"
     \* a referral brings the addresses the client cannot find elsewhere
     /\ v = "referral" =>
          \A rr \in ns : \A a \in Typed(At(z, rr.to), "A") :
            cut \in Chops(rr.to) => \E b \in packet.rrs : b.name = rr.to /\ b.type = "A"

(***************************************************************************)
(* The databases the code answers from as RFC 1034 and 4592 would have it: *)
(* every name between a name and its apex has records, nothing but glue is *)
(* below a delegation, and no name stands between a wildcard and the names *)
(* it is asked for.  (The code takes the lowest NS records it finds, and   *)
(* the lowest wildcard, looks at records only, and follows the CNAME of a  *)
(* wildcard even for a CNAME question.)                                    *)
(***************************************************************************)
Regular(z) ==
  /\ \A n \in DOMAIN db[z] : \A s \in Chops(n) : z \in Chops(s) => At(z, s) # {}
  /\ \A n \in DOMAIN db[z] : \A rr \in db[z][n] :
       (Delegations(z, n) \ {n} # {}) => rr.type = "A"
RegularFor(z, n) ==
  /\ Regular(z)
  /\ Exists(z, n) \/ \A s \in Chops(n) : z \in Chops(s) /\ Star(s) \in DOMAIN db[z]
                       => Star(Encloser(z, n)) \in DOMAIN db[z]
InScope(q) ==
  /\ q.class = "IN"
  /\ EarlyRcode(q) = "NoError"
  /\ q.qtype \in {"A", "MX", "NS", "CNAME"}
  /\ q.qtype = "CNAME" => \A s \in Homes(q.qname) : Exists(s, q.qname)
  /\ \A i \in 0 .. MaxRetargets :
       Homes(Trail(q)[i]) # {} => RegularFor(Home(Trail(q)[i]), Trail(q)[i])

(***************************************************************************)
(* Every answer the handler composes is the one the reference gives: the   *)
(* order of its tests, bottom up and with a goto, comes to the same.       *)
(***************************************************************************)
AnswersRight ==
  sent # None /\ sent.from = "handler" /\ InScope(sent.q) => Right(sent.q, sent.packet)

(***************************************************************************)
(* What the packet cache holds is a right answer for every question that   *)
(* has its key and may not recurse: no ServFail, no half followed chain and *)
(* no reply of a broken backend is ever kept and served again.             *)
(***************************************************************************)
CacheRight ==
  \A e \in pcache : \A q \in Requests :
    e.key = Key(q) /\ InScope(q) /\ ~e.key.merits => Right(q, e.packet)

(***************************************************************************)
(* A DNSSEC client is told why it gets no data.  When no CNAME was followed *)
(* and the zone is secured, a denial proves the name or type away, a       *)
(* referral without DS proves that there is none, and an answer made from  *)
(* a wildcard that there is no closer name; from the cache as well.        *)
(***************************************************************************)
ProofAbout(packet, n) == \E rr \in packet.rrs : rr.type = "NSEC" /\ rr.name = n
DenialProved ==
  LET q == sent.q
      packet == sent.packet
      zone == Longest({s \in Homes(q.qname) : ~(q.qtype = "DS" /\ s = q.qname)})
      soa == RR("authority", zone, "SOA", <<>>)
      cuts == {rr.name : rr \in Typed(Authorities(packet), "NS")}
  IN (/\ sent # None
      /\ sent.from \in {"handler", "cache"}
      /\ q.do /\ q.class = "IN" /\ q.form = "query"
      /\ {s \in Homes(q.qname) : ~(q.qtype = "DS" /\ s = q.qname)} # {}
      /\ Typed(Answers(packet), "CNAME") = {}
      /\ secured[zone] \in {"nsec", "nsec3"})
     => /\ soa \in packet.rrs => ProofAbout(packet, q.qname)
        /\ packet.rcode = "NXDomain" =>
             ProofAbout(packet, IF secured[zone] = "nsec3" THEN Star(zone) ELSE zone)
        /\ packet.aa /\ Answers(packet) # {} /\ q.qtype # "RRSIG" /\ ~Exists(zone, q.qname)
             => ProofAbout(packet, q.qname)
        /\ \A n \in cuts \ {<<>>} :
             \/ \E rr \in packet.rrs : rr.type = "DS" /\ rr.name = n
             \/ ProofAbout(packet, IF secured[zone] = "nsec3" THEN q.qname ELSE n)

(***************************************************************************)
(* Every question the handler takes is done with, CNAME loops included: it *)
(* is answered or given to the recursor.                                   *)
(***************************************************************************)
ChasesEnd == pc # "idle" ~> pc = "idle"
=============================================================================
