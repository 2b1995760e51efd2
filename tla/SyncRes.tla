------------------------------ MODULE SyncRes ------------------------------
(***************************************************************************)
(* The recursor's resolution of a question (syncres.cc), on its record     *)
(* cache, its negative cache and its throttle.  A name is the sequence of  *)
(* its labels, <<>> the root; A records only.                              *)
(*                                                                         *)
(* doResolve and doResolveAt call each other for the address of a name     *)
(* server (getAs) and start over for a CNAME, as the last thing they do:   *)
(* the first pushes a frame on the stack, the second reuses the frame.     *)
(* While a frame waits for an answer time passes and other threads and the *)
(* pruning may take entries out of the caches.                             *)
(*                                                                         *)
(* The name servers are the environment.  Those of the zones in Muddled    *)
(* give any of the answers MuddledReplies, the others what their zone has. *)
(***************************************************************************)
EXTENDS RecursorCache, Sequences

CONSTANTS
  Labels,          \* what names are made of
  ZoneData,        \* apex |-> [servers, data], data: keys |-> contents
  Muddled,         \* zones whose servers are misconfigured
  MuddledReplies,  \* what those may answer
  Questions,       \* [qname, qtype] clients may ask
  TTL,             \* of every record
  GlueTime,        \* 5 seconds
  AgeTime,         \* 10 seconds
  MaxDepth,        \* 10
  LongThrottle, ShortThrottle,        \* 60 and 10 seconds, and the one they end in
  ManyTries, TimeoutTries, FailTries, \* 100, 5 and 3
  MaxResolves,                        \* bound on the resolutions
  MaxLosses                           \* bound on passings of time and evictions

VARIABLES
  cache,           \* t_RC
  negcache,        \* set of [name, type, soa, left], type "" for the whole name
  throttle,        \* [ip, qname, qtype] |-> [left, count]
  stack,           \* the calls of doResolve under way, the innermost last
  question,        \* what the client asked
  result,          \* what it got (history)
  failed,          \* [asking, left, spared]: what a server failed to answer lately, and
                   \* how often it was passed over since (history)
  resolves, losses

vars == <<cache, negcache, throttle, stack, question, result, failed,
          resolves, losses>>

Name == Seq(Labels)
Chops(n) == {SubSeq(n, i, Len(n)) : i \in 1 .. Len(n) + 1}
Longest(S) == CHOOSE s \in S : \A t \in S : Len(t) =< Len(s)

(* dottedEndsOn and moreSpecificThan. *)
DottedEndsOn(n, z) == z \in Chops(n)
MoreSpecificThan(a, b) == Len(a) > Len(b)

RR(place, n, type, to) == [place |-> place, name |-> n, type |-> type, to |-> to]
RRs(place, n, type, S) == {RR(place, n, type, x) : x \in S}

-----------------------------------------------------------------------------
(***************************************************************************)
(* The name servers.                                                       *)
(***************************************************************************)
Apexes == DOMAIN ZoneData
Truth(n, type) ==
  LET z == Longest({a \in Apexes : DottedEndsOn(n, a)})
  IN IF Key(n, type) \in DOMAIN ZoneData[z].data THEN ZoneData[z].data[Key(n, type)] ELSE {}
NameExists(n) == \E z \in Apexes : \E k \in DOMAIN ZoneData[z].data : n \in Chops(k.name)

Reply(rcode, aa, rrs) == [rcode |-> rcode, aa |-> aa, tc |-> FALSE, rrs |-> rrs]

(* The zone that a server goes by, and the zone it refers to. *)
Serving(ip, n) == {z \in Apexes : ip \in ZoneData[z].servers /\ DottedEndsOn(n, z)}
Children(z, n) == {c \in Apexes : c # z /\ DottedEndsOn(c, z) /\ DottedEndsOn(n, c)}
Referral(c) ==
  Reply("NoError", FALSE,
        RRs("authority", c, "NS", Truth(c, "NS"))
          \cup UNION {RRs("additional", ns, "A", Truth(ns, "A")) :
                        ns \in {x \in Truth(c, "NS") : DottedEndsOn(x, c)}})
Answer(z, n, type) ==
  IF Truth(n, "CNAME") # {} /\ type # "CNAME"
  THEN Reply("NoError", TRUE, RRs("answer", n, "CNAME", Truth(n, "CNAME")))
  ELSE IF Truth(n, type) # {}
  THEN Reply("NoError", TRUE, RRs("answer", n, type, Truth(n, type)))
  ELSE Reply(IF NameExists(n) THEN "NoError" ELSE "NXDomain", TRUE,
             RRs("authority", z, "SOA", Truth(z, "SOA")))
UpReferral == Reply("NoError", FALSE, RRs("authority", <<>>, "NS", Truth(<<>>, "NS")))

HonestReplies(ip, n, type) ==
  IF Serving(ip, n) = {} THEN {UpReferral, Reply("Refused", FALSE, {})}
  ELSE LET z == Longest(Serving(ip, n))
       IN IF Children(z, n) # {} THEN {Referral(Longest(Children(z, n)))}
                                 ELSE {Answer(z, n, type)}
Replies(ip, n, type) ==
  IF \E z \in Muddled : ip \in ZoneData[z].servers
  THEN HonestReplies(ip, n, type) \cup MuddledReplies
  ELSE HonestReplies(ip, n, type)

(***************************************************************************)
(* The world: there is a root, names are names, and the other zones do not *)
(* depend on the misconfigured ones: their name servers have names outside *)
(* of those zones, which are no aliases (RFC 2181, 10.3), and addresses of *)
(* their own.                                                              *)
(***************************************************************************)
InMuddled(n) == \E z \in Muddled : DottedEndsOn(n, z)
Sound(ip) == \A z \in Muddled : ip \notin ZoneData[z].servers
Independent(ns) ==
  ns \in Name /\ ~InMuddled(ns) /\ Truth(ns, "CNAME") = {} /\ \A ip \in Truth(ns, "A") : Sound(ip)

ASSUME ZonesAssumption ==
  /\ <<>> \in Apexes /\ Muddled \subseteq Apexes /\ Apexes \subseteq Name
  /\ \A z \in Apexes : \A k \in DOMAIN ZoneData[z].data :
       /\ k.type \in {"NS", "CNAME"} => ZoneData[z].data[k] \subseteq Name
       /\ k.type = "NS" /\ ~InMuddled(k.name) => \A ns \in ZoneData[z].data[k] : Independent(ns)
  /\ \A reply \in MuddledReplies : \A rr \in reply.rrs :
       rr.name \in Name /\ (rr.type \in {"NS", "CNAME"} => rr.to \in Name)
  /\ \A q \in Questions : q.qname \in Name /\ q.qtype # ""

(* A sound zone has name servers, and an alias in it one target and no other data *)
(* (RFC 1034, 3.6.2).                                                             *)
ASSUME SoundAssumption ==
  /\ MaxDepth \in Nat
  /\ \A z \in Apexes : ~InMuddled(z) => Truth(z, "NS") # {}
  /\ \A z \in Apexes : \A k \in DOMAIN ZoneData[z].data :
       ~InMuddled(k.name) /\ Truth(k.name, "CNAME") # {} =>
         /\ \A x, y \in Truth(k.name, "CNAME") : x = y
         /\ k.type # "CNAME" => Truth(k.name, k.type) = {}

ASSUME ThrottleAssumption ==
  /\ ShortThrottle \in Nat \ {0} /\ LongThrottle \in Nat /\ ShortThrottle =< LongThrottle
  /\ ManyTries \in Nat /\ TimeoutTries \in Nat /\ FailTries \in Nat

-----------------------------------------------------------------------------
(* primeHints: the root servers and their addresses, as authoritative data. *)
PrimeHints(c) ==
  LET ns == Truth(<<>>, "NS")
  IN ReplaceAll(c, [k \in {Key(<<>>, "NS")} \cup {Key(n, "A") : n \in ns} |-> Truth(k.name, k.type)],
                TTL, TRUE)

Frame(n, type, depth, beenthere) ==
  [at |-> "resolve", qname |-> n, qtype |-> type, depth |-> depth, ret |-> {},
   beenthere |-> beenthere, callers |-> {}, fresh |-> FALSE,
   auth |-> <<>>, nameservers |-> {}, flawed |-> FALSE, tns |-> <<>>,
   ips |-> {}, ip |-> "none", tcp |-> FALSE]
Top == stack[Len(stack)]
SetTop(f) == stack' = [stack EXCEPT ![Len(stack)] = f]
At(place) == stack # <<>> /\ Top.at = place

(* The innermost call ends; getAs takes the addresses out of what it returns. *)
Return(f, rcode, ret) ==
  IF Len(stack) = 1
  THEN /\ stack' = <<>>
       /\ result' = [question |-> question, rcode |-> rcode, rrs |-> ret]
  ELSE LET g == stack[Len(stack) - 1]
           ips == IF rcode = "NoError" THEN {rr.to : rr \in {x \in ret : x.type = "A"}} ELSE {}
       IN /\ stack' = Append(SubSeq(stack, 1, Len(stack) - 2),
                             [g EXCEPT !.at = IF ips = {} THEN "servers" ELSE "addresses",
                                       !.ips = ips,
                                       !.flawed = @ \/ ips = {},
                                       !.beenthere = IF f.fresh THEN f.callers ELSE f.beenthere])
          /\ UNCHANGED result

(* The call starts over with the target of a CNAME and a beenthere of its own. *)
Redirect_samedepth(f, to, ret) ==
  SetTop([Frame(to, f.qtype, f.depth, {}) EXCEPT
            !.ret = ret, !.fresh = TRUE,
            !.callers = IF f.fresh THEN f.callers ELSE f.beenthere])
Redirect(f, to, ret) ==
  SetTop([Frame(to, f.qtype, f.depth + 1, {}) EXCEPT
            !.ret = ret, !.fresh = TRUE,
            !.callers = IF f.fresh THEN f.callers ELSE f.beenthere])

none == [none |-> TRUE]
Init ==
  /\ cache = PrimeHints([k \in {} |-> 0])
  /\ negcache = {}
  /\ throttle = [k \in {} |-> 0]
  /\ stack = <<>>
  /\ question = none
  /\ result = none
  /\ failed = {}
  /\ resolves = 0
  /\ losses = 0

BeginResolve(q) ==
  /\ stack = <<>>
  /\ resolves < MaxResolves
  /\ resolves' = resolves + 1
  /\ question' = q
  /\ stack' = <<Frame(q.qname, q.qtype, 0, {})>>
  /\ result' = none
  /\ UNCHANGED <<cache, negcache, throttle, failed, losses>>

-----------------------------------------------------------------------------
(***************************************************************************)
(* doResolve: the caches first.                                            *)
(***************************************************************************)
unchangedBelow == <<throttle, question, failed, resolves, losses>>

TooDeep ==
  /\ At("resolve")
  /\ Top.depth > MaxDepth
  /\ Return(Top, "ServFail", Top.ret)
  /\ UNCHANGED <<cache, negcache, unchangedBelow>>

CNAMEs == Get(cache, Top.qname, "CNAME")
Shallow == At("resolve") /\ Top.depth =< MaxDepth
CNAMECacheHit ==
  /\ Shallow
  /\ \E to \in CNAMEs :
       LET ret == Top.ret \cup {RR("answer", Top.qname, "CNAME", to)}
       IN IF Top.qtype = "CNAME"
          THEN Return(Top, "NoError", ret)
          ELSE Redirect(Top, to, ret) /\ UNCHANGED result
  /\ UNCHANGED <<cache, negcache, unchangedBelow>>

(* doCacheCheck: a negative entry only counts while its SOA is in the cache. *)
Negatives == {e \in negcache : e.name = Top.qname /\ e.type \in {"", Top.qtype} /\ e.left > 0}
Denial == IF \E e \in Negatives : e.type = ""
          THEN CHOOSE e \in Negatives : e.type = "" ELSE CHOOSE e \in Negatives : TRUE
Cached ==
  IF Negatives = {}
  THEN RRs("answer", Top.qname, Top.qtype, Get(cache, Top.qname, Top.qtype))
  ELSE RRs("authority", Denial.soa, "SOA", Get(cache, Denial.soa, "SOA"))
CacheHit_noerror ==
  /\ Shallow
  /\ CNAMEs = {}
  /\ Cached # {}
  /\ Return(Top, "NoError", Top.ret \cup Cached)
  /\ UNCHANGED <<cache, negcache, unchangedBelow>>
CacheHit ==
  /\ Shallow
  /\ CNAMEs = {}
  /\ Cached # {}
  /\ Return(Top, IF Negatives # {} /\ Denial.type = "" THEN "NXDomain" ELSE "NoError",
            Top.ret \cup Cached)
  /\ UNCHANGED <<cache, negcache, unchangedBelow>>

(* getBestNSFromCache: the closest name servers that do not need glue we miss, and that *)
(* were not tried for this name before.                                                 *)
Usable(s) ==
  {ns \in Get(cache, s, "NS") : ~DottedEndsOn(ns, s) \/ LongerThan(cache, ns, "A", GlueTime)}
Visit(s, bestns) == [qname |-> Top.qname, sub |-> s, bestns |-> bestns]
Good == {s \in Chops(Top.qname) : Usable(s) # {} /\ Visit(s, Usable(s)) \notin Top.beenthere}
Consult(s, bestns, flawed) ==
  SetTop([Top EXCEPT !.at = "servers", !.auth = s, !.nameservers = bestns, !.flawed = flawed,
                     !.beenthere = @ \cup {Visit(s, bestns)}])
NotCached == Shallow /\ CNAMEs = {} /\ Cached = {}
FindNameservers ==
  /\ NotCached
  /\ \E s \in Good :
       /\ \A t \in Good : Len(t) =< Len(s)
       /\ Consult(s, Usable(s), Usable(s) # Get(cache, s, "NS"))
  /\ UNCHANGED <<cache, negcache, result, unchangedBelow>>

(* Otherwise the root hints are put back for the second try, which may have been there too. *)
Reprime ==
  /\ NotCached
  /\ Good = {}
  /\ cache' = PrimeHints(cache)
  /\ IF Visit(<<>>, Truth(<<>>, "NS")) \in Top.beenthere
     THEN SetTop([Top EXCEPT !.at = "servers", !.auth = Top.qname, !.nameservers = {}])
     ELSE Consult(<<>>, Truth(<<>>, "NS"), FALSE)
  /\ UNCHANGED <<negcache, result, unchangedBelow>>

-----------------------------------------------------------------------------
(***************************************************************************)
(* doResolveAt: the loops over the name servers and their addresses.       *)
(***************************************************************************)
NoServerLeft ==
  /\ At("servers")
  /\ Top.nameservers = {}
  /\ cache' = IF Top.auth # <<>> /\ Top.flawed
              THEN DoAgeCache(cache, Key(Top.auth, "NS"), AgeTime) ELSE cache
  /\ Return(Top, "ServFail", Top.ret)
  /\ UNCHANGED <<negcache, unchangedBelow>>

(* A name server is not used to find itself; otherwise getAs, two levels down. *)
TryNameserver ==
  /\ At("servers")
  /\ \E ns \in Top.nameservers :
       LET f == [Top EXCEPT !.nameservers = @ \ {ns}, !.tns = ns, !.tcp = FALSE]
       IN IF ns = Top.qname /\ Top.qtype = "A"
          THEN SetTop(f)
          ELSE stack' = Append([stack EXCEPT ![Len(stack)] = f],
                               Frame(ns, "A", Top.depth + 2, Top.beenthere))
  /\ UNCHANGED <<cache, negcache, result, unchangedBelow>>

(* Throttle::shouldThrottle and throttle. *)
Asking == [ip |-> Top.ip, qname |-> Top.qname, qtype |-> Top.qtype]
Blocked(k) == k \in DOMAIN throttle /\ throttle[k].left > 0 /\ throttle[k].count >= 0
Without(k) == [x \in DOMAIN throttle \ {k} |-> throttle[x]]
With(k, e) == [x \in DOMAIN throttle \cup {k} |-> IF x = k THEN e ELSE throttle[x]]
Throttle_never(k, left, tries) == throttle
Throttle(k, left, tries) ==
  IF k \in DOMAIN throttle /\ throttle[k].left =< left /\ throttle[k].count >= tries
  THEN throttle ELSE With(k, [left |-> left, count |-> tries])

Blame ==
  failed' = {e \in failed : e.asking # Asking}
              \cup {[asking |-> Asking, left |-> ShortThrottle, spared |-> 0]}
PassOver(k) ==
  failed' = {e \in failed : e.asking # k}
              \cup {[e EXCEPT !.spared = @ + 1] : e \in {x \in failed : x.asking = k}}

NextAddress(f, ips) == [f EXCEPT !.ips = ips, !.at = IF ips = {} THEN "servers" ELSE "addresses"]
TryAddress ==
  /\ At("addresses")
  /\ \E ip \in Top.ips :
       LET k == [ip |-> ip, qname |-> Top.qname, qtype |-> Top.qtype]
       IN IF Blocked(k)
          THEN /\ throttle' = With(k, [throttle[k] EXCEPT !.count = @ - 1])
               /\ PassOver(k)
               /\ SetTop(NextAddress(Top, Top.ips \ {ip}))
          ELSE /\ throttle' = Without(k)
               /\ SetTop([Top EXCEPT !.ips = @ \ {ip}, !.ip = ip, !.at = "wait"])
               /\ UNCHANGED failed
  /\ UNCHANGED <<cache, negcache, result, question, resolves, losses>>

(* A timeout, an unreachable server, or a limit of our own, which is not held against it. *)
NoAnswer ==
  /\ At("wait")
  /\ \/ throttle' = Throttle(Asking, ShortThrottle, TimeoutTries) /\ Blame
     \/ throttle' = Throttle(Asking, LongThrottle, ManyTries) /\ Blame
     \/ UNCHANGED <<throttle, failed>>
  /\ SetTop(NextAddress(Top, Top.ips))
  /\ UNCHANGED <<cache, negcache, result, question, resolves, losses>>

Truncated ==
  /\ At("wait")
  /\ IF Top.tcp THEN Return(Top, "ServFail", Top.ret)
     ELSE SetTop([Top EXCEPT !.tcp = TRUE]) /\ UNCHANGED result
  /\ UNCHANGED <<cache, negcache, unchangedBelow>>

(* The next name server is tried, not the next address. *)
ServerFails ==
  /\ At("wait")
  /\ throttle' = Throttle(Asking, LongThrottle, FailTries)
  /\ Blame
  /\ SetTop([Top EXCEPT !.at = "servers"])
  /\ UNCHANGED <<cache, negcache, result, question, resolves, losses>>

-----------------------------------------------------------------------------
(***************************************************************************)
(* What a reply comes to.  Only data at or below the zone that the server  *)
(* was asked for is kept.                                                  *)
(***************************************************************************)
Acceptable_any(reply) == reply.rrs
Acceptable(reply) == {rr \in reply.rrs : DottedEndsOn(rr.name, Top.auth)}
Reap(reply) ==
  LET ok == Acceptable(reply)
      new == [k \in {Key(rr.name, rr.type) : rr \in ok} |->
                {rr.to : rr \in {x \in ok : Key(x.name, x.type) = k}}]
  IN cache' = ReplaceAll(cache, new, TTL, reply.aa)

In(reply, place, type) == {rr \in reply.rrs : rr.place = place /\ rr.type = type}
Wanted(reply) == {rr \in In(reply, "answer", Top.qtype) : rr.name = Top.qname}
Targets(reply) ==
  {rr \in In(reply, "answer", "CNAME") : rr.name = Top.qname /\ Top.qtype # "CNAME"}
NSs(reply) == {rr \in In(reply, "authority", "NS") : DottedEndsOn(Top.qname, rr.name)}
Deeper(reply) == {rr \in NSs(reply) : MoreSpecificThan(rr.name, Top.auth)}

(* Negative caching, of the name or of the type. *)
SOAs(reply) == {rr \in In(reply, "authority", "SOA") : DottedEndsOn(Top.qname, rr.name)}
NoName(reply) ==
  {rr \in SOAs(reply) : reply.rcode = "NXDomain" /\ DottedEndsOn(rr.name, Top.auth)}
NoData(reply) ==
  {rr \in SOAs(reply) : reply.rcode = "NoError" /\ Wanted(reply) = {} /\ Targets(reply) = {}}
Deny(reply) ==
  LET type == IF reply.rcode = "NXDomain" THEN "" ELSE Top.qtype
      new == {[name |-> Top.qname, type |-> type, soa |-> rr.name, left |-> TTL] :
                rr \in NoName(reply) \cup NoData(reply)}
  IN negcache' = IF new = {} THEN negcache
                 ELSE {e \in negcache : e.name # Top.qname \/ e.type # type}
                        \cup {CHOOSE e \in new : TRUE}

Ret(reply) == Top.ret \cup Wanted(reply) \cup Targets(reply) \cup NoName(reply) \cup NoData(reply)

(* The branches after "determining status", in the order of the code. *)
Conclude(reply) ==
  IF Wanted(reply) # {}
  THEN Return(Top, "NoError", Ret(reply)) /\ UNCHANGED <<throttle, failed>>
  ELSE IF Targets(reply) # {}
  THEN /\ \E rr \in Targets(reply) :
            IF rr.to = Top.qname \/ Top.depth > MaxDepth
            THEN Return(Top, "ServFail", Ret(reply))
            ELSE Redirect(Top, rr.to, Ret(reply)) /\ UNCHANGED result
       /\ UNCHANGED <<throttle, failed>>
  ELSE IF reply.rcode = "NXDomain" \/ (NSs(reply) = {} /\ reply.rcode = "NoError")
  THEN Return(Top, reply.rcode, Ret(reply)) /\ UNCHANGED <<throttle, failed>>
  ELSE IF Deeper(reply) # {}
  THEN /\ \E rr \in Deeper(reply) :
            SetTop([Top EXCEPT !.at = "servers", !.auth = rr.name, !.ret = Ret(reply),
                               !.nameservers = {x.to : x \in NSs(reply)}])
       /\ UNCHANGED <<result, throttle, failed>>
  ELSE \* lame
       /\ SetTop([NextAddress(Top, Top.ips) EXCEPT !.ret = Ret(reply)])
       /\ throttle' = Throttle(Asking, LongThrottle, ManyTries)
       /\ Blame
       /\ UNCHANGED result

Receive ==
  /\ At("wait")
  /\ \E reply \in Replies(Top.ip, Top.qname, Top.qtype) :
       Reap(reply) /\ Deny(reply) /\ Conclude(reply)
  /\ UNCHANGED <<question, resolves, losses>>

-----------------------------------------------------------------------------
(* What happens while a resolution waits, and between two of them. *)
Waiting == stack = <<>> \/ At("wait")
Tick(time) ==
  /\ Waiting
  /\ losses < MaxLosses
  /\ losses' = losses + 1
  /\ cache' = Aged(cache, time)
  /\ negcache' = {[e EXCEPT !.left = Older(@, time)] : e \in negcache}
  /\ throttle' = [k \in DOMAIN throttle |-> [throttle[k] EXCEPT !.left = Older(@, time)]]
  /\ failed' = {[e EXCEPT !.left = Older(@, time)] : e \in {x \in failed : x.left > time}}
  /\ UNCHANGED <<stack, question, result, resolves>>

(* doPrune, doWipeCache: they may take any entry. *)
Evict ==
  /\ Waiting
  /\ losses < MaxLosses
  /\ losses' = losses + 1
  /\ \/ \E k \in DOMAIN cache : cache' = [x \in DOMAIN cache \ {k} |-> cache[x]] /\ UNCHANGED negcache
     \/ \E e \in negcache : negcache' = negcache \ {e} /\ UNCHANGED cache
  /\ UNCHANGED <<throttle, stack, question, result, failed, resolves>>

Step == TooDeep \/ CNAMECacheHit \/ CacheHit \/ FindNameservers \/ Reprime \/ NoServerLeft \/ TryNameserver
          \/ TryAddress \/ NoAnswer \/ Truncated \/ ServerFails \/ Receive
Next == (\E q \in Questions : BeginResolve(q)) \/ Step
          \/ (\E time \in 1 .. TTL : Tick(time)) \/ Evict

(* The thread runs, and a query it waits for is answered or times out (MTasker). *)
Spec == Init /\ [][Next]_vars /\ WF_stack(Step)

-----------------------------------------------------------------------------
(***************************************************************************)
(* What misconfigured servers say stays in their zone: the caches hold     *)
(* nothing untrue about any other name, whatever those servers answer,     *)
(* refer to or deny, and whatever has expired or been evicted meanwhile.   *)
(***************************************************************************)
OthersUnaffected ==
  /\ \A k \in DOMAIN cache :
       ~InMuddled(k.name) => DOMAIN cache[k].recs \subseteq Truth(k.name, k.type)
  /\ \A e \in negcache :
       ~InMuddled(e.name) => IF e.type = "" THEN ~NameExists(e.name) ELSE Truth(e.name, e.type) = {}

(* The names a question leads to by its CNAMEs. *)
After(n, type) ==
  IF Truth(n, "CNAME") # {} /\ type # "CNAME" THEN CHOOSE to \in Truth(n, "CNAME") : TRUE ELSE n
Trail(q) ==
  LET t[i \in 0 .. MaxDepth] == IF i = 0 THEN q.qname ELSE After(t[i - 1], q.qtype)
  IN t

(***************************************************************************)
(* A question that does not lead into a misconfigured zone gets the true   *)
(* answer or SERVFAIL: the records, and NXDOMAIN just where the name does  *)
(* not exist.                                                              *)
(***************************************************************************)
AnswersTrue ==
  LET q == result.question
      last == Trail(q)[MaxDepth]
  IN (/\ result # none
      /\ result.rcode # "ServFail"
      /\ \A i \in 0 .. MaxDepth : ~InMuddled(Trail(q)[i]))
     => /\ (result.rcode = "NXDomain") = ~NameExists(last)
        /\ {rr \in result.rrs : rr.place = "answer" /\ rr.type = q.qtype}
             = RRs("answer", last, q.qtype, Truth(last, q.qtype))

(***************************************************************************)
(* A server that failed to answer a question (a timeout, an error, a lame  *)
(* referral, SERVFAIL) is not asked it again while the shortest throttle   *)
(* lasts, in this resolution or a later one, unless it was passed over     *)
(* more often than the fewest tries that a throttle is set for.            *)
(***************************************************************************)
FewestTries == CHOOSE n \in {ManyTries, TimeoutTries, FailTries} :
                 n =< ManyTries /\ n =< TimeoutTries /\ n =< FailTries
NotAskedAgain ==
  At("wait") => \A e \in failed : e.asking = Asking => e.spared > FewestTries

(***************************************************************************)
(* Every resolution ends, whatever CNAMEs, referrals and name servers of   *)
(* name servers it meets.                                                  *)
(***************************************************************************)
ResolvesEnd == stack # <<>> ~> stack = <<>>
=============================================================================
