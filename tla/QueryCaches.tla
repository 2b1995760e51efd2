---------------------------- MODULE QueryCaches -----------------------------
(***************************************************************************)
(* The two caches between a question and the database: the packet cache    *)
(* and the query cache of the UeberBackend, both in one PacketCache        *)
(* (packetcache.cc, ueberbackend.cc), with the paths through them          *)
(* (qthread, questionOrRecurse) and the ways to purge them                 *)
(* (pdns_control purge, masterUpdateCheck).                                *)
(*                                                                         *)
(* A name stands for one question: name, type, and the other fields of the *)
(* key.  The database holds successive versions of the zone; an answer is  *)
(* the version that it was read from, and Data says what it holds.  An     *)
(* entry keeps its ttd as the time left.  TryReadLock and TryWriteLock may *)
(* fail at any time, since some thread may hold the lock.                  *)
(***************************************************************************)
EXTENDS Integers, Sequences, FiniteSets

CONSTANTS
  Names,         \* the questions
  Zone,          \* the names that are, or end on a dot and, the suffix of a purge
  Rank,          \* the order of d_map (CIBackwardsStringCompare); the suffix has rank 0
  Workers,       \* the threads that ask the database
  Data,          \* per version: the ttl of the record, or NoData
  SoaTTL,        \* ttl of the SOA record in an answer without data
  PacketTTL,     \* cache-ttl
  QueryTTL,      \* query-cache-ttl
  NegQueryTTL,   \* negquery-cache-ttl
  MaxCached,     \* max-cache-entries
  CleanupEvery,  \* operations between two calls of cleanup (300000 in the code)
  MaxWork        \* bound on the time from reading the database to answering

NoData == -1

ASSUME CachesAssumption ==
  /\ Names # {} /\ Zone \subseteq Names /\ Rank \in [Names -> Int]
  /\ \A n \in Zone : Rank[n] >= 0
  /\ Data \in Seq(Nat \cup {NoData}) /\ Data # <<>>
  /\ SoaTTL \in Nat /\ PacketTTL \in Nat /\ QueryTTL \in Nat /\ NegQueryTTL \in Nat
  /\ MaxCached \in Nat /\ CleanupEvery \in Nat \ {0} /\ MaxWork \in Nat

Versions == 1 .. Len(Data)
Lesser(a, b) == IF a < b THEN a ELSE b
Greater(a, b) == IF a > b THEN a ELSE b
Key == [n : Names, kind : {"packet", "query"}]
MaxQueryTTL == Greater(QueryTTL, NegQueryTTL)
MaxTTL == Greater(PacketTTL, MaxQueryTTL)
Entry == [left : -1 .. MaxTTL, v : Versions]
Cache == [map : UNION {[keys -> Entry] : keys \in SUBSET Key},
          order : Seq(Key),
          ops : 0 .. CleanupEvery - 1]
Worker == [pc : {"idle", "lookup", "read", "store", "answer"}, n : Names,
           v : Versions, spent : 0 .. MaxWork]

VARIABLES
  cache,     \* PC: d_map, its sequenced index, and d_ops
  queryttl,  \* the static of UeberBackend::addCache
  db,        \* the version that is in the database
  since,     \* per version: for how long it has been replaced
  worker,    \* per worker: where it is, its question, the version it holds, for how long
  floor      \* per name: the newest version that a purge has vouched for

vars == <<cache, queryttl, db, since, worker, floor>>

(***************************************************************************)
(* The longest time for which an answer may be outdated: it sits in the    *)
(* query cache, then a packet made from it sits in the packet cache.       *)
(***************************************************************************)
QueryAge == MaxWork + Greater(MaxQueryTTL - 1, 0)
AnswerAge == QueryAge + MaxWork
PacketAge == AnswerAge + Greater(PacketTTL - 1, 0)

(* The type invariant. *)
TypeOK ==
  /\ cache \in Cache
  /\ queryttl \in 0 .. QueryTTL
  /\ db \in Versions
  /\ since \in [Versions -> 0 .. PacketAge + 1]
  /\ worker \in [Workers -> Worker]
  /\ floor \in [Names -> Versions]

Idle == [pc |-> "idle", n |-> CHOOSE n \in Names : TRUE, v |-> 1, spent |-> 0]

Init ==
  /\ cache = [map |-> <<>>, order |-> <<>>, ops |-> 0]
  /\ queryttl = QueryTTL
  /\ db = 1
  /\ since = [v \in Versions |-> 0]
  /\ worker = [w \in Workers |-> Idle]
  /\ floor = [n \in Names |-> 1]

-----------------------------------------------------------------------------
(***************************************************************************)
(* PacketCache.                                                            *)
(***************************************************************************)
Packet(n) == [n |-> n, kind |-> "packet"]
Query(n) == [n |-> n, kind |-> "query"]

Unlist(order, keys) == SelectSeq(order, LAMBDA k : k \notin keys)
Without(c, keys) ==
  [map |-> [k \in DOMAIN c.map \ keys |-> c.map[k]],
   order |-> Unlist(c.order, keys),
   ops |-> c.ops]

(* cleanup: expired entries, the first in the order of insertion.  Above    *)
(* max-cache-entries it looks at 5 entries for each one too many and stops  *)
(* when it has erased enough, else it looks at a tenth of the cache.        *)
Cleanup(c) ==
  LET size == Len(c.order)
      toTrim == IF MaxCached > 0 /\ size > MaxCached THEN size - MaxCached ELSE 0
      lookAt == IF toTrim > 0 THEN 5 * toTrim ELSE size \div 10
      expired == {i \in 1 .. size : c.map[c.order[i]].left < 0}
      erased == {i \in expired : /\ i <= lookAt + 2
                                 /\ toTrim > 0 => Cardinality({j \in expired : j <= i}) <= toTrim + 1}
  IN Without(c, {c.order[i] : i \in erased})

(* The count of operations that calls for a cleanup. *)
Counted(c) ==
  LET ops == (c.ops + 1) % CleanupEvery
      d == IF ops = 0 THEN Cleanup(c) ELSE c
  IN [map |-> d.map, order |-> d.order, ops |-> ops]

GetEntryLocked_equal(c, k) == k \in DOMAIN c.map /\ c.map[k].left >= 0
GetEntryLocked(c, k) == k \in DOMAIN c.map /\ c.map[k].left > 0

Insert(c, k, v, ttl, locked) ==
  LET d == Counted(c)
  IN IF ttl = 0 \/ ~locked THEN d
     ELSE [map |-> [x \in DOMAIN d.map \cup {k} |->
                      IF x = k THEN [left |-> ttl, v |-> v] ELSE d.map[x]],
           order |-> IF k \in DOMAIN d.map THEN d.order ELSE Append(d.order, k),
           ops |-> d.ops]

-----------------------------------------------------------------------------
(***************************************************************************)
(* The path of a question.                                                 *)
(***************************************************************************)

(* qthread: PacketCache::get answers it, or it goes to a worker. *)
Ask(w, n, locked) ==
  /\ worker[w].pc = "idle"
  /\ cache' = Counted(cache)
  /\ worker' = IF PacketTTL > 0 /\ locked /\ GetEntryLocked(cache', Packet(n)) THEN worker
               ELSE [worker EXCEPT ![w].pc = "lookup", ![w].n = n]
  /\ UNCHANGED <<queryttl, db, since, floor>>

(* UeberBackend::lookup, with cacheHas. *)
Lookup(w, locked) ==
  LET k == Query(worker[w].n)
      cached == QueryTTL > 0 \/ NegQueryTTL > 0
  IN /\ worker[w].pc = "lookup"
     /\ cache' = IF cached THEN Counted(cache) ELSE cache
     /\ worker' = IF cached /\ locked /\ GetEntryLocked(cache', k)
                  THEN [worker EXCEPT ![w].pc = "answer", ![w].v = cache'.map[k].v, ![w].spent = 0]
                  ELSE [worker EXCEPT ![w].pc = "read"]
     /\ UNCHANGED <<queryttl, db, since, floor>>

(* The backends are read. *)
Read(w) ==
  /\ worker[w].pc = "read"
  /\ worker' = [worker EXCEPT ![w].pc = "store", ![w].v = db, ![w].spent = 0]
  /\ UNCHANGED <<cache, queryttl, db, since, floor>>

(* A backend throws: the answer is SERVFAIL, and nothing is cached. *)
Fail(w) ==
  /\ worker[w].pc = "read"
  /\ worker' = [worker EXCEPT ![w] = Idle]
  /\ UNCHANGED <<cache, queryttl, db, since, floor>>

AddNegCache(c, k, v, locked) == IF NegQueryTTL = 0 THEN c ELSE Insert(c, k, v, NegQueryTTL, locked)

(* The ttl of addCache, which stays lowered for every later call. *)
LowerTTL(v) == IF Data[v] = NoData THEN queryttl ELSE Lesser(queryttl, Data[v])
AddCache(c, k, v, locked) == IF queryttl = 0 THEN c ELSE Insert(c, k, v, LowerTTL(v), locked)

(* The end of UeberBackend::get.  An answer without data is cached twice:  *)
(* the second entry, if the lock is free, replaces the first.              *)
Store(w, negLocked, locked) ==
  LET k == Query(worker[w].n)
      v == worker[w].v
      c == IF Data[v] = NoData THEN AddNegCache(cache, k, v, negLocked) ELSE cache
  IN /\ worker[w].pc = "store"
     /\ cache' = AddCache(c, k, v, locked)
     /\ queryttl' = LowerTTL(v)
     /\ worker' = [worker EXCEPT ![w].pc = "answer"]
     /\ UNCHANGED <<db, since, floor>>

(* The packet is sent and put into the cache. *)
GetMinTTL(v) == IF Data[v] = NoData THEN SoaTTL ELSE Data[v]
Answer(w, locked) ==
  LET v == worker[w].v
  IN /\ worker[w].pc = "answer"
     /\ cache' = Insert(cache, Packet(worker[w].n), v, Lesser(PacketTTL, GetMinTTL(v)), locked)
     /\ worker' = [worker EXCEPT ![w] = Idle]
     /\ UNCHANGED <<queryttl, db, since, floor>>

-----------------------------------------------------------------------------
(* The database changes, in a way of its own. *)
Change ==
  /\ db < Len(Data)
  /\ db' = db + 1
  /\ UNCHANGED <<cache, queryttl, since, worker, floor>>

Holds(w) == worker[w].pc \in {"store", "answer"}

(* purge: of everything or of some names.  It vouches for the database as   *)
(* it is, unless a worker is about to cache something older.                *)
Purge_packetsOnly(ns) ==
  /\ cache' = Without(cache, {k \in Key : k.n \in ns /\ k.kind = "packet"})
  /\ floor' = [n \in Names |->
       IF n \in ns /\ \A w \in Workers : Holds(w) /\ worker[w].n = n => worker[w].v = db
       THEN db ELSE floor[n]]
  /\ UNCHANGED <<queryttl, db, since, worker>>
Purge(ns) ==
  /\ cache' = Without(cache, {k \in Key : k.n \in ns})
  /\ floor' = [n \in Names |->
       IF n \in ns /\ \A w \in Workers : Holds(w) /\ worker[w].n = n => worker[w].v = db
       THEN db ELSE floor[n]]
  /\ UNCHANGED <<queryttl, db, since, worker>>

(* purge with a suffix: from the suffix on, up to the first entry outside   *)
(* of the zone.  "my-a.nl" comes before "www.a.nl": '-' is less than '.'.    *)
Suffixed == {n \in Zone : \A k \in DOMAIN cache.map : Rank[k.n] \in 0 .. Rank[n] => k.n \in Zone}
PurgeSuffix == Purge(Suffixed)

Aged(e) == [left |-> Greater(e.left - 1, -1), v |-> e.v]

Tick ==
  /\ \A w \in Workers : Holds(w) => worker[w].spent < MaxWork
  /\ cache' = [map |-> [k \in DOMAIN cache.map |-> Aged(cache.map[k])],
               order |-> cache.order, ops |-> cache.ops]
  /\ worker' = [w \in Workers |-> IF Holds(w) THEN [worker[w] EXCEPT !.spent = @ + 1] ELSE worker[w]]
  /\ since' = [v \in Versions |-> IF v < db THEN Lesser(since[v] + 1, PacketAge + 1) ELSE since[v]]
  /\ UNCHANGED <<queryttl, db, floor>>

Next ==
  \/ \E w \in Workers, n \in Names, locked \in BOOLEAN : Ask(w, n, locked)
  \/ \E w \in Workers, locked \in BOOLEAN : Lookup(w, locked) \/ Answer(w, locked)
  \/ \E w \in Workers : Read(w) \/ Fail(w)
  \/ \E w \in Workers, negLocked, locked \in BOOLEAN : Store(w, negLocked, locked)
  \/ Purge(Names) \/ (\E n \in Names : Purge({n})) \/ PurgeSuffix
  \/ Change
  \/ Tick

Spec == Init /\ [][Next]_vars

-----------------------------------------------------------------------------
Live(k) == GetEntryLocked(cache, k)

(***************************************************************************)
(* Neither cache gives an answer that was outdated for longer than their   *)
(* two ttls and the work between add up to, although a packet is made from *)
(* what was cached before.                                                 *)
(***************************************************************************)
FreshEnough ==
  /\ \A k \in DOMAIN cache.map : Live(k) =>
       since[cache.map[k].v] <= IF k.kind = "packet" THEN PacketAge ELSE QueryAge
  /\ \A w \in Workers : worker[w].pc = "answer" => since[worker[w].v] <= AnswerAge

(***************************************************************************)
(* After a purge, no answer is older than the database was when it was     *)
(* purged, from the packet cache or made from a query cached before it;    *)
(* except for what a worker had in hand at that moment.                    *)
(***************************************************************************)
PurgeHolds ==
  /\ \A k \in DOMAIN cache.map : cache.map[k].v >= floor[k.n]
  /\ \A w \in Workers : Holds(w) => worker[w].v >= floor[worker[w].n]

(***************************************************************************)
(* What the documentation says of purge with a suffix: it purges all cache *)
(* entries ending on this name, effectively an entire domain.              *)
(***************************************************************************)
DomainPurged == [][PurgeSuffix => \A k \in DOMAIN cache'.map : k.n \notin Zone]_vars
=============================================================================
