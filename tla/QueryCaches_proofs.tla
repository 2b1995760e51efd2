------------------------- MODULE QueryCaches_proofs -------------------------
(***************************************************************************)
(* What the caches promise, for any ttls, workers, names and versions.     *)
(* The order of insertion, which only cleanup reads, is left open.         *)
(***************************************************************************)
EXTENDS QueryCaches, TLAPS

IsMap(m) == DOMAIN m \subseteq Key /\ m \in [DOMAIN m -> Entry]
IsCache(c) == IsMap(c.map)

(* d holds nothing but what c holds. *)
PartOf(d, c) == DOMAIN d.map \subseteq DOMAIN c.map /\ \A k \in DOMAIN d.map : d.map[k] = c.map[k]

(* d holds what c holds, and an entry that was just inserted. *)
Extends(d, c, k, v, ttl) ==
  \A x \in DOMAIN d.map :
    \/ x \in DOMAIN c.map /\ d.map[x] = c.map[x]
    \/ x = k /\ ttl > 0 /\ d.map[x] = [left |-> ttl, v |-> v]

(* Entries can be taken out of a cache: purge and cleanup. *)
LEMMA WithoutIsPart ==
  ASSUME NEW c, IsCache(c), NEW keys
  PROVE  IsCache(Without(c, keys)) /\ PartOf(Without(c, keys), c)
BY DEF Without, IsCache, IsMap, PartOf

(* The call that counts, with or without a cleanup, adds nothing. *)
LEMMA CountedIsPart ==
  ASSUME NEW c, IsCache(c)
  PROVE  IsCache(Counted(c)) /\ PartOf(Counted(c), c)
<1>1. IsCache(Cleanup(c)) /\ PartOf(Cleanup(c), c)
  BY WithoutIsPart DEF Cleanup
<1>2. IsCache(c) /\ PartOf(c, c)
  BY DEF PartOf
<1> QED
  BY <1>1, <1>2 DEF Counted, IsCache, PartOf

(* insert adds at most the entry it was called with. *)
LEMMA InsertExtends ==
  ASSUME NEW c, IsCache(c), NEW k \in Key, NEW v \in Versions, NEW ttl \in 0 .. MaxTTL, NEW locked
  PROVE  /\ IsCache(Insert(c, k, v, ttl, locked))
         /\ Extends(Insert(c, k, v, ttl, locked), c, k, v, ttl)
<1> DEFINE d == Counted(c)
           e == [left |-> ttl, v |-> v]
           m == [x \in DOMAIN d.map \cup {k} |-> IF x = k THEN e ELSE d.map[x]]
           o == IF k \in DOMAIN d.map THEN d.order ELSE Append(d.order, k)
           r == [map |-> m, order |-> o, ops |-> d.ops]
<1>1. IsCache(d) /\ PartOf(d, c)
  BY CountedIsPart
<1>2. CASE ttl = 0 \/ ~locked
  <2>1. Insert(c, k, v, ttl, locked) = d
    BY <1>2 DEF Insert
  <2> QED
    BY <1>1, <2>1 DEF PartOf, Extends
<1>3. CASE ~(ttl = 0 \/ ~locked)
  <2>1. Insert(c, k, v, ttl, locked) = r
    BY <1>3 DEF Insert
  <2>2. e \in Entry
    BY DEF Entry
  <2>3. IsMap(m)
    BY <1>1, <2>2 DEF IsCache, IsMap
  <2>4. r.map = m
    OBVIOUS
  <2>5. IsCache(r)
    BY <2>3, <2>4 DEF IsCache
  <2>6. ttl > 0
    BY <1>3
  <2>7. Extends(r, c, k, v, ttl)
    BY <1>1, <2>4, <2>6 DEF PartOf, Extends
  <2> QED
    BY <2>1, <2>5, <2>7
<1> QED
  BY <1>2, <1>3

-----------------------------------------------------------------------------
(* The types, but for the order of insertion. *)
Types ==
  /\ IsCache(cache)
  /\ queryttl \in 0 .. QueryTTL
  /\ db \in Versions
  /\ since \in [Versions -> Nat]
  /\ worker \in [Workers -> Worker]
  /\ floor \in [Names -> Versions]

(* The ttls that entries are inserted with. *)
LEMMA TTLs ==
  ASSUME Types, NEW v \in Versions
  PROVE  /\ LowerTTL(v) \in 0 .. QueryTTL
         /\ Lesser(PacketTTL, GetMinTTL(v)) \in 0 .. PacketTTL
         /\ 0 .. QueryTTL \subseteq 0 .. MaxQueryTTL /\ 0 .. PacketTTL \subseteq 0 .. MaxTTL
         /\ NegQueryTTL \in 0 .. MaxQueryTTL
         /\ 0 .. MaxQueryTTL \subseteq 0 .. MaxTTL
         /\ MaxQueryTTL \in Nat /\ MaxTTL \in Nat
<1>1. Data[v] \in Nat \/ Data[v] = NoData
  BY CachesAssumption DEF Versions
<1>2. LowerTTL(v) \in 0 .. QueryTTL
  BY <1>1, CachesAssumption DEF Types, LowerTTL, Lesser
<1>3. Lesser(PacketTTL, GetMinTTL(v)) \in 0 .. PacketTTL
  BY <1>1, CachesAssumption DEF GetMinTTL, Lesser
<1> QED
  BY <1>2, <1>3, CachesAssumption DEF MaxQueryTTL, MaxTTL, Greater

LEMMA KeysAreKeys == \A n \in Names : Packet(n) \in Key /\ Query(n) \in Key
BY DEF Packet, Query, Key

(* What the end of UeberBackend::get puts into the query cache. *)
LEMMA StoreExtends ==
  ASSUME Types, NEW w \in Workers, NEW negLocked, NEW locked, Store(w, negLocked, locked)
  PROVE  /\ IsCache(cache')
         /\ \A x \in DOMAIN cache'.map :
              \/ x \in DOMAIN cache.map /\ cache'.map[x] = cache.map[x]
              \/ /\ x = Query(worker[w].n)
                 /\ cache'.map[x].v = worker[w].v
                 /\ cache'.map[x].left \in 1 .. MaxQueryTTL
<1> DEFINE k == Query(worker[w].n)
           v == worker[w].v
           c == IF Data[v] = NoData THEN AddNegCache(cache, k, v, negLocked) ELSE cache
           Added(d) == /\ IsCache(d)
                       /\ \A x \in DOMAIN d.map :
                            \/ x \in DOMAIN cache.map /\ d.map[x] = cache.map[x]
                            \/ x = k /\ d.map[x].v = v /\ d.map[x].left \in 1 .. MaxQueryTTL
<1>1. k \in Key /\ v \in Versions
  BY KeysAreKeys DEF Types, Worker
<1>2. ASSUME NEW d, Added(d), NEW ttl \in 0 .. MaxQueryTTL, NEW l
      PROVE  Added(Insert(d, k, v, ttl, l))
  <2>1. IsCache(Insert(d, k, v, ttl, l)) /\ Extends(Insert(d, k, v, ttl, l), d, k, v, ttl)
    BY <1>1, <1>2, TTLs, InsertExtends
  <2> QED
    BY <1>2, <2>1, <1>1, TTLs DEF Extends
<1>3. Added(cache)
  BY DEF Types
<1>4. Added(c)
  BY <1>1, <1>2, <1>3, TTLs DEF AddNegCache
<1>5. LowerTTL(v) \in 0 .. MaxQueryTTL
  BY <1>1, TTLs
<1>6. Added(AddCache(c, k, v, locked))
  <2> DEFINE t == LowerTTL(v)
  <2>1. t \in 0 .. MaxQueryTTL
    BY <1>5
  <2>2. Added(Insert(c, k, v, t, locked))
    <3> HIDE DEF k, v, c, Added, t
    <3> QED
      BY <1>2, <1>4, <2>1
  <2> QED
    BY <1>4, <2>2 DEF AddCache
<1>7. cache' = AddCache(c, k, v, locked)
  BY DEF Store
<1> QED
  BY <1>6, <1>7

-----------------------------------------------------------------------------
LEMMA IdleIsWorker == Idle \in Worker
BY CachesAssumption DEF Idle, Worker, Versions

LEMMA Ages ==
  /\ MaxWork \in Nat /\ 0 \in 0 .. MaxWork
  /\ QueryAge \in Nat /\ AnswerAge \in Nat /\ PacketAge \in Nat
  /\ MaxQueryTTL > 0 => QueryAge = MaxWork + MaxQueryTTL - 1
  /\ AnswerAge = QueryAge + MaxWork
  /\ PacketTTL > 0 => PacketAge = AnswerAge + PacketTTL - 1
BY CachesAssumption DEF QueryAge, AnswerAge, PacketAge, MaxQueryTTL, Greater

(* The fields of what the caches and the workers hold. *)
LEMMA Shapes ==
  ASSUME Types
  PROVE  /\ \A k \in DOMAIN cache.map : k.n \in Names /\ k \in Key
         /\ \A k \in DOMAIN cache.map : /\ cache.map[k].v \in Versions
                                        /\ cache.map[k].v \in Nat
                                        /\ cache.map[k].left \in Int
         /\ \A n \in Names : floor[n] \in Nat
         /\ db \in Nat /\ db \in Versions
         /\ \A v \in Versions : v \in Nat /\ since[v] \in Nat
         /\ \A w \in Workers : /\ worker[w].n \in Names
                               /\ worker[w].v \in Versions /\ worker[w].v \in Nat
                               /\ worker[w].spent \in Nat
<1>1. Versions \subseteq Nat
  <2>1. Len(Data) \in Nat
    BY CachesAssumption
  <2> QED
    BY <2>1 DEF Versions
<1>2. \A k \in DOMAIN cache.map : k.n \in Names /\ k \in Key
  BY DEF Types, IsCache, IsMap, Key
<1>3. \A k \in DOMAIN cache.map : cache.map[k] \in Entry
  BY DEF Types, IsCache, IsMap
<1>4. \A k \in DOMAIN cache.map : cache.map[k].v \in Versions /\ cache.map[k].left \in Int
  BY <1>3 DEF Entry
<1>5. \A w \in Workers : worker[w].n \in Names /\ worker[w].v \in Versions /\ worker[w].spent \in Nat
  BY DEF Types, Worker
<1>6. \A n \in Names : floor[n] \in Nat
  BY <1>1 DEF Types
<1> QED
  BY <1>1, <1>2, <1>4, <1>5, <1>6 DEF Types

(* Types is inductive. *)
LEMMA TypesInductive == Types /\ [Next]_vars => Types'
<1> SUFFICES ASSUME Types, [Next]_vars PROVE Types'
  OBVIOUS
<1>1. ASSUME NEW w \in Workers, NEW n \in Names, NEW locked \in BOOLEAN, Ask(w, n, locked)
      PROVE  Types'
  <2>1. IsCache(cache')
    BY <1>1, CountedIsPart DEF Ask, Types
  <2>2. worker' \in [Workers -> Worker]
    BY <1>1 DEF Ask, Types, Worker
  <2> QED
    BY <1>1, <2>1, <2>2 DEF Ask, Types
<1>2. ASSUME NEW w \in Workers, NEW locked \in BOOLEAN, Lookup(w, locked)
      PROVE  Types'
  <2> DEFINE k == Query(worker[w].n)
  <2>1. IsCache(cache')
    BY <1>2, CountedIsPart DEF Lookup, Types
  <2>2. k \in DOMAIN cache'.map => cache'.map[k].v \in Versions
    BY <2>1 DEF IsCache, IsMap, Entry
  <2>3. worker' \in [Workers -> Worker]
    <3>1. CASE k \in DOMAIN cache'.map
      <4> DEFINE v == cache'.map[k].v
      <4>1. [worker EXCEPT ![w].pc = "answer", ![w].v = v, ![w].spent = 0] \in [Workers -> Worker]
        BY <2>2, <3>1, Ages DEF Types, Worker
      <4>2. [worker EXCEPT ![w].pc = "read"] \in [Workers -> Worker]
        BY DEF Types, Worker
      <4> QED
        BY <1>2, <4>1, <4>2 DEF Lookup
    <3>2. CASE k \notin DOMAIN cache'.map
      BY <1>2, <3>2 DEF Lookup, GetEntryLocked, Types, Worker
    <3> QED
      BY <3>1, <3>2
  <2> QED
    BY <1>2, <2>1, <2>3 DEF Lookup, Types
<1>3. ASSUME NEW w \in Workers, Read(w)
      PROVE  Types'
  BY <1>3, Ages DEF Read, Types, Worker
<1>4. ASSUME NEW w \in Workers, Fail(w)
      PROVE  Types'
  BY <1>4, IdleIsWorker DEF Fail, Types
<1>5. ASSUME NEW w \in Workers, NEW negLocked \in BOOLEAN, NEW locked \in BOOLEAN,
             Store(w, negLocked, locked)
      PROVE  Types'
  <2>1. IsCache(cache')
    BY <1>5, StoreExtends
  <2>2. worker[w].v \in Versions
    BY DEF Types, Worker
  <2>3. queryttl' \in 0 .. QueryTTL
    BY <1>5, <2>2, TTLs DEF Store
  <2>4. worker' \in [Workers -> Worker]
    BY <1>5 DEF Store, Types, Worker
  <2> QED
    BY <1>5, <2>1, <2>3, <2>4 DEF Store, Types
<1>6. ASSUME NEW w \in Workers, NEW locked \in BOOLEAN, Answer(w, locked)
      PROVE  Types'
  <2>1. worker[w].v \in Versions /\ worker[w].n \in Names
    BY DEF Types, Worker
  <2>2. IsCache(cache')
    BY <1>6, <2>1, KeysAreKeys, TTLs, InsertExtends DEF Answer, Types
  <2> QED
    BY <1>6, <2>2, IdleIsWorker DEF Answer, Types
<1>7. ASSUME NEW ns, Purge(ns)
      PROVE  Types'
  <2>1. IsCache(cache')
    BY <1>7, WithoutIsPart DEF Purge, Types
  <2> QED
    BY <1>7, <2>1 DEF Purge, Types
<1>8. ASSUME Change
      PROVE  Types'
  BY <1>8, CachesAssumption DEF Change, Types, Versions
<1>9. ASSUME Tick
      PROVE  Types'
  <2>1. \A e \in Entry : Aged(e) \in Entry
    BY CachesAssumption DEF Aged, Entry, Greater, MaxTTL, MaxQueryTTL
  <2>2. IsCache(cache')
    BY <1>9, <2>1 DEF Tick, Types, IsCache, IsMap
  <2>3. worker' \in [Workers -> Worker]
    <3>1. ASSUME NEW w \in Workers, Holds(w)
          PROVE  [worker[w] EXCEPT !.spent = @ + 1] \in Worker
      BY <1>9, <3>1, Ages DEF Tick, Types, Worker
    <3> QED
      BY <1>9, <3>1 DEF Tick, Types
  <2>4. since' \in [Versions -> Nat]
    <3>1. \A v \in Versions : Lesser(since[v] + 1, PacketAge + 1) \in Nat
      BY Ages DEF Types, Lesser
    <3> QED
      BY <1>9, <3>1 DEF Tick, Types
  <2> QED
    BY <1>9, <2>2, <2>3, <2>4 DEF Tick, Types
<1>10. CASE UNCHANGED vars
  BY <1>10 DEF vars, Types
<1> QED
  BY <1>1, <1>2, <1>3, <1>4, <1>5, <1>6, <1>7, <1>8, <1>9, <1>10 DEF Next, PurgeSuffix

(* The types hold initially. *)
LEMMA TypesInit == Init => Types
<1> SUFFICES ASSUME Init PROVE Types
  OBVIOUS
<1>1. IsCache(cache)
  BY DEF Init, IsCache, IsMap
<1>2. 1 \in Versions
  BY CachesAssumption DEF Versions
<1> QED
  BY <1>1, <1>2, IdleIsWorker, CachesAssumption DEF Init, Types

-----------------------------------------------------------------------------
(***************************************************************************)
(* What a purge guarantees, with what makes it inductive: no purge vouches *)
(* for more than the database holds.                                       *)
(***************************************************************************)
PurgeInv == PurgeHolds /\ \A n \in Names : floor[n] <= db

LEMMA PurgeInductive == Types /\ Types' /\ PurgeInv /\ [Next]_vars => PurgeInv'
<1> SUFFICES ASSUME Types, Types', PurgeInv, [Next]_vars PROVE PurgeInv'
  OBVIOUS
<1> USE DEF PurgeInv, PurgeHolds, Holds
<1> DEFINE Cached == \A k \in DOMAIN cache.map : cache.map[k].v >= floor[k.n]
           Held == \A w \in Workers : Holds(w) => worker[w].v >= floor[worker[w].n]
<1>0. /\ \A k \in DOMAIN cache.map : k.n \in Names /\ k \in Key
      /\ \A k \in DOMAIN cache.map : cache.map[k].v \in Nat
      /\ \A n \in Names : floor[n] \in Nat
      /\ db \in Nat
      /\ \A w \in Workers : worker[w].n \in Names /\ worker[w].v \in Nat
  BY Shapes
<1>1. ASSUME NEW w \in Workers, NEW n \in Names, NEW locked \in BOOLEAN, Ask(w, n, locked)
      PROVE  PurgeInv'
  <2>1. PartOf(cache', cache)
    BY <1>1, CountedIsPart DEF Ask, Types
  <2>2. Held'
    BY <1>1 DEF Ask, Types
  <2> QED
    BY <1>1, <2>1, <2>2 DEF Ask, PartOf
<1>2. ASSUME NEW w \in Workers, NEW locked \in BOOLEAN, Lookup(w, locked)
      PROVE  PurgeInv'
  <2> DEFINE k == Query(worker[w].n)
  <2>1. PartOf(cache', cache)
    <3>1. PartOf(cache, cache)
      BY DEF PartOf
    <3> QED
      BY <1>2, <3>1, CountedIsPart DEF Lookup, Types
  <2>2. Cached'
    BY <1>2, <2>1 DEF Lookup, PartOf
  <2>3. k.n = worker[w].n
    BY DEF Query
  <2>4. worker'[w].n = worker[w].n /\ \A o \in Workers \ {w} : worker'[o] = worker[o]
    BY <1>2 DEF Lookup, Types, Worker
  <2>5. worker'[w].pc \in {"store", "answer"} => worker'[w].v >= floor'[worker'[w].n]
    <3>1. ASSUME worker'[w].pc \in {"store", "answer"}
          PROVE  k \in DOMAIN cache'.map /\ worker'[w].v = cache'.map[k].v
      BY <1>2, <3>1 DEF Lookup, GetEntryLocked, Types, Worker
    <3> QED
      BY <2>2, <2>3, <2>4, <3>1
  <2>6. Held'
    BY <1>2, <2>4, <2>5 DEF Lookup
  <2> QED
    BY <1>2, <2>2, <2>6 DEF Lookup
<1>3. ASSUME NEW w \in Workers, Read(w)
      PROVE  PurgeInv'
  <2>1. worker'[w].v = db /\ worker'[w].n = worker[w].n
    BY <1>3 DEF Read, Types, Worker
  <2>2. \A o \in Workers \ {w} : worker'[o] = worker[o]
    BY <1>3 DEF Read, Types
  <2>3. Held'
    BY <1>0, <1>3, <2>1, <2>2 DEF Read
  <2> QED
    BY <1>3, <2>3 DEF Read
<1>4. ASSUME NEW w \in Workers, Fail(w)
      PROVE  PurgeInv'
  <2>1. Held'
    BY <1>4 DEF Fail, Types, Idle
  <2> QED
    BY <1>4, <2>1 DEF Fail
<1>5. ASSUME NEW w \in Workers, NEW negLocked \in BOOLEAN, NEW locked \in BOOLEAN,
             Store(w, negLocked, locked)
      PROVE  PurgeInv'
  <2>1. worker[w].v >= floor[worker[w].n]
    BY <1>5 DEF Store
  <2>2. Query(worker[w].n).n = worker[w].n
    BY DEF Query
  <2>3. Cached'
    BY <1>5, <2>1, <2>2, StoreExtends DEF Store
  <2>4. /\ worker'[w].v = worker[w].v /\ worker'[w].n = worker[w].n
        /\ \A o \in Workers \ {w} : worker'[o] = worker[o]
    BY <1>5 DEF Store, Types, Worker
  <2>5. Held'
    BY <1>5, <2>1, <2>4 DEF Store
  <2> QED
    BY <1>5, <2>3, <2>5 DEF Store
<1>6. ASSUME NEW w \in Workers, NEW locked \in BOOLEAN, Answer(w, locked)
      PROVE  PurgeInv'
  <2> DEFINE k == Packet(worker[w].n)
             v == worker[w].v
             ttl == Lesser(PacketTTL, GetMinTTL(v))
  <2>1. v >= floor[worker[w].n] /\ v \in Versions /\ worker[w].n \in Names
    BY <1>6 DEF Answer, Types, Worker
  <2>2. Extends(cache', cache, k, v, ttl)
    BY <1>6, <2>1, KeysAreKeys, TTLs, InsertExtends DEF Answer, Types
  <2>3. k.n = worker[w].n
    BY DEF Packet
  <2>4. Cached'
    <3> HIDE DEF k, v, ttl
    <3> SUFFICES ASSUME NEW x \in DOMAIN cache'.map
                 PROVE  cache'.map[x].v >= floor[x.n]
      BY <1>6 DEF Answer
    <3> QED
      BY <2>1, <2>2, <2>3 DEF Extends, v
  <2>5. Held'
    BY <1>6 DEF Answer, Types, Idle
  <2> QED
    BY <1>6, <2>4, <2>5 DEF Answer
<1>7. ASSUME NEW ns, Purge(ns)
      PROVE  PurgeInv'
  <2>1. \A k \in DOMAIN cache'.map :
          k \in DOMAIN cache.map /\ cache'.map[k] = cache.map[k] /\ k.n \notin ns
    BY <1>0, <1>7 DEF Purge, Without
  <2>2. \A n \in Names : floor'[n] = db \/ floor'[n] = floor[n]
    BY <1>7 DEF Purge
  <2>3. \A n \in Names : n \notin ns => floor'[n] = floor[n]
    BY <1>7 DEF Purge
  <2>4. Cached'
    BY <1>0, <2>1, <2>3
  <2>5. \A w \in Workers : Holds(w) => worker[w].v = db \/ floor'[worker[w].n] = floor[worker[w].n]
    BY <1>0, <1>7 DEF Purge
  <2>6. Held'
    BY <1>0, <1>7, <2>2, <2>5 DEF Purge
  <2>7. (\A n \in Names : floor[n] <= db)'
    BY <1>0, <1>7, <2>2 DEF Purge
  <2> QED
    BY <2>4, <2>6, <2>7
<1>8. ASSUME Change
      PROVE  PurgeInv'
  BY <1>0, <1>8 DEF Change
<1>9. ASSUME Tick
      PROVE  PurgeInv'
  <2>1. DOMAIN cache'.map = DOMAIN cache.map
        /\ \A k \in DOMAIN cache.map : cache'.map[k].v = cache.map[k].v
    BY <1>9 DEF Tick, Aged
  <2>2. \A w \in Workers : /\ worker'[w].pc = worker[w].pc
                           /\ worker'[w].n = worker[w].n
                           /\ worker'[w].v = worker[w].v
    BY <1>9 DEF Tick, Types, Worker
  <2> QED
    BY <1>9, <2>1, <2>2 DEF Tick
<1>10. CASE UNCHANGED vars
  BY <1>10 DEF vars
<1> QED
  BY <1>1, <1>2, <1>3, <1>4, <1>5, <1>6, <1>7, <1>8, <1>9, <1>10 DEF Next, PurgeSuffix

(***************************************************************************)
(* After a purge no cache gives an answer from before it, but for what a   *)
(* worker held at the time: purge takes out the queries along with the     *)
(* packets that are made from them.                                        *)
(***************************************************************************)
THEOREM PurgeSafe == Spec => []PurgeHolds
<1>1. Init => PurgeInv
  BY CachesAssumption DEF Init, PurgeInv, PurgeHolds, Holds, Idle
<1>2. PurgeInv => PurgeHolds
  BY DEF PurgeInv
<1> QED
  BY <1>1, <1>2, TypesInit, TypesInductive, PurgeInductive, PTL DEF Spec
-----------------------------------------------------------------------------
(***************************************************************************)
(* How outdated an answer can be.  The time for which its version has been *)
(* replaced, together with what an entry has left, does not grow.          *)
(***************************************************************************)
Limit(k) == IF k.kind = "packet" THEN AnswerAge + PacketTTL ELSE MaxWork + MaxQueryTTL
NewestIsCurrent == \A v \in Versions : v >= db => since[v] = 0
EntriesAge ==
  \A k \in DOMAIN cache.map :
    cache.map[k].left > 0 => since[cache.map[k].v] + cache.map[k].left <= Limit(k)
WorkAges ==
  \A w \in Workers :
    /\ worker[w].pc = "store" => since[worker[w].v] <= worker[w].spent
    /\ worker[w].pc = "answer" => since[worker[w].v] <= QueryAge + worker[w].spent
FreshInv == NewestIsCurrent /\ EntriesAge /\ WorkAges

(* The limits that the two ttls and the work add up to. *)
LEMMA Limits ==
  /\ MaxWork \in Nat /\ QueryAge \in Nat /\ AnswerAge \in Nat /\ PacketAge \in Nat
  /\ MaxQueryTTL \in Nat /\ PacketTTL \in Nat
  /\ QueryAge >= MaxWork + MaxQueryTTL - 1
  /\ AnswerAge = QueryAge + MaxWork
  /\ PacketAge >= AnswerAge + PacketTTL - 1
  /\ \A n \in Names : /\ Limit(Packet(n)) = AnswerAge + PacketTTL
                      /\ Limit(Query(n)) = MaxWork + MaxQueryTTL
  /\ \A k : Limit(k) \in Nat
<1>1. /\ MaxWork \in Nat /\ MaxQueryTTL \in Nat /\ PacketTTL \in Nat
      /\ QueryAge \in Nat /\ QueryAge >= MaxWork + MaxQueryTTL - 1
  BY CachesAssumption DEF MaxQueryTTL, Greater, QueryAge
<1>2. AnswerAge \in Nat /\ AnswerAge = QueryAge + MaxWork
  BY <1>1 DEF AnswerAge
<1>3. PacketAge \in Nat /\ PacketAge >= AnswerAge + PacketTTL - 1
  BY <1>1, <1>2 DEF PacketAge, Greater
<1>4. \A k : Limit(k) \in Nat
  BY <1>1, <1>2 DEF Limit
<1>5. \A n \in Names : /\ Limit(Packet(n)) = AnswerAge + PacketTTL
                       /\ Limit(Query(n)) = MaxWork + MaxQueryTTL
  BY DEF Limit, Packet, Query
<1> QED
  BY <1>1, <1>2, <1>3, <1>4, <1>5

LEMMA FreshInductive == Types /\ Types' /\ FreshInv /\ [Next]_vars => FreshInv'
<1> SUFFICES ASSUME Types, Types', FreshInv, [Next]_vars PROVE FreshInv'
  OBVIOUS
<1> USE DEF FreshInv
<1>0. /\ \A k \in DOMAIN cache.map : /\ k.n \in Names /\ k \in Key
                                     /\ cache.map[k].v \in Versions
                                     /\ cache.map[k].left \in Int
      /\ db \in Nat /\ db \in Versions
      /\ \A v \in Versions : v \in Nat /\ since[v] \in Nat
      /\ \A w \in Workers : /\ worker[w].n \in Names /\ worker[w].v \in Versions
                            /\ worker[w].spent \in Nat
  BY Shapes
<1>a. ASSUME NEW w \in Workers PROVE worker[w].spent <= MaxWork
  BY Limits DEF Types, Worker
<1>p. ASSUME PartOf(cache', cache), UNCHANGED since
      PROVE  EntriesAge'
  BY <1>p DEF EntriesAge, PartOf, Limit
<1>1. ASSUME NEW w \in Workers, NEW n \in Names, NEW locked \in BOOLEAN, Ask(w, n, locked)
      PROVE  FreshInv'
  <2>1. EntriesAge'
    BY <1>1, <1>p, CountedIsPart DEF Ask, Types
  <2>2. WorkAges'
    BY <1>1 DEF Ask, Types, WorkAges
  <2> QED
    BY <1>1, <2>1, <2>2 DEF Ask, NewestIsCurrent
<1>2. ASSUME NEW w \in Workers, NEW locked \in BOOLEAN, Lookup(w, locked)
      PROVE  FreshInv'
  <2> DEFINE k == Query(worker[w].n)
  <2>1. PartOf(cache', cache)
    <3>1. PartOf(cache, cache)
      BY DEF PartOf
    <3> QED
      BY <1>2, <3>1, CountedIsPart DEF Lookup, Types
  <2>2. EntriesAge'
    BY <1>2, <1>p, <2>1 DEF Lookup
  <2>3. \A o \in Workers \ {w} : worker'[o] = worker[o]
    BY <1>2 DEF Lookup, Types
  <2>4. worker'[w].pc = "read" \/ /\ worker'[w].pc = "answer" /\ worker'[w].spent = 0
                                  /\ k \in DOMAIN cache'.map /\ cache'.map[k].left > 0
                                  /\ worker'[w].v = cache'.map[k].v
    BY <1>2 DEF Lookup, GetEntryLocked, Types, Worker
  <2>5. worker'[w].pc = "answer" => since[worker'[w].v] <= QueryAge
    <3> SUFFICES ASSUME worker'[w].pc = "answer" PROVE since[worker'[w].v] <= QueryAge
      OBVIOUS
    <3>1. k \in DOMAIN cache.map /\ cache.map[k].left > 0 /\ worker'[w].v = cache.map[k].v
      BY <2>1, <2>4 DEF PartOf
    <3>2. since[cache.map[k].v] + cache.map[k].left <= MaxWork + MaxQueryTTL
      BY <3>1, <1>0, Limits DEF EntriesAge
    <3>3. since[cache.map[k].v] \in Nat /\ cache.map[k].left \in Int
      BY <1>0, <3>1
    <3>4. MaxWork \in Nat /\ MaxQueryTTL \in Nat /\ QueryAge \in Nat /\ QueryAge >= MaxWork + MaxQueryTTL - 1
      BY Limits
    <3>5. since[cache.map[k].v] <= QueryAge
      BY <3>1, <3>2, <3>3, <3>4
    <3> QED
      BY <3>1, <3>5
  <2>6. WorkAges'
    <3>1. UNCHANGED since
      BY <1>2 DEF Lookup
    <3>2. worker'[w].pc = "answer" => since[worker'[w].v] <= QueryAge + worker'[w].spent
      BY <2>4, <2>5, Limits
    <3> QED
      BY <2>3, <2>4, <3>1, <3>2 DEF WorkAges
  <2> QED
    BY <1>2, <2>2, <2>6 DEF Lookup, NewestIsCurrent
<1>3. ASSUME NEW w \in Workers, Read(w)
      PROVE  FreshInv'
  <2>1. worker'[w].v = db /\ worker'[w].pc = "store" /\ worker'[w].spent = 0
    BY <1>3 DEF Read, Types, Worker
  <2>2. \A o \in Workers \ {w} : worker'[o] = worker[o]
    BY <1>3 DEF Read, Types
  <2>3. since[db] = 0
    BY <1>0 DEF NewestIsCurrent
  <2>4. WorkAges'
    <3>1. since'[worker'[w].v] <= worker'[w].spent /\ UNCHANGED since
      BY <1>3, <2>1, <2>3 DEF Read
    <3> QED
      BY <2>1, <2>2, <3>1 DEF WorkAges
  <2> QED
    BY <1>3, <2>4 DEF Read, NewestIsCurrent, EntriesAge, Limit
<1>4. ASSUME NEW w \in Workers, Fail(w)
      PROVE  FreshInv'
  <2>1. WorkAges'
    BY <1>4 DEF Fail, Types, Idle, WorkAges
  <2> QED
    BY <1>4, <2>1 DEF Fail, NewestIsCurrent, EntriesAge, Limit
<1>5. ASSUME NEW w \in Workers, NEW negLocked \in BOOLEAN, NEW locked \in BOOLEAN,
             Store(w, negLocked, locked)
      PROVE  FreshInv'
  <2>0. /\ since[worker[w].v] \in Nat /\ worker[w].spent \in Nat /\ worker[w].spent <= MaxWork
        /\ MaxWork \in Nat /\ MaxQueryTTL \in Nat /\ QueryAge \in Nat
    BY <1>0, <1>a, Limits
  <2>1. since[worker[w].v] <= worker[w].spent /\ UNCHANGED <<since, db>>
    BY <1>5 DEF Store, WorkAges
  <2>2. EntriesAge'
    <3> SUFFICES ASSUME NEW x \in DOMAIN cache'.map, cache'.map[x].left > 0
                 PROVE  since[cache'.map[x].v] + cache'.map[x].left <= Limit(x)
      BY <2>1 DEF EntriesAge, Limit
    <3>1. CASE x \in DOMAIN cache.map /\ cache'.map[x] = cache.map[x]
      BY <3>1 DEF EntriesAge
    <3>2. CASE /\ x = Query(worker[w].n)
               /\ cache'.map[x].v = worker[w].v
               /\ cache'.map[x].left \in 1 .. MaxQueryTTL
      <4>1. Limit(x) = MaxWork + MaxQueryTTL
        BY <1>0, <3>2, Limits
      <4> QED
        BY <2>1, <2>0, <3>2, <4>1
    <3> QED
      BY <1>5, <3>1, <3>2, StoreExtends
  <2>3. /\ worker'[w].v = worker[w].v /\ worker'[w].spent = worker[w].spent
        /\ worker'[w].pc = "answer"
        /\ \A o \in Workers \ {w} : worker'[o] = worker[o]
    BY <1>5 DEF Store, Types, Worker
  <2>4. since[worker[w].v] <= QueryAge + worker[w].spent
    BY <2>0, <2>1
  <2>5. WorkAges'
    BY <2>1, <2>3, <2>4 DEF WorkAges
  <2> QED
    BY <2>1, <2>2, <2>5 DEF NewestIsCurrent
<1>6. ASSUME NEW w \in Workers, NEW locked \in BOOLEAN, Answer(w, locked)
      PROVE  FreshInv'
  <2> DEFINE k == Packet(worker[w].n)
             v == worker[w].v
             ttl == Lesser(PacketTTL, GetMinTTL(v))
  <2>1. v \in Versions /\ worker[w].n \in Names /\ ttl \in 0 .. PacketTTL
    BY <1>0, TTLs
  <2>2. Extends(cache', cache, k, v, ttl)
    BY <1>6, <2>1, KeysAreKeys, TTLs, InsertExtends DEF Answer, Types
  <2>3. since[v] <= AnswerAge
    <3>1. since[v] <= QueryAge + worker[w].spent
      BY <1>6 DEF Answer, WorkAges
    <3>2. /\ since[v] \in Nat /\ worker[w].spent \in Nat /\ worker[w].spent <= MaxWork
          /\ MaxWork \in Nat /\ QueryAge \in Nat /\ AnswerAge = QueryAge + MaxWork
      BY <1>0, <1>a, Limits
    <3> QED
      BY <3>1, <3>2
  <2>4. Limit(k) = AnswerAge + PacketTTL
    BY <2>1, Limits
  <2>5. EntriesAge'
    <3> HIDE DEF k, v, ttl
    <3> SUFFICES ASSUME NEW x \in DOMAIN cache'.map, cache'.map[x].left > 0
                 PROVE  since[cache'.map[x].v] + cache'.map[x].left <= Limit(x)
      BY <1>6 DEF Answer, EntriesAge, Limit
    <3>1. CASE x \in DOMAIN cache.map /\ cache'.map[x] = cache.map[x]
      BY <3>1 DEF EntriesAge
    <3>2. CASE x = k /\ ttl > 0 /\ cache'.map[x] = [left |-> ttl, v |-> v]
      BY <1>0, <2>1, <2>3, <2>4, <3>2, Limits
    <3> QED
      BY <2>2, <3>1, <3>2 DEF Extends
  <2>6. WorkAges'
    BY <1>6 DEF Answer, Types, Idle, WorkAges
  <2> QED
    BY <1>6, <2>5, <2>6 DEF Answer, NewestIsCurrent
<1>7. ASSUME NEW ns, Purge(ns)
      PROVE  FreshInv'
  <2>1. EntriesAge'
    BY <1>7, <1>p, WithoutIsPart DEF Purge, Types
  <2> QED
    BY <1>7, <2>1 DEF Purge, NewestIsCurrent, WorkAges
<1>8. ASSUME Change
      PROVE  FreshInv'
  <2>1. NewestIsCurrent'
    <3>1. \A v \in Versions : v >= db + 1 => v >= db
      BY <1>0
    <3> QED
      BY <1>8, <3>1 DEF Change, NewestIsCurrent
  <2> QED
    BY <1>8, <2>1 DEF Change, EntriesAge, WorkAges, Limit
<1>9. ASSUME Tick
      PROVE  FreshInv'
  <2>1. \A v \in Versions : /\ since'[v] \in Nat /\ since'[v] <= since[v] + 1
                            /\ v >= db => since'[v] = since[v]
    BY <1>0, <1>9, Limits DEF Tick, Lesser
  <2>2. NewestIsCurrent'
    BY <1>9, <2>1 DEF Tick, NewestIsCurrent
  <2>3. DOMAIN cache'.map = DOMAIN cache.map
        /\ \A k \in DOMAIN cache.map : /\ cache'.map[k].v = cache.map[k].v
                                       /\ cache'.map[k].left > 0 =>
                                            cache'.map[k].left = cache.map[k].left - 1
    BY <1>0, <1>9 DEF Tick, Aged, Greater
  <2>4. EntriesAge'
    <3> SUFFICES ASSUME NEW k \in DOMAIN cache.map, cache'.map[k].left > 0
                 PROVE  since'[cache.map[k].v] + cache'.map[k].left <= Limit(k)
      BY <2>3 DEF EntriesAge, Limit
    <3>1. cache'.map[k].left = cache.map[k].left - 1 /\ cache.map[k].left > 0
      BY <1>0, <2>3
    <3>2. since[cache.map[k].v] + cache.map[k].left <= Limit(k)
      BY <3>1 DEF EntriesAge
    <3>3. /\ since[cache.map[k].v] \in Nat /\ since'[cache.map[k].v] \in Nat
          /\ since'[cache.map[k].v] <= since[cache.map[k].v] + 1
          /\ cache.map[k].left \in Int /\ Limit(k) \in Nat
      BY <1>0, <2>1, Limits
    <3> QED
      BY <3>1, <3>2, <3>3
  <2>5. \A w \in Workers : /\ worker'[w].pc = worker[w].pc
                           /\ worker'[w].v = worker[w].v
                           /\ Holds(w) => worker'[w].spent = worker[w].spent + 1
    BY <1>9 DEF Tick, Types, Worker
  <2>6. WorkAges'
    <3> SUFFICES ASSUME NEW w \in Workers, Holds(w)
                 PROVE  /\ worker[w].pc = "store" => since'[worker[w].v] <= worker[w].spent + 1
                        /\ worker[w].pc = "answer" => since'[worker[w].v] <= QueryAge + (worker[w].spent + 1)
      BY <2>5 DEF WorkAges, Holds
    <3>1. /\ since[worker[w].v] \in Nat /\ since'[worker[w].v] \in Nat
          /\ since'[worker[w].v] <= since[worker[w].v] + 1
          /\ worker[w].spent \in Nat /\ QueryAge \in Nat
      BY <1>0, <2>1, Limits
    <3> QED
      BY <3>1 DEF WorkAges
  <2> QED
    BY <2>2, <2>4, <2>6
<1>10. CASE UNCHANGED vars
  BY <1>10 DEF vars, NewestIsCurrent, EntriesAge, WorkAges, Limit
<1> QED
  BY <1>1, <1>2, <1>3, <1>4, <1>5, <1>6, <1>7, <1>8, <1>9, <1>10 DEF Next, PurgeSuffix

(***************************************************************************)
(* No answer from a cache is outdated for longer than the ttls of the two  *)
(* caches and the work between them add up to.                             *)
(***************************************************************************)
THEOREM FreshSafe == Spec => []FreshEnough
<1>1. Init => FreshInv
  BY DEF Init, FreshInv, NewestIsCurrent, EntriesAge, WorkAges, Idle
<1>2. Types /\ FreshInv => FreshEnough
  <2> SUFFICES ASSUME Types, FreshInv PROVE FreshEnough
    OBVIOUS
  <2>1. ASSUME NEW k \in DOMAIN cache.map, Live(k)
        PROVE  since[cache.map[k].v] <= IF k.kind = "packet" THEN PacketAge ELSE QueryAge
    <3>1. cache.map[k].left > 0 /\ since[cache.map[k].v] + cache.map[k].left <= Limit(k)
      BY <2>1 DEF Live, GetEntryLocked, FreshInv, EntriesAge
    <3> QED
      BY <3>1, Shapes, Limits DEF Limit
  <2>2. ASSUME NEW w \in Workers, worker[w].pc = "answer"
        PROVE  since[worker[w].v] <= AnswerAge
    <3>1. since[worker[w].v] <= QueryAge + worker[w].spent
      BY <2>2 DEF FreshInv, WorkAges
    <3>2. worker[w].spent <= MaxWork
      BY Limits DEF Types, Worker
    <3> QED
      BY <3>1, <3>2, Shapes, Limits
  <2> QED
    BY <2>1, <2>2 DEF FreshEnough
<1> QED
  BY <1>1, <1>2, TypesInit, TypesInductive, FreshInductive, PTL DEF Spec
=============================================================================
