--------------------------- MODULE RecursorCache ---------------------------
(***************************************************************************)
(* The recursor's record cache (recursor_cache.cc).  An entry holds the    *)
(* records of one name and type, each with the time it has left (0 when it *)
(* has expired), and whether they came from an authoritative answer.       *)
(***************************************************************************)
EXTENDS Integers, FiniteSets

Key(n, type) == [name |-> n, type |-> type]
NoRecords == [x \in {} |-> 0]
Live(e) == {x \in DOMAIN e.recs : e.recs[x] > 0}

(* MemRecursorCache::get: the records that have not expired. *)
Get(c, n, type) == IF Key(n, type) \in DOMAIN c THEN Live(c[Key(n, type)]) ELSE {}
(* Its return value: the time left of the last of them. *)
LongerThan(c, n, type, time) ==
  /\ Get(c, n, type) # {}
  /\ c[Key(n, type)].recs[CHOOSE x \in Get(c, n, type) : TRUE] > time

(* An authoritative NS set of the size of the one we have, and no shorter lived *)
(* than the record of it that sorts first.                                      *)
AttemptToRefreshNSTTL(e, type, contents, ttl) ==
  /\ e.auth
  /\ type = "NS"
  /\ Cardinality(contents) = Cardinality(DOMAIN e.recs)
  /\ DOMAIN e.recs # {}
  /\ e.recs[CHOOSE x \in DOMAIN e.recs : TRUE] =< ttl

(* A record that is stored already gets the later end, unless an authoritative answer *)
(* would prolong an NS record that is still alive (auth-can-lower-ttl is off).        *)
Ttd(left, type, ttl, auth) ==
  IF ttl > left /\ ~(left > 0 /\ type = "NS" /\ auth) THEN ttl ELSE left
Merge(recs, type, contents, ttl, auth) ==
  [x \in DOMAIN recs \cup contents |->
     IF x \notin DOMAIN recs THEN ttl
     ELSE IF x \notin contents THEN recs[x] ELSE Ttd(recs[x], type, ttl, auth)]

(* MemRecursorCache::replace on what is stored under a key. *)
Replace(stored, n, type, contents, ttl, auth) ==
  LET e == [stored EXCEPT !.recs = IF type \in {"SOA", "CNAME"} THEN NoRecords ELSE @]
  IN IF ~auth /\ e.auth /\ Live(e) # {}
     THEN stored
     ELSE IF auth /\ (n = <<>> \/ ~AttemptToRefreshNSTTL(e, type, contents, ttl))
     THEN [auth |-> TRUE, recs |-> [x \in contents |-> ttl]]
     ELSE [auth |-> auth, recs |-> Merge(e.recs, type, contents, ttl, auth)]
ReplaceIn(c, k, contents, ttl, auth) ==
  Replace(IF k \in DOMAIN c THEN c[k] ELSE [auth |-> auth, recs |-> NoRecords],
          k.name, k.type, contents, ttl, auth)

(* A whole packet: the contents new[k] for each key k. *)
ReplaceAll(c, new, ttl, auth) ==
  [k \in DOMAIN c \cup DOMAIN new |->
     IF k \in DOMAIN new THEN ReplaceIn(c, k, new[k], ttl, auth) ELSE c[k]]

(* doAgeCache: an entry whose records all live longer gets this time. *)
DoAgeCache(c, k, time) ==
  IF k \in DOMAIN c /\ \A x \in DOMAIN c[k].recs : c[k].recs[x] > time
  THEN [c EXCEPT ![k].recs = [x \in DOMAIN @ |-> time]]
  ELSE c

(* Time passes. *)
Older(n, time) == IF n > time THEN n - time ELSE 0
Aged(c, time) == [k \in DOMAIN c |-> [c[k] EXCEPT !.recs = [x \in DOMAIN @ |-> Older(@[x], time)]]]
=============================================================================
