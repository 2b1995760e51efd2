--------------------------- MODULE MCQueryCaches ----------------------------
(* QueryCaches with a name that comes into being and then gets a short ttl. *)
EXTENDS QueryCaches, TLC

CONSTANTS apex, other, www
OneName == {www}
(* a.nl and www.a.nl, and between them in d_map the name my-a.nl of another zone. *)
ThreeNames == {apex, other, www}
InZone == {apex, www} \cap Names
ByName == [n \in Names |-> CASE n = apex -> 0 [] n = other -> 1 [] n = www -> 2]

WorkersAlike == Permutations(Workers)

MCData == <<NoData, 3, 1>>
OneVersion == <<3>>
=============================================================================
