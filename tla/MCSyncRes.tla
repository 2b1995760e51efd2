----------------------------- MODULE MCSyncRes -----------------------------
(* A root with two zones, the second of which has misconfigured servers. *)
EXTENDS SyncRes, TLC

root == <<>>
y == <<"y">>
z == <<"z">>
r == <<"r">>
m == <<"m", "y">>
n == <<"n", "z">>
n2 == <<"o", "z">>
wy == <<"w", "y">>
cy == <<"c", "y">>
wz == <<"w", "z">>

Zone(z0, ns, server, data) ==
  [servers |-> {server},
   data |-> data @@ (Key(z0, "NS") :> {ns}) @@ (Key(z0, "SOA") :> {"soa"}) @@ (Key(ns, "A") :> {server})]

MCZoneData ==
  (root :> Zone(root, r, "root", [k \in {} |-> {}]))
  @@ (y :> Zone(y, m, "ys", (Key(wy, "A") :> {"addr", "addr2"}) @@ (Key(cy, "CNAME") :> {wz})))
  @@ (z :> Zone(z, n, "zs", (Key(z, "NS") :> {n, n2}) @@ (Key(n2, "A") :> {"zs"}) @@ (Key(wz, "A") :> {"addr"})))

MCMuddledReplies == {
  \* the address of a name of another zone
  Reply("NoError", TRUE, {RR("answer", wz, "CNAME", wy), RR("answer", wy, "A", "wrong")}),
  \* a referral to a name server of another zone, with an address for it
  Reply("NoError", FALSE, {RR("authority", wz, "NS", m), RR("additional", m, "A", "wrong")}),
  \* name servers for another zone, and for the root
  Reply("NoError", TRUE, {RR("authority", y, "NS", n), RR("authority", root, "NS", n)}),
  \* a denial in the name of the root
  Reply("NXDomain", TRUE, {RR("authority", root, "SOA", "soa")}),
  Reply("NoError", TRUE, {RR("authority", root, "SOA", "wrong")}),
  \* an alias that leads back
  Reply("NoError", TRUE, {RR("answer", wz, "CNAME", cy)})}

MCMuddled == {z}

MCQuestions == {[qname |-> n0, qtype |-> "A"] : n0 \in {wy, cy, <<"x", "y">>}}
=============================================================================
