-------------------------- MODULE MCPacketHandler --------------------------
(* Two or three small zones with every combination of a few contents. *)
EXTENDS PacketHandler, TLC

MCLabel == {"z", "a", "b", "y", "c", "o", "x", "*", "addr", "key"}
z == <<"z">>
a == <<"a", "z">>
b == <<"b", "a", "z">>
y == <<"y">>
c == <<"c", "y">>
o == <<"o">>

Rec(type, to, auth) == [type |-> type, to |-> to, auth |-> auth]
A == {Rec("A", <<"addr">>, TRUE)}
CNAME(to) == {Rec("CNAME", to, TRUE)}
Apex == {Rec("SOA", <<>>, TRUE), Rec("NS", b, TRUE)}
NS == {Rec("NS", b, FALSE)}
DS == NS \cup {Rec("DS", <<"key">>, TRUE)}
Glue == {Rec("A", <<"addr">>, FALSE)}
MX == {Rec("MX", a, TRUE)}

Nonempty(f) == [n \in {m \in DOMAIN f : f[m] # {}} |-> f[n]]

ZoneZ(atA, atB, atStar, atStarA) ==
  Nonempty((z :> Apex) @@ (a :> atA) @@ (b :> atB) @@ (Star(z) :> atStar) @@ (Star(a) :> atStarA))
ZoneY(atC) == (y :> Apex) @@ (c :> atC)
ZoneA == (a :> Apex) @@ (b :> A)

MCDatabases ==
  {(z :> ZoneZ(atA, atB, w[1], w[2])) @@ (y :> ZoneY(atC)) :
     atA \in {{}, A, CNAME(b), CNAME(o)}, atB \in {{}, A, CNAME(a), MX},
     w \in {<<{}, {}>>, <<CNAME(c), {}>>, <<{}, MX>>}, atC \in {CNAME(a), A}}
  \cup {(z :> ZoneZ(atA, atB, w, {})) @@ (y :> ZoneY(atC)) :
     atA \in {NS, DS}, atB \in {{}, Glue}, w \in {{}, A}, atC \in {CNAME(a), CNAME(b)}}
  \cup {(z :> ZoneZ(NS, Glue, {}, {})) @@ (a :> ZoneA)}

MCSecurities == {[n \in {z, y, a} |-> IF n = z THEN s ELSE "none"] :
                   s \in {"none", "inactive", "nsec", "nsec3"}}

Ask(n, type, do) ==
  [qname |-> n, qtype |-> type, do |-> do, rd |-> FALSE, allowed |-> FALSE,
   tsig |-> "none", form |-> "query", class |-> "IN"]
MCRequests ==
  {Ask(n, t, TRUE) : n \in {z, a, b, c, <<"x">> \o z}, t \in {"A", "DS"}}
  \cup {Ask(n, "MX", FALSE) : n \in {a, b, c, o}}
  \cup {Ask(b, "A", FALSE)}
  \cup {Ask(a, t, TRUE) : t \in {"NS", "ANY", "CNAME"}}
  \cup {Ask(z, t, TRUE) : t \in {"ANY", "SOA", "DNSKEY", "NSEC3PARAM", "NSEC", "RRSIG", "IXFR"}}
  \cup {Ask(<<"x">> \o z, t, TRUE) : t \in {"ANY", "RRSIG"}}
  \cup {[Ask(c, "A", FALSE) EXCEPT !.rd = TRUE, !.allowed = al] : al \in BOOLEAN}
  \cup {[Ask(z, "A", FALSE) EXCEPT !.tsig = t] : t \in {"good", "bad"}}
  \cup {[Ask(z, "A", FALSE) EXCEPT !.form = f] : f \in {"BadName", "opcode"}}
  \cup {[Ask(z, "A", FALSE) EXCEPT !.class = k] : k \in {"ANY", "CH"}}
=============================================================================
