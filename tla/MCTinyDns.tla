----------------------------- MODULE MCTinyDns -----------------------------
(* Two files of a few lines about a zone, the two zones below it, one of   *)
(* them below the other, and one below arpa, for TLC.                      *)
EXTENDS TinyDns, TLC

CONSTANTS one, two  \* the files, which may be exchanged

Unit == <<"unit">>
SubUnit == <<"sub", "unit">>
XSubUnit == <<"x", "sub", "unit">>
Arpa == <<"10">> \o InAddr
MCZones ==
  { [name |-> Unit, sub_zones |-> {<<"sub">>, <<"x", "sub">>}],
    [name |-> SubUnit, sub_zones |-> {<<"x">>}],
    [name |-> XSubUnit, sub_zones |-> {}], [name |-> Arpa, sub_zones |-> {}] }

MCReversePointer ==
  "10.1" :> (<<"1">> \o Arpa) @@ "10.2" :> (<<"2">> \o Arpa) @@
  "0.0" :> (<<"0">> \o Arpa) @@ "fe.1" :> (<<"fe", "1">> \o Ip6)

N(labels) == [labels |-> labels, dot |-> FALSE]
Dotted(labels) == [labels |-> labels, dot |-> TRUE]
None0 == N(<< >>)
L(symbol, name, host, ip, ttl) ==
  [symbol |-> symbol, name |-> name, host |-> host, ip |-> ip, ttl |-> ttl,
   rest |-> << >>, type |-> "A"]
Www == <<"www", "unit">>

Lines1 ==
  { L("+", N(Www), None0, "10.1", NoTtl), L("=", N(Www), None0, "10.2", 30),
    L("=", Dotted(Www), None0, "10.1", 60), L("=", N(Www), None0, "0.0", NoTtl),
    L("6", N(Www), None0, "fe.1", NoTtl), L("C", N(Www), N(<<"a", "unit">>), None, NoTtl),
    L("C", N(Www), N(<<"b", "unit">>), None, 30),
    L("^", N(<<"1">> \o Arpa), N(Www), None, 60), L("^", N(Www), None0, "10.2", NoTtl),
    L("^", Dotted(<<"1">> \o Arpa), N(Www), None, NoTtl) }
Lines2 ==
  { L(".", N(SubUnit), N(<<"ns", "sub", "unit">>), "10.1", 30),
    L("&", Dotted(SubUnit), N(<<"a">>), "10.2", NoTtl),
    L("=", N(<<"www", "sub", "unit">>), None0, "10.2", 30),
    [L("@", N(Www), N(<<"mail">>), "10.1", EmptyTtl) EXCEPT !.rest = <<"10">>],
    [L("S", N(Www), Dotted(<<"srv">>), None, 60) EXCEPT !.rest = <<"443", "0", "0">>],
    [L(":", N(SubUnit), None0, None, 30) EXCEPT !.rest = <<"ns", "else">>, !.type = "NS"],
    [L(":", N(Www), None0, None, 60) EXCEPT !.rest = <<"c", "unit">>, !.type = "CNAME"],
    [L(":", N(Www), None0, None, 60) EXCEPT !.rest = <<"10.9">>],
    [L(":", N(Www), None0, None, 60) EXCEPT !.rest = <<"odd">>, !.type = "ODD"],
    [L("'", N(Www), None0, None, NoTtl) EXCEPT !.rest = <<"text">>],
    L("&", N(XSubUnit), N(<<"ns", "sub", "unit">>), "10.2", 30),
    L("=", N(<<"1">> \o Arpa), N(<<"text of 10.2">>), "10.2", NoTtl),
    L("3", N(Www), None0, "fe.1", 30), L("Z", N(Unit), None0, None, NoTtl) }
MCAdded ==
  { L("=", N(Www), None0, "10.1", NoTtl), L("=", N(<<"www", "sub", "unit">>), None0, "10.1", 30),
    L(".", Dotted(SubUnit), N(<<"ns", "sub", "unit">>), None, 60),
    L("^", N(<<"1">> \o Arpa), N(Www), None, 60) }

MCLine == Lines1 \cup Lines2 \cup MCAdded

MCFile == {one, two}
MCSymmetry == Permutations(MCFile)
MCInitialTexts ==
  {f \in [MCFile -> {<< >>} \cup {<<l>> : l \in Lines1 \cup Lines2} \cup {<<l, m>> : l, m \in Lines1}] :
     \E x, y \in MCFile :
       /\ x # y /\ Len(f[y]) < 2
       /\ Len(f[x]) = 2 => f[y] \in {<<l>> : l \in MCAdded}}
=============================================================================
