----------------------------- MODULE MCAutoArpa -----------------------------
(* Two zones, an alias of the first, and two arpa zones, one below the      *)
(* other, for TLC.                                                          *)
EXTENDS AutoArpa

MCForward == {"one", "two"}
MCAliasOf == [z \in {"alias"} |-> "one"]
MCArpa == {"wide", "narrow"}
MCSubZones(a) == IF a = "wide" THEN {"narrow"} ELSE {}
MCAt(a) == IF a = "narrow" THEN {3} ELSE {}
MCUnder(a) == IF a = "wide" THEN {1, 2, 3} ELSE {2}
MCStatic(a) == IF a = "wide" THEN {1} ELSE {}

Addr(name, priority, ttl, values) ==
  [name |-> name, priority |-> priority, ttl |-> ttl, values |-> values,
   geo |-> <<>>, pools |-> <<>>]
Dynamic == [Addr("dyn", 999, 60, <<2>>) EXCEPT !.pools = <<1, 2>>]
Geo == [Addr("geo", 1, 300, <<1>>) EXCEPT !.geo = <<3>>]

MCSources(z) ==
  IF z = "one" THEN SUBSET {Addr("*", 1, 60, <<1>>), Dynamic, Addr("a", 999, 300, <<1, 2>>)}
               ELSE SUBSET {Addr("wild", 999, 60, <<1>>), Addr("*", 2, 300, <<1, 3>>), Geo}

MCFqdn(z, name) ==
  10 * (CASE z = "alias" -> 0 [] z = "one" -> 1 [] z = "two" -> 2)
    + (CASE name = "a" -> 1 [] name = "dyn" -> 2 [] name = "geo" -> 3
         [] name = "wild" -> 4 [] name = "*" -> 5)

MCNone == "none"
Option(max, inherit, replace, wildcard, ignore, lenient) ==
  [max_auto_arpa |-> max, inherit_ttl |-> inherit, ttl |-> 3600,
   populate_should_replace |-> replace, wildcard_replacement |-> wildcard,
   ignore_subzone_adds |-> ignore, lenient |-> lenient]
MCOptions ==
  { Option(1, FALSE, TRUE, "none", TRUE, FALSE),
    Option(2, TRUE, TRUE, "wild", TRUE, FALSE),
    Option(3, TRUE, TRUE, "wild", FALSE, TRUE),
    Option(9, FALSE, FALSE, "none", FALSE, FALSE) }
=============================================================================
