-------------------------- MODULE MCDynamicZones --------------------------
(* Small configurations and listings, for TLC. *)
EXTENDS DynamicZones

A == <<"a", "com">>
B == <<"b", "a", "com">>
C == <<"c", "b", "a", "com">>
Idn == <<"xn--caf", "com">>
Arpa == <<"10", "arpa">>
MCArpaZones == {Arpa}

Spelled == [a |-> A, b |-> B, c |-> C, idn |-> Idn, utf8 |-> Idn, arpa |-> Arpa]
MCSpelling == DOMAIN Spelled

(* yaml lists zones and so does more; static does not *)
MCSource == {"yaml", "more", "static"}
MCListers == {"yaml", "more"}

Conf(sources, targets, matcher, matches) ==
  [alias |-> None, sources |-> sources, targets |-> targets,
   processors |-> TRUE, matcher |-> matcher, matches |-> matches]
AliasOf(zone) == [Conf(None, None, "all", {}) EXCEPT !.alias = zone]

MCConfig ==
  [plain     |-> Conf({"static"}, {"t1"}, "all", {}),
   other     |-> Conf({"yaml"}, {"t2"}, "all", {}),
   alias     |-> AliasOf(B),
   sourceless |-> Conf(None, {"t1"}, "all", {}),
   untargeted |-> Conf({"yaml"}, {}, "all", {}),
   wrong     |-> Conf({"yaml"}, {"static", "t1"}, "all", {}),
   unknown   |-> Conf({"gone"}, {"t1"}, "all", {}),
   processed |-> [Conf({"yaml"}, {"t1"}, "all", {}) EXCEPT !.processors = FALSE],
   glob      |-> Conf({"yaml"}, {"t1"}, "glob", {"b", "c", "arpa"}),
   regex     |-> Conf({"more"}, {"t1", "t2"}, "regex", {"a", "b", "idn"}),
   bad       |-> Conf({"more"}, {"t2"}, "bad regex", {}),
   rest      |-> Conf({"yaml", "more"}, {"t2"}, "all", {}),
   unlisted  |-> Conf({"static", "yaml"}, {"t2"}, "all", {})]
MCConfigId == DOMAIN MCConfig

Setup(zs, dyn, arpa) == [zones |-> zs, dynamic |-> dyn, auto_arpa |-> arpa]
Empty == [n \in {} |-> "plain"]
MCSetups ==
  { Setup([a |-> "plain"], <<"glob", "rest">>, FALSE),
    Setup([a |-> "plain", arpa |-> "plain"], <<"regex", "glob">>, TRUE),
    Setup([idn |-> "plain", a |-> "alias"], <<"rest">>, FALSE),
    Setup([utf8 |-> "other", b |-> "alias"], <<"regex", "unlisted">>, FALSE),
    Setup([idn |-> "plain", utf8 |-> "other"], << >>, FALSE),
    Setup([a |-> "wrong", c |-> "plain"], <<"bad", "glob">>, FALSE),
    Setup([a |-> "processed", b |-> "untargeted", c |-> "sourceless"], << >>, FALSE),
    Setup([a |-> "unknown", c |-> "other"], << >>, FALSE) }

MCListings ==
  { [yaml |-> {"a", "b", "c"}, more |-> {"b", "idn"}, static |-> {}],
    [yaml |-> {"c", "arpa"}, more |-> {"a", "b"}, static |-> {}],
    [yaml |-> {"a", "utf8"}, more |-> {"utf8"}, static |-> {}] }

Filter(zs, ss, ts) == [zones |-> zs, sources |-> ss, targets |-> ts]
MCFilters ==
  { Filter({}, {}, {}), Filter({A, B}, {}, {}), Filter({C}, {}, {"t1"}), Filter({Arpa}, {}, {}),
    Filter({}, {"more"}, {}), Filter({Idn, A}, {"yaml"}, {"t2"}) }

(* the configuration whose one zone has an explicit configuration and a     *)
(* file with its UTF-8 name                                                 *)
MCSetupsIdn == { Setup([idn |-> "plain"], <<"rest">>, FALSE) }
MCListingsIdn == { [yaml |-> {"utf8", "a"}, more |-> {}, static |-> {}] }
=============================================================================
