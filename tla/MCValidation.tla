--------------------------- MODULE MCValidation ---------------------------
(* Small registries, configurations and zones, for TLC. *)
EXTENDS Validation, TLC

Val(id, kind, bridge, sets, version) ==
  [id |-> id, kind |-> kind, bridge |-> bridge, sets |-> sets, version |-> version]
In(key, val) == [key |-> key, val |-> val]
Two(key, id) == [key |-> key, id |-> id]

(* one validator of every record, the bridges and value validators of two   *)
(* types, one id that both types use, and validators of zones               *)
NameRfc == Val("name-rfc", "record", FALSE, {"legacy", "strict"}, 1)
Dynamic == Val("dynamic", "record", FALSE, {"legacy", "strict"}, 1)
Bridge == Val("_values-type", "record", TRUE, {Always}, 1)
Target == Val("target-rfc", "value", FALSE, {"legacy", "strict"}, 1)
TargetAbs == Val("target-best", "value", FALSE, {"best-practice"}, 1)
ZoneVal(id, sets) == Val(id, "zone", FALSE, sets, 1)

Registered ==
  << In("*", NameRfc), In("CNAME", Bridge), In("CNAME", Target), In("CNAME", TargetAbs),
     In("MX", Bridge), In("MX", Target), In("NS", Bridge), In("DNAME", Bridge),
     In("SRV", Bridge), In("CAA", Bridge),
     In("A", Bridge), In("A", Dynamic), In("A", Target), In("TXT", Bridge), In("ALIAS", Bridge),
     In("*", ZoneVal("cname-coexistence", {"legacy", "strict"})),
     In("*", ZoneVal("root-cname", {"strict"})),
     In("*", ZoneVal("no-cname-loop", {"strict"})),
     In("*", ZoneVal("dname-coexistence", {"strict"})),
     In("*", ZoneVal("glue-for-in-zone-ns", {"strict"})),
     In("*", ZoneVal("ns-target-not-cname", {"strict"})),
     In("*", ZoneVal("srv-target-not-cname", {"strict"})),
     In("*", ZoneVal("mx-target-not-cname", {"strict"})),
     In("*", ZoneVal("cname-target-not-cname", {"best-practice"})),
     In("*", ZoneVal("cname-target-resolvable-in-zone", {"best-practice"})),
     In("*", ZoneVal("srv-target-resolvable-in-zone", {"best-practice"})),
     In("*", ZoneVal("mx-target-resolvable-in-zone", {"best-practice"})),
     In("*", ZoneVal("mail", {"best-practice"})),
     In("*", ZoneVal("caa-best-practices", {"best-practice"})),
     In("*", ZoneVal("multi-value-ns", {"best-practice"})) >>

MCBuiltins ==
  [k \in Kinds |-> SelectSeq(Registered, LAMBDA e : e.val.kind = k)]

(* A provider's own record type, with its bridge and a validator; and custom *)
(* validators: an override of target-rfc for MX alone, which reports less,   *)
(* and one for every type.                                                   *)
Imports == << In("X/ALIAS", Bridge), In("X/ALIAS", Val("x-value", "value", FALSE, {"legacy"}, 1)) >>
OwnTarget == Val("target-rfc", "value", FALSE, {"legacy"}, 2)
Floor == Val("ttl-floor", "record", FALSE, {Always}, 1)

Conf(imports, custom, sets, add, drop, zadd, zdrop) ==
  [imports |-> imports, custom |-> custom, sets |-> sets, add |-> add,
   drop |-> drop, zadd |-> zadd, zdrop |-> zdrop]

MCConfigs ==
  { Conf(<< >>, << >>, {"strict", "best-practice"}, << >>, << >>, << >>, << >>),
    Conf(Imports, << >>, {"legacy"}, << >>, << Two("*", "name-rfc") >>,
         << Two("*", "no-cname-loop") >>, << Two("*", "cname-coexistence") >>),
    Conf(Imports, << In("MX", OwnTarget), In("*", Floor) >>, {"legacy"},
         << Two("CNAME", "target-best"), Two("*", "x-value") >>,
         << Two("MX", "target-rfc"), Two("*", "ttl-floor") >>, << >>, << >>),
    Conf(<< >>, << In("*", Floor) >>, {"best-practice"},
         << Two("MX", "target-best"), Two("MX", "unknown") >>, << >>, << >>, << >>),
    Conf(<< >>, << >>, {"legacy"}, << >>, << Two("*", "_values-type") >>, << >>, << >>),
    Conf(<< In("MX", Bridge), In("X/ALIAS", Bridge), In("X/ALIAS", Bridge) >>, << >>,
         {"strict"}, << >>, << >>, << >>, << >>) }

(* docs/configuration.rst: a validator disabled for one type *)
MCConfigsOneType ==
  { Conf(<< >>, << >>, {"legacy"}, << >>, << Two("A", "name-rfc") >>, << >>, << >>) }

MCId == {"unknown"} \cup {v.id : v \in Validator}

Rec(name, type, targets, size, is, spf, dmarc, faults, lenient) ==
  [name |-> name, type |-> type, targets |-> targets, size |-> size, is |-> is,
   spf |-> spf, dmarc |-> dmarc, faults |-> faults, lenient |-> lenient,
   malformed |-> FALSE, dynamic |-> {}]
To(name, type, targets) ==
  Rec(name, type, targets, 2, {}, << >>, << >>, {}, FALSE)
Spf(name, spf) == Rec(name, "TXT", {}, 1, {}, spf, << >>, {}, FALSE)

a == <<"a">>
b == <<"b">>
c == <<"c", "b">>
Cut == <<"cut">>
Ext == <<".">>
MCSubZones == {Cut}

MCRecord ==
  { To(a, "CNAME", {b}), To(b, "CNAME", {a}), To(Apex, "ALIAS", {a}),
    To(c, "ALIAS", {c}), To(b, "A", {}), To(b, "DNAME", {Ext}),
    To(Apex, "NS", {b, <<"x", "cut">>}), To(c, "SRV", {b, Ext}) } \cup
  { Rec(b, "ALIAS", {a}, 1, {}, << >>, << >>, {}, TRUE) }

(* records with faults: one in its values, one that is leniently accepted, *)
(* one of the type that a provider brings                                   *)
MCFaulty ==
  { Rec(a, "CNAME", {Ext}, 1, {}, << >>, << >>, {Target, NameRfc}, FALSE),
    Rec(b, "MX", {Ext}, 2, {}, << >>, << >>, {Target, TargetAbs, Floor}, FALSE),
    Rec(c, "X/ALIAS", {Ext}, 1, {}, << >>, << >>, {Imports[2].val}, FALSE),
    Rec(a, "A", {}, 1, {}, << >>, << >>, {NameRfc}, TRUE) }
MCMail ==
  { Rec(Apex, "MX", {Ext}, 1, {"null"}, << >>, << >>, {}, FALSE),
    To(Apex, "MX", {b, Ext}),
    Rec(b, "MX", {Ext}, 1, {"null"}, << >>, << >>, {}, FALSE),
    Rec(b, "MX", {Ext}, 1, {"single_mx"}, << >>, << >>, {}, FALSE),
    Spf(Apex, <<"strict">>), Spf(Apex, <<"ends", "strict">>), Spf(Apex, <<"ends">>),
    Spf(b, <<"strict">>), Spf(b, <<"open">>), Spf(b, <<"ends">>),
    Rec(<<"_dmarc">>, "TXT", {}, 1, {}, << >>, <<"reject">>, {}, FALSE),
    Rec(<<"_dmarc">>, "TXT", {}, 1, {}, << >>, <<"other">>, {}, FALSE),
    Rec(Apex, "CAA", {}, 1, {"issue"}, << >>, << >>, {}, FALSE) }

(* Dynamic records: pools with a fault, and rules with targets in all       *)
(* orders, which send clients to pools of their own or to the same one.     *)
Net8 == <<4, "10">>
Net16 == <<4, "10", "1">>
Na == <<"NA">>
Us == <<"NA", "US">>
Value(weight, status, faults) == [weight |-> weight, status |-> status, faults |-> faults]
Ip == Value(1, "obey", {})
Pool(values, fallback) == [values |-> values, fallback |-> fallback]
Rule(pool, subnets, geos) == [pool |-> pool, subnets |-> subnets, geos |-> geos]
Dyn(pools, rules) == [pools |-> pools, rules |-> rules, geo |-> FALSE]

Fallback == {{}, {"p"}, {"q"}, {"r"}, {"default"}}
PoolSets ==
  UNION {[ids -> {Pool(<<Ip>>, f) : f \in Fallback}] : ids \in {{"p"}, {"p", "q", "r"}}}
BadPools ==
  {[p |-> pool] : pool \in
     {[fallback |-> {}], Pool(<<Value(2, "up", {})>>, {}), Pool(<<Value(101, "up", {}), Ip>>, {}),
      Pool(<<Value(7, "down", {}), Ip>>, {}), Pool(<<Value(7, "gone", {}), Ip>>, {}),
      Pool(<<Value(1, "obey", {Target})>>, {})}} \cup
  {("p" :> Pool(<<Ip>>, {"default"})) @@ ("default" :> Pool(<<Ip>>, {}))}
ToP == <<Rule({"p"}, << >>, << >>)>>
ToQ == <<Rule({"q"}, <<Net8>>, << >>)>> \o ToP

MCSubnet == {Net8, Net16}
MCGeo == {Na, Us}
ThreePools == [id \in {"p", "q", "r"} |-> Pool(<<Ip>>, {})]
RuleLists ==
  {<<Rule({"q"}, n1, g1), Rule({p2}, n2, g2), Rule({"p"}, << >>, g3)>> :
     p2 \in {"q", "r"}, n1, n2 \in {<< >>, <<Net8>>, <<Net16>>},
     g1, g2 \in {<< >>, <<Na>>, <<Us>>}, g3 \in {<< >>, <<Na>>}} \cup
  {<<Rule({"r"}, <<Net16, Net8>>, <<Us>>)>> \o ToQ,
   <<Rule({"r"}, <<Net16>>, <<Us, Us>>)>> \o ToQ, << >>,
   <<Rule({}, <<Net16>>, << >>)>> \o ToQ, <<Rule({"x"}, <<Net16>>, << >>)>> \o ToQ,
   <<Rule({"r"}, << <<4, "bad">> >>, << >>)>> \o ToQ,
   <<Rule({"r"}, <<Net16>>, << <<"ZZ">> >>)>> \o ToQ}

Dynamics ==
  {Dyn(pools, ToP) : pools \in PoolSets \cup BadPools} \cup
  {Dyn(pools, ToQ) : pools \in PoolSets} \cup
  {Dyn(ThreePools, rules) : rules \in RuleLists} \cup
  {[Dyn(ThreePools, ToP) EXCEPT !.geo = TRUE]}
MCDynamic ==
  {[To(a, "A", {}) EXCEPT !.dynamic = {d}] : d \in Dynamics}

Nothing == [k \in Buckets |-> {}]
Settings(sources, records, zone_ids) ==
  [sources |-> sources, lenient |-> FALSE, records |-> records, zone |-> zone_ids]
MCZoneConfigs ==
  { Settings(MCRecord, Nothing, {}),
    Settings(MCMail, Nothing, {}),
    Settings(MCDynamic, Nothing, {}),
    Settings(MCFaulty, Nothing, {}),
    Settings(MCFaulty, [Nothing EXCEPT !["CNAME"] = {"target-rfc"}], {"mail"}),
    Settings(MCFaulty, [Nothing EXCEPT !["MX"] = {"_values-type"}], {}) }
=============================================================================
