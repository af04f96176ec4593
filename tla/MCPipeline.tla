---------------------------- MODULE MCPipeline ----------------------------
(* Two zones with a few records and the chains of processors that deserve   *)
(* a look, for TLC.                                                         *)
EXTENDS Pipeline, TLC

MCReads(value) == value
MCMetaValues(run) == {<<"time", ToString(run)>>}

MCZones == <<"one", "two">>

V(t) == {Text(t)}
Www == <<"www">>
A(name, t) == Plain(name, "A", V(t))
CnameWww == Plain(Www, "CNAME", V("odd"))
RootNs == Plain(Apex, "NS", V("ns"))
ForOthers(r) == [r EXCEPT !.excluded = {"target"}]
TxtWww == Plain(Www, "TXT", V("text"))
ForeignMark == Plain(MarkerName(A(Www, "1")), "TXT", V("theirs"))
Challenge(sub, t) == Plain(<<"_acme-challenge">> \o sub, "TXT", V(t))

Filter(by, list, allow, error) ==
  [class |-> "filter", by |-> by, list |-> list, allow |-> allow,
   include_target |-> TRUE, error |-> error]
Ownership == [class |-> "ownership", should_replace |-> FALSE, allow_takeover |-> FALSE]
Meta == [class |-> "meta", record_name |-> <<"octodns-meta">>]
Acme == [class |-> "acme"]

Acmes == {<<Acme>>}
Owners == {<<Ownership>>, <<Ownership, Meta>>}
Filters ==
  { <<Filter("type", {"TXT"}, FALSE, FALSE), Filter("name", {Www, Apex}, TRUE, FALSE)>>,
    <<Filter("value", V("2"), FALSE, FALSE), [class |-> "exclude_root_ns_changes", error |-> FALSE]>>,
    <<Filter("network", V("1"), TRUE, FALSE), [class |-> "ignore_root_ns"], Meta>>,
    <<Filter("name", {<<"odd">>}, FALSE, TRUE)>> }

Clamping == [class |-> "clamp", min_ttl |-> 300, max_ttl |-> 3600]
Restricting == [class |-> "restrict", min_ttl |-> 60, max_ttl |-> 7200, allowed_ttls |-> {}]
Allowing == [class |-> "restrict", min_ttl |-> 1, max_ttl |-> 7200, allowed_ttls |-> {60, 9999}]
Dots == [class |-> "dots"]
Templating == [class |-> "templating"]
Spf == [class |-> "spf"]
Ttling == {<<Restricting, Clamping>>, <<Clamping, Ownership>>, <<Allowing>>}
Naming == {<<Dots, Templating>>, <<Templating, Meta>>}
Spfs == {<<Spf>>}
MCChains == Acmes \cup Owners \cup Filters \cup Ttling \cup Naming \cup Spfs

(* What the templates become: "{zone_name}" ends in a dot. *)
MCRendered ==
  <<"template", "{zone_name}">> :> Text("unit..") @@
  <<"open template", "{zone_name}">> :> Text("unit.") @@
  <<"template", "mail.{x}">> :> Text("mail.unit.")
MCValidText(v) == v # Text("unit..")

Term(kind) == [kind |-> kind, domain |-> "none"]
Include(d) == [kind |-> "include", domain |-> d]
MCSpfTerms ==
  "two" :> <<Term("lookup"), Term("lookup"), Term("other")>> @@
  "three" :> <<Term("lookup"), Term("lookup"), Term("lookup"), Term("other")>> @@
  "tail" :> <<Term("lookup"), Term("lookup"), Term("lookup")>> @@
  "deep" :> <<Include("one"), Term("other")>> @@
  "deeper" :> <<Include("one"), Include("one"), Term("other")>> @@
  "one" :> <<Term("lookup"), Term("other")>> @@
  "loop" :> <<Include("loop"), Term("other")>> @@
  "gone" :> <<Include("gone")>> @@
  "ptr" :> <<Term("ptr")>>
MCPublished == "one" :> {"one"} @@ "loop" :> {"loop"} @@ "many" :> {"one", "ptr"} @@ "plain" :> {}

Valid(records) ==
  {z \in SUBSET records :
     /\ IsKeyed(z)
     /\ \A r, s \in z : r.type = "CNAME" /\ s.name = r.name => s.type = "CNAME"}

Lenient(r) == [r EXCEPT !.lenient = TRUE]
WithTtl(ttl) == Plain(Www, "A", V("1") \cup {<<"ttl", ttl>>})
Timed == {WithTtl(t) : t \in {30, 60, 9999}} \cup {Lenient(WithTtl(30)), Plain(<<"odd">>, "A", {<<"ttl", 600>>})}
Cname(v) == Plain(Www, "CNAME", {v})
Named ==
  { Cname(<<"open", "a.unit.">>), Cname(<<"template", "{zone_name}">>),
    Cname(<<"open template", "{zone_name}">>), Lenient(Cname(<<"open template", "{zone_name}">>)),
    Plain(Apex, "MX", {<<"template", "mail.{x}">>, <<"open", "b.unit.">>}),
    Plain(<<"odd">>, "TXT", {<<"template", "{undefined}">>}) }
Policy(p) == Plain(Apex, "TXT", {<<"spf", p>>})
Spoken ==
  {Policy(p) : p \in DOMAIN MCSpfTerms} \cup
  { Lenient(Policy("three")), Plain(Apex, "TXT", {<<"spf", "one">>, <<"spf", "two">>}),
    Plain(Www, "TXT", {<<"spf", "two">>, Text("text")}) }

MCSources(c, z) ==
  CASE c \in Acmes -> Valid({Challenge(Apex, "ours")})
    [] c \in Owners /\ z = "one" -> Valid({A(Www, "1"), ForOthers(A(Www, "2")), CnameWww, A(<<"*">>, "1")})
    [] c \in Filters /\ z = "one" -> Valid({A(Www, "1"), A(Www, "2"), TxtWww, A(<<"odd">>, "1"), RootNs})
    [] c \in Ttling /\ z = "one" -> Valid(Timed)
    [] c \in Naming /\ z = "one" -> Valid(Named)
    [] c \in Spfs /\ z = "one" -> Valid(Spoken)
    [] OTHER -> {{}}
MCLives(c, z) ==
  CASE c \in Acmes -> Valid({Challenge(Apex, "theirs")})
    [] c \in Owners /\ z = "one" -> Valid({A(Www, "1"), CnameWww, ForeignMark})
    [] c \in Filters /\ z = "one" -> Valid({A(Www, "2"), TxtWww, A(<<"odd">>, "2"), RootNs})
    [] c \in Ttling /\ z = "one" -> Valid({A(Www, "1")})
    [] c \in Naming /\ z = "one" -> Valid({TxtWww})
    [] OTHER -> {{}}
MCOthers(c, z) ==
  CASE c \in Acmes -> {Challenge(Apex, "theirs")}
    [] c \in Owners /\ z = "one" -> {A(Www, "9"), ForeignMark}
    [] OTHER -> {}

(* All that the theorems about any chains and zones ask for. *)
ASSUME ConditionsHold ==
  /\ MarksAreOwn /\ MarksOfOthers /\ ChallengesOfOthers
  /\ FiltersPass /\ PoliciesAreChecked
  /\ FiltersPassValues /\ MetaComesLast /\ MetaKeysStay
=============================================================================
