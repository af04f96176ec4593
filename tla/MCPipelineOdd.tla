--------------------------- MODULE MCPipelineOdd ---------------------------
(* Instances for TLC in which a property of Pipeline fails, because one of  *)
(* the things that it rests on is missing.                                  *)
EXTENDS Pipeline, TLC

MCReads(value) == value
MCMetaValues(run) == {}
MCValidText(v) == TRUE
MCNothing == << >>

MCZones == <<"one", "two">>
MCTimes(run) == {<<"time", ToString(run)>>}
MCAcme == {<<[class |-> "acme"]>>}
MCOwnership == {<<[class |-> "ownership", should_replace |-> FALSE, allow_takeover |-> FALSE]>>}
MCMetaFirst ==
  {<<[class |-> "meta", record_name |-> <<"octodns-meta">>]>> \o c : c \in MCOwnership}

A(name, t) == Plain(name, "A", {Text(t)})
Challenge(t) == Plain(<<"_acme-challenge">>, "TXT", {Text(t)})
Valid(records) == {z \in SUBSET records : IsKeyed(z)}

(* For MCPipelineAcme.cfg: the challenges of both zones have one name. *)
SharedSources(c, z) == Valid({Challenge("ours")})
SharedLives(c, z) == Valid({Challenge("theirs")})
SharedOthers(c, z) == {Challenge("theirs")}

(* For MCPipelineExcluded.cfg: a record that the target is not to have. *)
ExcludedSources(c, z) ==
  IF z = "one"
    THEN Valid({[A(<<"www">>, "1") EXCEPT !.excluded = {"target"}], A(<<"odd">>, "1")})
    ELSE {{}}
ExcludedLives(c, z) == IF z = "one" THEN Valid({A(<<"www">>, "2")}) ELSE {{}}

(* For MCPipelineMeta.cfg: the target has a record that is not octoDNS's. *)
NoSources(c, z) == {{}}
ForeignLives(c, z) == IF z = "one" THEN {{A(<<"www">>, "2")}} ELSE {{}}

NoOthers(c, z) == {}
=============================================================================
