------------------------------ MODULE MCZone ------------------------------
(* A small zone with one delegated sub-zone, for TLC. *)
EXTENDS Zone

Rec(name, type, value, lenient) ==
  [name |-> name, type |-> type, value |-> value, lenient |-> lenient]

(* two versions of the apex NS, the delegation, and two versions of a record *)
(* below the cut, which is not the zone's                                   *)
MCRecord ==
  { Rec(Apex, "NS", 1, FALSE), Rec(Apex, "NS", 2, FALSE),
    Rec(<<"sub">>, "NS", 1, FALSE),
    Rec(<<"a", "sub">>, "A", 1, FALSE), Rec(<<"a", "sub">>, "A", 2, TRUE) }
MCSubZones == {<<"sub">>}
=============================================================================
