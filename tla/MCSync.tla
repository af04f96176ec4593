------------------------------ MODULE MCSync ------------------------------
(* A zone with a sub-zone, an alias of it and an arpa zone, for TLC. *)
EXTENDS Sync

MCZones == <<"parent.", "alias.", "sub.parent.", "other.", "10.arpa.">>
MCAliasOf == [z \in {"alias."} |-> "parent."]
MCDelayed == {"10.arpa."}
MCSubZoneOf == {<<"sub.parent.", "parent.">>}
MCLength == [z \in {"parent.", "alias.", "sub.parent.", "other.", "10.arpa."} |->
               CASE z = "parent." -> 7 [] z = "alias." -> 6 [] z = "other." -> 6
                 [] z = "sub.parent." -> 11 [] z = "10.arpa." -> 8]
OneTarget == [z \in {"parent.", "sub.parent.", "other.", "10.arpa."} |-> {"t1"}]
TwoTargets == [OneTarget EXCEPT !["parent."] = {"t1", "t2"}]

Run(zones, targets, dry_run, force, enabled, checksum, max_workers) ==
  [zones |-> zones, targets |-> targets, dry_run |-> dry_run, force |-> force,
   enabled |-> enabled, checksum |-> checksum, max_workers |-> max_workers]

Dry == Run({}, {}, TRUE, FALSE, TRUE, FALSE, 2)
Doit == Run({}, {}, FALSE, FALSE, FALSE, FALSE, 1)
Forced == Run({}, {}, FALSE, TRUE, FALSE, FALSE, 2)
Approved == Run({}, {}, TRUE, FALSE, TRUE, TRUE, 2)
MCOptions ==
  { Dry, Doit, Forced, Approved,
    Run({"parent.", "sub.parent."}, {"t1"}, FALSE, FALSE, FALSE, FALSE, 2),
    Run({"alias."}, {}, FALSE, FALSE, FALSE, FALSE, 2),
    Run({"10.arpa."}, {}, FALSE, FALSE, FALSE, FALSE, 2) }

CopyOptions == { Run({"parent.", "alias.", "sub.parent."}, {}, TRUE, FALSE, FALSE, FALSE, 2) }

(* An update from one version to the next is too large, a new zone is not.  *)
MCUnsafe(plan) == plan.old.version = 1 /\ plan.new.version = 2
=============================================================================
