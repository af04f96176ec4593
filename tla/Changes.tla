------------------------------ MODULE Changes ------------------------------
(***************************************************************************)
(* What a target is asked to change: octodns.zone.base.Zone.changes and    *)
(* Zone.apply, the changes of octodns.record.change, and the order that    *)
(* octodns.provider.plan.Plan puts them in.                                *)
(*                                                                         *)
(* A record carries, besides its name and type, a value (its ttl, values   *)
(* and dynamic data together: whatever Record.changes compares) and the    *)
(* octodns section's ignored, included and excluded.                       *)
(***************************************************************************)
EXTENDS Records

CONSTANTS
  TargetId,      \* the target's id, as `included` and `excluded` name it
  SUPPORTS,      \* the record types that the target supports
  Reads(_)       \* the part of a value that the target compares

(* the target is to act on the record: not ignored, included, not excluded *)
Concerns(r) ==
  /\ ~r.ignored
  /\ r.included = {} \/ TargetId \in r.included
  /\ TargetId \notin r.excluded

Supports(r) == r.type \in SUPPORTS

(* record.changes(other, target) *)
Differs(r, s) == Reads(r.value) # Reads(s.value)

(* Changes by the property `record`: the new one, or the one to delete. *)
Delete(r) == [kind |-> "Delete", record |-> r]
Create(r) == [kind |-> "Create", record |-> r]
Update(r) == [kind |-> "Update", record |-> r]

Deleted(existing, desired) ==
  {r \in existing : Concerns(r) /\ Supports(r) /\ ~HasSame(desired, r)}

(* Mistakes: only the desired version is asked whether it is ignored, and   *)
(* any record that is on both sides is updated.                             *)
UpdatedIgnored(existing, desired) ==
  {r \in desired :
     /\ Concerns(r)
     /\ \E s \in existing : SameRecord(s, r) /\ Differs(s, r)}
UpdatedAlways(existing, desired) ==
  {r \in desired : Concerns(r) /\ \E s \in existing : SameRecord(s, r) /\ Concerns(s)}

Updated(existing, desired) ==
  {r \in desired :
     /\ Concerns(r)
     /\ \E s \in existing : SameRecord(s, r) /\ Concerns(s) /\ Differs(s, r)}

Created(existing, desired) ==
  {r \in desired : Concerns(r) /\ Supports(r) /\ ~HasSame(existing, r)}

(* existing.changes(desired, target) *)
ZoneChanges(existing, desired) ==
  {Delete(r) : r \in Deleted(existing, desired)}
    \cup {Update(r) : r \in Updated(existing, desired)}
    \cup {Create(r) : r \in Created(existing, desired)}

(* Mistake: what goes is deleted when the new records are there. *)
DeletesLast == [Create |-> 0, Update |-> 1, Delete |-> 2]

(* Change.CLASS_ORDERING, the first key that Plan sorts its changes by *)
ClassOrdering == [Delete |-> 0, Create |-> 1, Update |-> 2]

(* The changes that may come first when sorted; names and types, the other *)
(* keys, are not ordered here, so any change of the lowest class may.       *)
Foremost(changes) ==
  {c \in changes :
     \A d \in changes : ClassOrdering[c.kind] <= ClassOrdering[d.kind]}

OfKind(changes, kind) == {c \in changes : c.kind = kind}

(* Mistakes: an update that only removes, and a zone written with the       *)
(* deleted records still in it.                                             *)
ApplyRemoving(records, c) ==
  IF c.kind = "Create" THEN WithRecord(records, c.record)
                       ELSE Discard(records, c.record)
ApplyNoDelete(records, changes) ==
  records \cup {c.record : c \in changes \ OfKind(changes, "Delete")}

(* zone.apply([change]) *)
ApplyChange(records, c) ==
  IF c.kind = "Delete" THEN Discard(records, c.record)
                       ELSE WithRecord(records, c.record)

(* zone.apply(changes), for changes of different names or types *)
ApplyChanges(records, changes) ==
  {r \in records : \A c \in changes : ~SameRecord(r, c.record)}
    \cup {c.record : c \in changes \ OfKind(changes, "Delete")}
=============================================================================
