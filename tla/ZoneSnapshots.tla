--------------------------- MODULE ZoneSnapshots ---------------------------
(***************************************************************************)
(* What Zone.copy() promises, without the sharing: a copy is a zone of its *)
(* own that starts with the records its original has at that moment, and a *)
(* call changes the records of the one zone it is made on.                 *)
(***************************************************************************)
EXTENDS Naturals

CONSTANTS
  Record,     \* the records that calls are made with
  MaxZones,   \* how many zones are made
  Foreign     \* the records that belong to a sub-zone

VARIABLES made, view, ignore_adds, outcome
vars == <<made, view, ignore_adds, outcome>>

Ids == 1 .. MaxZones
Zones == 1 .. made

(* the records with another name or type than r *)
Others(contents, r) ==
  {s \in contents : ~(s.name = r.name /\ s.type = r.type)}

Change(z, contents) ==
  /\ outcome' = "ok"
  /\ view' = [view EXCEPT ![z] = contents]
  /\ UNCHANGED <<made, ignore_adds>>

Put(z, r) == Change(z, Others(view[z], r) \cup {r})
Remove(z, r) == Change(z, Others(view[z], r))

(* A refused call changes nothing, and has a reason. *)
Refuse(z, r) ==
  /\ \/ outcome' = "duplicate" /\ Others(view[z], r) # view[z]
     \/ outcome' = "subzone" /\ r \in Foreign /\ ~r.lenient /\ ~ignore_adds[z]
     \/ outcome' = "ignored" /\ r \in Foreign /\ ~r.lenient /\ ignore_adds[z]
  /\ UNCHANGED <<made, view, ignore_adds>>

Copy(z) ==
  /\ made < MaxZones
  /\ made' = made + 1
  /\ view' = [view EXCEPT ![made + 1] = view[z]]
  /\ ignore_adds' = [ignore_adds EXCEPT ![made + 1] = ignore_adds[z]]
  /\ outcome' = "ok"

(* A call that touches no record. *)
Touch == outcome' = "ok" /\ UNCHANGED <<made, view, ignore_adds>>

Init ==
  /\ made = 1
  /\ view = [z \in Ids |-> {}]
  /\ \E ignore \in BOOLEAN : ignore_adds = [z \in Ids |-> ignore /\ z = 1]
  /\ outcome = "ok"

Next ==
  \/ \E z \in Zones, r \in Record : Put(z, r) \/ Remove(z, r) \/ Refuse(z, r)
  \/ \E z \in Zones : Copy(z)
  \/ Touch

Spec == Init /\ [][Next]_vars
=============================================================================
