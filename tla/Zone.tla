------------------------------- MODULE Zone -------------------------------
(***************************************************************************)
(* octodns.zone.base.Zone: the container of a DNS zone's records, with its *)
(* copy-on-write copies.                                                   *)
(*                                                                         *)
(* The state is the heap of the Zone objects made while one zone is        *)
(* processed.  Object 1 is the zone that the sources populate; the others  *)
(* are copies, or copies of copies, made with Zone.copy().  An action is   *)
(* one call of a public method on one object.                              *)
(***************************************************************************)
EXTENDS Records

CONSTANTS
  Record,       \* the records that calls are made with
  SubZones,     \* names of the configured sub-zones, relative to the zone
  MaxZones,     \* bound: how many Zone objects are made
  SharedWrites  \* TRUE: any call may be made on any object, in any order.
                \* FALSE: the order octoDNS keeps itself, where an object is
                \* no longer written once copies that share its records exist

ASSUME MaxZonesAssumption == MaxZones \in Nat \ {0}
ASSUME SharedWritesAssumption == SharedWrites \in BOOLEAN
ASSUME LenientAssumption == \A r \in Record : r.lenient \in BOOLEAN

VARIABLES
  made,         \* objects 1 .. made exist
  records,      \* records[z]: the object's own _records
  root_ns,      \* root_ns[z]: its own _root_ns, {} for None
  origin,       \* origin[z]: its _origin, NoOrigin for None
  ignore_adds,  \* ignore_adds[z]: its ignore_subzone_adds
  outcome       \* how the last call ended

vars == <<made, records, root_ns, origin, ignore_adds, outcome>>

Ids == 1 .. MaxZones
Zones == 1 .. made
NoOrigin == 0

Outcomes == {"ok", "ignored", "subzone", "duplicate"}

-----------------------------------------------------------------------------
(* Reading through the copies *)

(* The object whose own records each object shows, given the objects' origins: *)
(* itself once hydrated, otherwise the one that its origin shows.              *)
HolderIn(orig) ==
  LET holder[z \in Ids] == IF orig[z] = NoOrigin THEN z ELSE holder[orig[z]]
  IN  holder

Holder(z) == HolderIn(origin)[z]

(* the properties records and root_ns *)
Records(z) == records[Holder(z)]
RootNs(z) == root_ns[Holder(z)]

-----------------------------------------------------------------------------
(* The calls *)

(* A write on z is ruled out while a copy still reads z's records. *)
Writable(z) == SharedWrites \/ \A c \in Zones : origin[c] # z

(* Mistake: the copy's own _root_ns, which is None, is kept. *)
OwnRootNsKept(z) == root_ns[z]

(* hydrate() adds the origin's records one at a time, so that _root_ns is   *)
(* rebuilt from them and not taken over from the origin.                    *)
OwnRecords(z) == Records(z)
OwnRootNs(z) ==
  IF origin[z] = NoOrigin THEN root_ns[z] ELSE RootNsIn(Records(z))

(* Mistake: a write that does not hydrate goes to the shared records. *)
StoreShared(z, contents, root) ==
  /\ records' = [records EXCEPT ![Holder(z)] = contents]
  /\ root_ns' = [root_ns EXCEPT ![Holder(z)] = root]
  /\ UNCHANGED <<made, origin, ignore_adds>>

(* the object after a call that leaves it hydrated with these contents *)
Store(z, contents, root) ==
  /\ records' = [records EXCEPT ![z] = contents]
  /\ root_ns' = [root_ns EXCEPT ![z] = root]
  /\ origin' = [origin EXCEPT ![z] = NoOrigin]
  /\ UNCHANGED <<made, ignore_adds>>

(* The record belongs to a configured sub-zone: at the cut only the NS and  *)
(* DS of the delegation are the parent's, below it nothing is.              *)
InSubZone ==
  {r \in Record :
     IF r.name \in SubZones
       THEN r.type \notin {"NS", "DS"}
       ELSE \E s \in SubZones : IsUnder(r.name, s)}

Barred(r, lenient) == r \in InSubZone /\ ~lenient /\ ~r.lenient

(* What add_record starts from once the sub-zone tests are passed. *)
AddTo(z, r, replace) ==
  IF replace THEN Discard(OwnRecords(z), r) ELSE OwnRecords(z)

(* Mistake: the old record is discarded before the sub-zone tests. *)
AddBarredLate(z, r, lenient) ==
  /\ Barred(r, lenient)
  /\ Store(z, Discard(OwnRecords(z), r), OwnRootNs(z))
  /\ outcome' = IF ignore_adds[z] THEN "ignored" ELSE "subzone"

AddBarred(z, r, lenient) ==
  /\ Barred(r, lenient)
  /\ Store(z, OwnRecords(z), OwnRootNs(z))
  /\ outcome' = IF ignore_adds[z] THEN "ignored" ELSE "subzone"

AddDuplicate(z, r, replace, lenient) ==
  /\ ~Barred(r, lenient)
  /\ HasSame(AddTo(z, r, replace), r)
  /\ Store(z, AddTo(z, r, replace), OwnRootNs(z))
  /\ outcome' = "duplicate"

AddNew(z, r, replace, lenient) ==
  /\ ~Barred(r, lenient)
  /\ ~HasSame(AddTo(z, r, replace), r)
  /\ Store(z, AddTo(z, r, replace) \cup {r},
           IF IsRootNs(r) THEN {r} ELSE OwnRootNs(z))
  /\ outcome' = "ok"

AddRecord(z, r, replace, lenient) ==
  /\ Writable(z)
  /\ \/ AddBarred(z, r, lenient)
     \/ AddDuplicate(z, r, replace, lenient)
     \/ AddNew(z, r, replace, lenient)

RemoveRecord(z, r) ==
  /\ Writable(z)
  /\ Store(z, Discard(OwnRecords(z), r),
           IF IsRootNs(r) THEN {} ELSE OwnRootNs(z))
  /\ outcome' = "ok"

(* hydrate() called by itself, and not from within another call *)
Hydrate(z) ==
  /\ origin[z] # NoOrigin
  /\ Store(z, OwnRecords(z), OwnRootNs(z))
  /\ outcome' = "ok"

Copy(z) ==
  /\ made < MaxZones
  /\ made' = made + 1
  /\ records' = [records EXCEPT ![made + 1] = {}]
  /\ root_ns' = [root_ns EXCEPT ![made + 1] = {}]
  /\ origin' = [origin EXCEPT ![made + 1] = z]
  /\ ignore_adds' = [ignore_adds EXCEPT ![made + 1] = ignore_adds[z]]
  /\ outcome' = "ok"

-----------------------------------------------------------------------------
Init ==
  /\ made = 1
  /\ records = [z \in Ids |-> {}]
  /\ root_ns = [z \in Ids |-> {}]
  /\ origin = [z \in Ids |-> NoOrigin]
  /\ \E ignore \in BOOLEAN : ignore_adds = [z \in Ids |-> ignore /\ z = 1]
  /\ outcome = "ok"

Next ==
  \E z \in Zones :
     \/ \E r \in Record :
           \/ \E replace, lenient \in BOOLEAN : AddRecord(z, r, replace, lenient)
           \/ RemoveRecord(z, r)
     \/ Hydrate(z)
     \/ Copy(z)

Spec == Init /\ [][Next]_vars

-----------------------------------------------------------------------------
(* Properties *)

(* Every variable has the shape of the code's attribute, and an object's    *)
(* origin is an object made before it.                                      *)
TypeOK ==
  /\ made \in Ids
  /\ records \in [Ids -> SUBSET Record]
  /\ root_ns \in [Ids -> SUBSET Record]
  /\ origin \in [Ids -> {NoOrigin} \cup Ids]
  /\ ignore_adds \in [Ids -> BOOLEAN]
  /\ outcome \in Outcomes
  /\ \A z \in Ids : origin[z] # NoOrigin => z \in Zones /\ origin[z] < z

(* What a hydrated object holds itself: the inductive core of the next two. *)
OwnStoreSound ==
  \A z \in Zones : origin[z] = NoOrigin =>
     root_ns[z] = RootNsIn(records[z]) /\ IsKeyed(records[z])

(* The cached root_ns that providers and plans look at is the apex NS among *)
(* the records the object shows, whatever adds, replacements, removals and  *)
(* hydrations came before, on the object and on those it was copied from.   *)
RootNsAgrees == \A z \in Zones : RootNs(z) = RootNsIn(Records(z))

(* An object never shows two records of one name and type: `changes` pairs  *)
(* records up by that key and would drop one of them.                       *)
ShowsKeyed == \A z \in Zones : IsKeyed(Records(z))

(* A call that is refused, with an exception or silently, takes nothing     *)
(* away: every object still shows the records it showed.                    *)
RefusalKeepsRecords ==
  [][outcome' # "ok" => \A z \in Zones : Records(z)' = Records(z)]_vars

(* What the copies promise: each behaves as a snapshot taken when it was    *)
(* made (ZoneSnapshots), though the records are shared until a write.       *)
Shown == [z \in Ids |-> IF z \in Zones THEN Records(z) ELSE {}]
Snapshots == INSTANCE ZoneSnapshots WITH view <- Shown, Foreign <- InSubZone
CopiesAreSnapshots == Snapshots!Spec
=============================================================================
