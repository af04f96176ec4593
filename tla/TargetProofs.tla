--------------------------- MODULE TargetProofs ---------------------------
(***************************************************************************)
(* Proofs about Target.  For a provider with a call for each change the    *)
(* inductive core is RemainingIsReplan: the changes still to be made are   *)
(* what a plan made now would hold, so that what is known of a plan is     *)
(* known of what is left of it, at every point of an apply.  What is lost  *)
(* without --force, and that a zone written whole settles, comes last.     *)
(***************************************************************************)
EXTENDS Target, FiniteSetTheorems, TLAPS

-----------------------------------------------------------------------------
(* The changes between two zones *)

(* Two changes of one plan are of different records. *)
LEMMA ChangesKeyed ==
  ASSUME NEW E, NEW D, IsKeyed(E), IsKeyed(D),
         NEW c \in ZoneChanges(E, D), NEW d \in ZoneChanges(E, D),
         SameRecord(c.record, d.record)
  PROVE  c = d
BY DEF ZoneChanges, Deleted, Updated, Created, Delete, Update, Create, IsKeyed,
       HasSame, SameRecord

LEMMA ApplyKeyed ==
  ASSUME NEW E, IsKeyed(E), NEW c
  PROVE  IsKeyed(ApplyChange(E, c))
BY DEF ApplyChange, Discard, WithRecord, IsKeyed, SameRecord

(* After a deletion the other changes are left, and nothing else. *)
LEMMA DeleteRemaining ==
  ASSUME NEW E, NEW D, IsKeyed(E), IsKeyed(D), NEW r \in Deleted(E, D)
  PROVE  ZoneChanges(Discard(E, r), D) = ZoneChanges(E, D) \ {Delete(r)}
<1> DEFINE F == Discard(E, r)
<1>1. \A s \in D : ~SameRecord(r, s)
  BY DEF Deleted, HasSame, SameRecord
<1>2. Deleted(F, D) = Deleted(E, D) \ {r}
  BY DEF Deleted, Discard, IsKeyed, SameRecord
<1>3. \A s \in D : HasSame(F, s) <=> HasSame(E, s)
  BY <1>1 DEF Discard, HasSame, SameRecord
<1>4. Created(F, D) = Created(E, D)
  BY <1>3 DEF Created
<1>5. Updated(F, D) = Updated(E, D)
  BY <1>1 DEF Updated, Discard, SameRecord
<1> QED
  BY <1>2, <1>4, <1>5 DEF ZoneChanges, Delete, Update, Create

(* The same after an update, the other version being equal for the target... *)
LEMMA UpdateRemaining ==
  ASSUME NEW E, NEW D, IsKeyed(E), IsKeyed(D), NEW r \in Updated(E, D)
  PROVE  ZoneChanges(WithRecord(E, r), D) = ZoneChanges(E, D) \ {Update(r)}
<1> DEFINE F == WithRecord(E, r)
<1>1. PICK old \in E : SameRecord(old, r)
  BY DEF Updated
<1>2. r \in D
  BY DEF Updated
<1>3. \A s : HasSame(F, s) <=> HasSame(E, s)
  BY <1>1 DEF WithRecord, Discard, HasSame, SameRecord
<1>4. \A s \in F : ~SameRecord(s, r) => s \in E
  BY DEF WithRecord, Discard, SameRecord
<1>5. \A s \in E : ~SameRecord(s, r) => s \in F
  BY DEF WithRecord, Discard, SameRecord
<1>6. \A s \in F : SameRecord(s, r) => s = r
  BY DEF WithRecord, Discard, SameRecord
<1>7. Deleted(F, D) = Deleted(E, D)
  <2>1. ASSUME NEW s, SameRecord(s, r)  PROVE HasSame(D, s)
    BY <1>2, <2>1 DEF HasSame, SameRecord
  <2> QED
    BY <1>4, <1>5, <2>1 DEF Deleted
<1>8. Created(F, D) = Created(E, D)
  BY <1>3 DEF Created
<1>9. Updated(F, D) = Updated(E, D) \ {r}
  <2>1. r \notin Updated(F, D)
    BY <1>6 DEF Updated, Differs
  <2>2. ASSUME NEW s \in D, s # r  PROVE s \in Updated(F, D) <=> s \in Updated(E, D)
    <3>1. ~SameRecord(s, r)
      BY <1>2, <2>2 DEF IsKeyed
    <3>2. \A t : SameRecord(t, s) => ~SameRecord(t, r)
      BY <3>1 DEF SameRecord
    <3> QED
      BY <1>4, <1>5, <3>2 DEF Updated
  <2> QED
    BY <2>1, <2>2 DEF Updated
<1> QED
  BY <1>7, <1>8, <1>9 DEF ZoneChanges, Delete, Update, Create

(* ... and after a creation. *)
LEMMA CreateRemaining ==
  ASSUME NEW E, NEW D, IsKeyed(E), IsKeyed(D), NEW r \in Created(E, D)
  PROVE  ZoneChanges(WithRecord(E, r), D) = ZoneChanges(E, D) \ {Create(r)}
<1> DEFINE F == WithRecord(E, r)
<1>1. r \in D /\ ~HasSame(E, r)
  BY DEF Created
<1>2. F = E \cup {r}
  BY <1>1 DEF WithRecord, Discard, HasSame
<1>3. Deleted(F, D) = Deleted(E, D)
  BY <1>1, <1>2 DEF Deleted, HasSame, SameRecord
<1>4. Updated(F, D) = Updated(E, D)
  BY <1>1, <1>2 DEF Updated, HasSame, IsKeyed, SameRecord, Differs
<1>5. Created(F, D) = Created(E, D) \ {r}
  BY <1>1, <1>2 DEF Created, HasSame, IsKeyed, SameRecord
<1> QED
  BY <1>3, <1>4, <1>5 DEF ZoneChanges, Delete, Update, Create

(* Making one change of a plan leaves the others to be made. *)
LEMMA ApplyRemaining ==
  ASSUME NEW E, NEW D, IsKeyed(E), IsKeyed(D), NEW c \in ZoneChanges(E, D)
  PROVE  ZoneChanges(ApplyChange(E, c), D) = ZoneChanges(E, D) \ {c}
<1>1. CASE \E r \in Deleted(E, D) : c = Delete(r)
  BY <1>1, DeleteRemaining DEF ApplyChange, Delete
<1>2. CASE \E r \in Updated(E, D) : c = Update(r)
  BY <1>2, UpdateRemaining DEF ApplyChange, Update
<1>3. CASE \E r \in Created(E, D) : c = Create(r)
  BY <1>3, CreateRemaining DEF ApplyChange, Create
<1> QED
  BY <1>1, <1>2, <1>3 DEF ZoneChanges

-----------------------------------------------------------------------------
(* What planning does to the two zones *)

LEMMA DesiredProcessed ==
  ASSUME NEW source \in SourceZones
  PROVE  LET D == ProcessDesired(source)
         IN  /\ D \subseteq Record /\ IsKeyed(D) /\ CnamesAlone(D)
             /\ \A d \in D : Supports(d)
             /\ ~SupportsRootNs => RootNsIn(D) = {}
<1> DEFINE D == ProcessDesired(source)
<1>1. source \subseteq Record /\ IsKeyed(source) /\ CnamesAlone(source)
  BY SourceZonesAssumption
<1>2. \A d \in D : \E r \in source :
        /\ d = Fitted(r) /\ d \in Record /\ SameRecord(d, r)
        /\ Supports(r) /\ (IsRootNs(r) => SupportsRootNs)
  BY <1>1, FittedAssumption DEF ProcessDesired
<1>3. D \subseteq Record
  BY <1>2
<1>4. IsKeyed(D)
  BY <1>1, <1>2 DEF IsKeyed, SameRecord
<1>5. CnamesAlone(D)
  <2>1. SUFFICES ASSUME NEW d \in D, NEW e \in D, d.type = "CNAME", e.name = d.name
                 PROVE  e.type = "CNAME"
    BY DEF CnamesAlone
  <2>2. PICK r \in source, s \in source : SameRecord(d, r) /\ SameRecord(e, s)
    BY <1>2
  <2> QED
    BY <1>1, <2>1, <2>2 DEF CnamesAlone, SameRecord
<1>6. ~SupportsRootNs => RootNsIn(D) = {}
  BY <1>2 DEF RootNsIn, IsRootNs, SameRecord
<1>7. \A d \in D : Supports(d)
  BY <1>2 DEF Supports, SameRecord
<1> QED
  BY <1>3, <1>4, <1>5, <1>6, <1>7

(* No plan removes a root NS record. *)
LEMMA NoRootNsDelete ==
  ASSUME NEW E, NEW D, NEW r \in Deleted(ProcessExisting(E, D), D)
  PROVE  ~IsRootNs(r)
BY DEF ProcessExisting, Deleted, HasSame, SameRecord, RootNsIn, IsRootNs

(* Making a change of a plan, the root NS record being ignored or not. *)
LEMMA NextRemaining ==
  ASSUME NEW E, NEW D, IsKeyed(E), IsKeyed(D),
         ~SupportsRootNs => RootNsIn(D) = {},
         NEW c \in ZoneChanges(ProcessExisting(E, D), D)
  PROVE  ZoneChanges(ProcessExisting(ApplyChange(E, c), D), D)
           = ZoneChanges(ProcessExisting(E, D), D) \ {c}
<1> DEFINE P == ProcessExisting(E, D)
<1>1. IsKeyed(P)
  BY DEF ProcessExisting, IsKeyed
<1>2. ZoneChanges(ApplyChange(P, c), D) = ZoneChanges(P, D) \ {c}
  BY <1>1, ApplyRemaining
<1>3. ProcessExisting(ApplyChange(E, c), D) = ApplyChange(P, c)
  <2>1. CASE SupportsRootNs /\ RootNsIn(D) # {}
    BY <2>1 DEF ProcessExisting
  <2>2. CASE ~(SupportsRootNs /\ RootNsIn(D) # {})
    <3>1. RootNsIn(D) = {}
      BY <2>2
    <3>2. ~IsRootNs(c.record)
      <4>1. CASE \E r \in Deleted(P, D) : c = Delete(r)
        BY <4>1, NoRootNsDelete DEF Delete
      <4>2. CASE \E r \in Updated(P, D) \cup Created(P, D) : c.record = r
        BY <3>1, <4>2 DEF Updated, Created, RootNsIn
      <4> QED
        BY <4>1, <4>2 DEF ZoneChanges, Update, Create
    <3>3. \A zone : ProcessExisting(zone, D) = {r \in zone : ~IsRootNs(r)}
      BY <2>2 DEF ProcessExisting, RootNsIn
    <3> QED
      BY <3>2, <3>3 DEF ApplyChange, WithRecord, Discard
  <2> QED
    BY <2>1, <2>2
<1> QED
  BY <1>2, <1>3

-----------------------------------------------------------------------------
(* Types, for either kind of provider *)

(* What a run still has to do is part of what it planned. *)
PlanSound == pc # "idle" => todo \subseteq ZoneChanges(existing, desired)

LEMMA ChangesOfRecords ==
  ASSUME NEW E, NEW D, E \subseteq Record, D \subseteq Record
  PROVE  ZoneChanges(E, D) \subseteq
           {Delete(r) : r \in Record} \cup {Create(r) : r \in Record}
             \cup {Update(r) : r \in Record}
BY DEF ZoneChanges, Deleted, Updated, Created

LEMMA EndTyped ==
  ASSUME TypeOK, NEW why \in Results, End(why),
         live' \subseteq Record, IsKeyed(live'), exists' \in BOOLEAN
  PROVE  TypeOK' /\ PlanSound'
BY DEF End, TypeOK, PlanSound, IsKeyed

LEMMA TypeStep == TypeOK /\ PlanSound /\ [Next]_vars => TypeOK' /\ PlanSound'
<1> SUFFICES ASSUME TypeOK, PlanSound, [Next]_vars  PROVE TypeOK' /\ PlanSound'
  OBVIOUS
<1>1. ASSUME NEW source \in SourceZones, NEW forced \in BOOLEAN, MakePlan(source, forced)
      PROVE  TypeOK' /\ PlanSound'
  <2> DEFINE D == ProcessDesired(source)
             E == ProcessExisting(live, D)
  <2>1. live' = live /\ exists' = exists
    BY <1>1 DEF MakePlan
  <2>2. CASE End("unsupported") \/ End("no changes")
    BY <2>1, <2>2, EndTyped DEF TypeOK, Results
  <2>3. CASE /\ pc' = "planned" /\ desired' = D /\ existing' = E
             /\ todo' = ZoneChanges(E, D) /\ force' = forced /\ result' = result
    <3>1. D \subseteq Record /\ IsKeyed(D)
      BY DesiredProcessed
    <3>2. E \subseteq Record /\ IsKeyed(E)
      BY DEF ProcessExisting, TypeOK, IsKeyed
    <3> QED
      BY <2>1, <2>3, <3>1, <3>2, ChangesOfRecords DEF TypeOK, PlanSound
  <2> QED
    BY <1>1, <2>2, <2>3 DEF MakePlan
<1>2. CASE Refuse \/ StopDry
  BY <1>2, EndTyped DEF Refuse, StopDry, TypeOK, Results
<1>3. CASE StartApply
  BY <1>3 DEF StartApply, TypeOK, PlanSound
<1>4. CASE ApplyNext
  <2>1. PICK c \in todo :
          /\ live' = ApplyChange(live, c)
          /\ \/ End("applied")
             \/ /\ todo' = todo \ {c}
                /\ UNCHANGED <<pc, desired, existing, force, result>>
    BY <1>4 DEF ApplyNext, Foremost
  <2>2. exists' = TRUE
    BY <1>4 DEF ApplyNext
  <2>3. live' \subseteq Record /\ IsKeyed(live')
    <3>1. c.record \in Record
      BY DEF TypeOK, Delete, Create, Update
    <3>2. ApplyChange(live, c) \subseteq Record
      BY <3>1 DEF ApplyChange, Discard, WithRecord, TypeOK
    <3> QED
      BY <2>1, <3>2, ApplyKeyed DEF TypeOK
  <2> QED
    BY <2>1, <2>2, <2>3, EndTyped DEF TypeOK, PlanSound, Results
<1>5. CASE RewriteZone
  <2>1. live' = ApplyChanges(existing, todo) /\ End("applied") /\ exists' = TRUE
    BY <1>5 DEF RewriteZone
  <2>2. \A c \in todo : c.record \in Record
    BY DEF TypeOK, Delete, Create, Update
  <2>3. live' \subseteq Record
    BY <2>1, <2>2 DEF ApplyChanges, TypeOK
  <2>4. IsKeyed(live')
    <3>1. \A c, d \in todo : SameRecord(c.record, d.record) => c = d
      BY <1>5, ChangesKeyed DEF RewriteZone, PlanSound, TypeOK
    <3>2. \A r \in live' :
            \/ r \in existing /\ \A c \in todo : ~SameRecord(r, c.record)
            \/ \E c \in todo : r = c.record
      BY <2>1 DEF ApplyChanges
    <3>3. IsKeyed(existing)
      BY DEF TypeOK
    <3> QED
      BY <3>1, <3>2, <3>3 DEF IsKeyed, SameRecord
  <2> QED
    BY <2>1, <2>3, <2>4, EndTyped DEF Results
<1>6. CASE FailApply
  <2>1. End("failed") /\ exists' \in BOOLEAN /\ "failed" \in Results
    BY <1>6 DEF FailApply, TypeOK, Results
  <2>2. live' \subseteq Record /\ IsKeyed(live')
    <3>1. CASE live' = live
      BY <3>1 DEF TypeOK
    <3>2. CASE live' \in Torn(live, ApplyChanges(existing, todo))
      <4>1. \A c \in todo : c.record \in Record
        BY DEF TypeOK, Delete, Create, Update
      <4>2. live \subseteq Record /\ ApplyChanges(existing, todo) \subseteq Record
        BY <4>1 DEF ApplyChanges, TypeOK
      <4> QED
        BY <3>2, <4>2 DEF Torn
    <3> QED
      BY <1>6, <3>1, <3>2 DEF FailApply
  <2> QED
    BY <2>1, <2>2, EndTyped
<1>7. CASE UNCHANGED vars
  BY <1>7 DEF vars, TypeOK, PlanSound
<1> QED
  BY <1>1, <1>2, <1>3, <1>4, <1>5, <1>6, <1>7 DEF Next

LEMMA TypeInit == Init => TypeOK /\ PlanSound
BY LiveZonesAssumption DEF Init, TypeOK, PlanSound, Results, IsKeyed

(* Every zone that a run holds or leaves at the target has at most one      *)
(* record of each name and type, and changes only ever are of such records. *)
THEOREM TypeCorrect == Spec => []TypeOK
<1>1. Init => TypeOK /\ PlanSound
  BY TypeInit
<1>2. TypeOK /\ PlanSound /\ [Next]_vars => TypeOK' /\ PlanSound'
  BY TypeStep
<1> QED
  BY <1>1, <1>2, PTL DEF Spec

-----------------------------------------------------------------------------
(* A provider with a call for each change *)

DesiredSound ==
  pc # "idle" =>
    /\ CnamesAlone(desired)
    /\ \A d \in desired : Supports(d)
    /\ ~SupportsRootNs => RootNsIn(desired) = {}

RecordsOnlyInZone == live # {} => exists

(* An unforced run that finds a root NS record has no change of it to make. *)
RootNsSafe ==
  pc = "applying" /\ ~force /\ RootNsIn(live) # {}
    => \A c \in todo : ~IsRootNs(c.record)

IInv ==
  /\ TypeOK
  /\ PlanSound
  /\ DesiredSound
  /\ RecordsOnlyInZone
  /\ RootNsSafe
  /\ CnameStandsAlone
  /\ RemainingIsReplan

(* The step of the apply: making one of the foremost changes of the plan.   *)
LEMMA ChangeMade ==
  ASSUME IInv, pc = "applying", NEW c \in todo
  PROVE  Replanned(ApplyChange(live, c)) = todo \ {c}
BY NextRemaining DEF IInv, TypeOK, DesiredSound, RemainingIsReplan, Replanned

LEMMA RootNsNotDeleted ==
  ASSUME IInv, pc = "applying", NEW c \in todo, RootNsIn(live) # {}
  PROVE  RootNsIn(ApplyChange(live, c)) # {}
<1>1. c \in ZoneChanges(ProcessExisting(live, desired), desired)
  BY DEF IInv, RemainingIsReplan, Replanned
<1>2. c.kind = "Delete" => ~IsRootNs(c.record)
  BY <1>1, NoRootNsDelete DEF ZoneChanges, Delete, Update, Create
<1>3. PICK r \in live : IsRootNs(r)
  BY DEF RootNsIn
<1>4. CASE c.kind = "Delete"
  BY <1>2, <1>3, <1>4 DEF ApplyChange, Discard, RootNsIn, SameRecord, IsRootNs
<1>5. CASE c.kind # "Delete"
  BY <1>3, <1>5 DEF ApplyChange, WithRecord, Discard, RootNsIn, SameRecord, IsRootNs
<1> QED
  BY <1>4, <1>5

(* Deletes come before creates, so that a name is free for its new records. *)
LEMMA CnameChange ==
  ASSUME IInv, pc = "applying", NEW c \in Foremost(todo)
  PROVE  CnamesAlone({r \in ApplyChange(live, c) : Managed(r)})
<1> DEFINE P == ProcessExisting(live, desired)
           Own(zone) == {r \in zone : Managed(r)}
<1>1. c \in ZoneChanges(P, desired)
  BY DEF IInv, RemainingIsReplan, Replanned, Foremost
<1>2. CnamesAlone(Own(live)) /\ CnamesAlone(desired)
  BY DEF IInv, CnameStandsAlone, DesiredSound
<1>3. CASE c.kind = "Delete"
  BY <1>2, <1>3 DEF ApplyChange, Discard, CnamesAlone
<1>4. CASE c.kind # "Delete"
  <2> DEFINE n == c.record
  <2>1. \A d \in todo : d.kind # "Delete"
    <3>1. c.kind \in {"Create", "Update"} /\ \A d \in todo : d.kind \in {"Delete", "Create", "Update"}
      BY <1>4 DEF IInv, TypeOK, Delete, Create, Update, Foremost
    <3> QED
      BY <3>1 DEF Foremost, ClassOrdering
  <2>2. Deleted(P, desired) = {}
    <3>1. \A r \in Deleted(P, desired) : Delete(r) \in todo
      BY DEF IInv, RemainingIsReplan, Replanned, ZoneChanges
    <3> QED
      BY <2>1, <3>1 DEF Delete
  <2>3. n \in desired /\ desired \subseteq Record
    BY <1>1, <1>4 DEF ZoneChanges, Updated, Created, Delete, Update, Create, IInv, TypeOK
  <2>4. ApplyChange(live, c) = WithRecord(live, n)
    BY <1>4 DEF ApplyChange
  <2>5. ASSUME NEW s \in Own(live), s.name = n.name, s.type = "CNAME" \/ n.type = "CNAME"
        PROVE  s.type = n.type
    <3>1. CASE HasSame(desired, s)
      BY <1>2, <2>3, <2>5, <3>1 DEF HasSame, SameRecord, CnamesAlone
    <3>2. CASE ~HasSame(desired, s)
      <4>1. s \notin P
        BY <2>2, <2>5, <3>2 DEF Deleted, Managed
      <4>2. IsRootNs(s)
        BY <4>1 DEF ProcessExisting, RootNsIn
      <4>3. n.type = "CNAME" /\ n.name = Apex
        BY <2>5, <4>2 DEF IsRootNs
      <4> QED
        BY <2>3, <4>3, CnameAssumption
    <3> QED
      BY <3>1, <3>2
  <2>6. \A s \in Own(WithRecord(live, n)) : s \in Own(live) \/ s = n
    BY DEF WithRecord, Discard
  <2> QED
    BY <1>2, <2>4, <2>5, <2>6 DEF CnamesAlone
<1> QED
  BY <1>3, <1>4

LEMMA EndsWell ==
  ASSUME NEW why, End(why)
  PROVE  DesiredSound' /\ RootNsSafe' /\ RemainingIsReplan'
BY DEF End, DesiredSound, RootNsSafe, RemainingIsReplan

LEMMA IInvStep ==
  ASSUME ~RewritesZone
  PROVE  IInv /\ [Next]_vars => IInv'
<1> SUFFICES ASSUME IInv, [Next]_vars  PROVE IInv'
  OBVIOUS
<1>0. TypeOK' /\ PlanSound'
  BY TypeStep DEF IInv
<1>1. ASSUME NEW source \in SourceZones, NEW forced \in BOOLEAN, MakePlan(source, forced)
      PROVE  IInv'
  <2> DEFINE D == ProcessDesired(source)
             E == ProcessExisting(live, D)
  <2>1. live' = live /\ exists' = exists
    BY <1>1 DEF MakePlan
  <2>2. RecordsOnlyInZone' /\ CnameStandsAlone'
    BY <2>1 DEF IInv, RecordsOnlyInZone, CnameStandsAlone
  <2>3. CASE End("unsupported") \/ End("no changes")
    BY <1>0, <2>2, <2>3, EndsWell DEF IInv
  <2>4. CASE /\ pc' = "planned" /\ desired' = D /\ todo' = ZoneChanges(E, D)
    BY <1>0, <2>1, <2>2, <2>4, DesiredProcessed
       DEF IInv, DesiredSound, RootNsSafe, RemainingIsReplan, Replanned
  <2> QED
    BY <1>1, <2>3, <2>4 DEF MakePlan
<1>2. CASE Refuse \/ StopDry
  BY <1>0, <1>2, EndsWell DEF Refuse, StopDry, IInv, RecordsOnlyInZone, CnameStandsAlone
<1>3. CASE StartApply
  <2>1. /\ pc = "planned" /\ pc' = "applying"
        /\ force \/ ~Unsafe(existing, todo)
        /\ UNCHANGED <<live, exists, desired, existing, todo, force>>
    BY <1>3 DEF StartApply
  <2>2. RootNsSafe'
    BY <2>1 DEF IInv, RootNsSafe, RecordsOnlyInZone, Unsafe, RootNsChange, RootNsIn
  <2>3. DesiredSound' /\ RecordsOnlyInZone' /\ CnameStandsAlone' /\ RemainingIsReplan'
    BY <2>1 DEF IInv, DesiredSound, RecordsOnlyInZone, CnameStandsAlone,
                RemainingIsReplan, Replanned
  <2> QED
    BY <1>0, <2>2, <2>3 DEF IInv
<1>4. CASE ApplyNext
  <2>1. PICK c \in Foremost(todo) :
          /\ pc = "applying" /\ exists' = TRUE
          /\ live' = ApplyChange(live, c)
          /\ \/ End("applied")
             \/ /\ todo' = todo \ {c}
                /\ UNCHANGED <<pc, desired, existing, force, result>>
    BY <1>4 DEF ApplyNext
  <2>2. c \in todo
    BY DEF Foremost
  <2>3. RecordsOnlyInZone'
    BY <2>1 DEF RecordsOnlyInZone
  <2>4. CnameStandsAlone'
    BY <2>1, CnameChange DEF CnameStandsAlone
  <2>5. CASE End("applied")
    BY <1>0, <2>3, <2>4, <2>5, EndsWell DEF IInv
  <2>6. CASE /\ todo' = todo \ {c}
             /\ UNCHANGED <<pc, desired, existing, force, result>>
    <3>1. RemainingIsReplan'
      BY <2>1, <2>2, <2>6, ChangeMade DEF RemainingIsReplan, Replanned
    <3>2. DesiredSound'
      BY <2>6 DEF IInv, DesiredSound
    <3>3. RootNsSafe'
      <4>1. CASE RootNsIn(live) # {}
        BY <2>6, <4>1 DEF IInv, RootNsSafe
      <4>2. CASE RootNsIn(live) = {} /\ ~IsRootNs(c.record)
        <5>1. RootNsIn(live') = {}
          BY <2>1, <4>2 DEF ApplyChange, WithRecord, Discard, RootNsIn
        <5> QED
          BY <5>1 DEF RootNsSafe
      <4>3. CASE IsRootNs(c.record)
        <5>1. \A d \in todo : SameRecord(c.record, d.record) => c = d
          <6>1. IsKeyed(ProcessExisting(live, desired)) /\ IsKeyed(desired)
            BY DEF IInv, TypeOK, ProcessExisting, IsKeyed
          <6>2. todo = ZoneChanges(ProcessExisting(live, desired), desired)
            BY <2>1 DEF IInv, RemainingIsReplan, Replanned
          <6> QED
            BY <2>2, <6>1, <6>2, ChangesKeyed
        <5> QED
          BY <2>6, <4>3, <5>1 DEF RootNsSafe, IsRootNs, SameRecord
      <4> QED
        BY <4>1, <4>2, <4>3
    <3> QED
      BY <1>0, <2>3, <2>4, <3>1, <3>2, <3>3 DEF IInv
  <2> QED
    BY <2>1, <2>5, <2>6
<1>5. CASE RewriteZone
  BY <1>5 DEF RewriteZone
<1>6. CASE FailApply
  <2>1. End("failed") /\ live' = live /\ (exists' = exists \/ exists' = TRUE)
    BY <1>6 DEF FailApply
  <2>2. RecordsOnlyInZone' /\ CnameStandsAlone'
    BY <2>1 DEF IInv, RecordsOnlyInZone, CnameStandsAlone
  <2> QED
    BY <1>0, <2>1, <2>2, EndsWell DEF IInv
<1>7. CASE UNCHANGED vars
  BY <1>0, <1>7 DEF vars, IInv, DesiredSound, RecordsOnlyInZone, RootNsSafe,
                    CnameStandsAlone, RemainingIsReplan, Replanned
<1> QED
  BY <1>1, <1>2, <1>3, <1>4, <1>5, <1>6, <1>7 DEF Next

LEMMA IInvInit == Init => IInv
BY TypeInit, LiveZonesAssumption
   DEF Init, IInv, DesiredSound, RecordsOnlyInZone, RootNsSafe, CnameStandsAlone,
       RemainingIsReplan

LEMMA Invariance ==
  ASSUME ~RewritesZone
  PROVE  Spec => []IInv
<1>1. IInv /\ [Next]_vars => IInv'
  BY IInvStep
<1> QED
  BY <1>1, IInvInit, PTL DEF Spec

(* Whenever a provider fails between two changes, planning again finds      *)
(* exactly the changes that were left.                                      *)
THEOREM RunsResume ==
  ASSUME ~RewritesZone
  PROVE  Spec => []RemainingIsReplan
<1>1. IInv => RemainingIsReplan
  BY DEF IInv
<1> QED
  BY <1>1, Invariance, PTL

(* No name ever has a CNAME of the target's beside another of its records.  *)
THEOREM CnamesCorrect ==
  ASSUME ~RewritesZone
  PROVE  Spec => []CnameStandsAlone
<1>1. IInv => CnameStandsAlone
  BY DEF IInv
<1> QED
  BY <1>1, Invariance, PTL

(* A run that ends well leaves nothing for the next one to do. *)
THEOREM RunsSettle ==
  ASSUME ~RewritesZone
  PROVE  Spec => SettledInSync
<1>1. IInv /\ [Next]_vars =>
        [pc = "applying" /\ result' = "applied" /\ pc' = "idle" => Replanned(live') = {}]_vars
  <2> SUFFICES ASSUME IInv, Next, pc = "applying", result' = "applied", pc' = "idle"
               PROVE  Replanned(live') = {}
    BY DEF vars
  <2>1. CASE ApplyNext
    <3>1. PICK c \in todo : live' = ApplyChange(live, c) /\ todo = {c}
      BY <2>1 DEF ApplyNext, Foremost
    <3> QED
      BY <3>1, ChangeMade
  <2>2. ~FailApply
    BY DEF FailApply, End
  <2> QED
    BY <2>1, <2>2 DEF Next, MakePlan, Refuse, StopDry, StartApply, RewriteZone
<1> QED
  BY <1>1, Invariance, PTL DEF Spec, SettledInSync

(* What a step can do to the records of the target. *)
LEMMA LiveStep ==
  ASSUME ~RewritesZone, [Next]_vars
  PROVE  \/ live' = live
         \/ pc = "applying" /\ \E c \in todo : live' = ApplyChange(live, c)
BY DEF Next, MakePlan, Refuse, StopDry, StartApply, ApplyNext, Foremost, RewriteZone,
       FailApply, vars

(* A root NS record that is there is changed by a forced run only. *)
THEOREM RootNsGuarded ==
  ASSUME ~RewritesZone
  PROVE  Spec => RootNsNeedsForce
<1>1. IInv /\ [Next]_vars =>
        [pc = "applying" /\ ~force /\ RootNsIn(live) # {}
           => RootNsIn(live') = RootNsIn(live)]_vars
  <2> SUFFICES ASSUME IInv, [Next]_vars, pc = "applying", ~force, RootNsIn(live) # {}
               PROVE  RootNsIn(live') = RootNsIn(live)
    OBVIOUS
  <2>1. ASSUME NEW c \in todo, live' = ApplyChange(live, c)
        PROVE  RootNsIn(live') = RootNsIn(live)
    <3>1. ~IsRootNs(c.record)
      BY DEF IInv, RootNsSafe
    <3> QED
      BY <2>1, <3>1 DEF ApplyChange, WithRecord, Discard, RootNsIn, SameRecord, IsRootNs
  <2> QED
    BY <2>1, LiveStep
<1> QED
  BY <1>1, Invariance, PTL DEF Spec, RootNsNeedsForce

(* No run removes the root NS record, forced or not. *)
THEOREM RootNsKept ==
  ASSUME ~RewritesZone
  PROVE  Spec => RootNsStays
<1>1. IInv /\ [Next]_vars => [RootNsIn(live) # {} => RootNsIn(live') # {}]_vars
  BY LiveStep, RootNsNotDeleted
<1> QED
  BY <1>1, Invariance, PTL DEF Spec, RootNsStays

(* Records that the target is to leave alone are never touched. *)
THEOREM OthersKept ==
  ASSUME ~RewritesZone
  PROVE  Spec => HandsOff
<1>1. IInv /\ [Next]_vars =>
        [pc = "applying" => \A r \in live : LeftAlone(r) => r \in live']_vars
  <2> SUFFICES ASSUME IInv, [Next]_vars, pc = "applying", NEW r \in live, LeftAlone(r)
               PROVE  r \in live'
    OBVIOUS
  <2>1. ASSUME NEW c \in todo  PROVE r \in ApplyChange(live, c)
    <3> DEFINE P == ProcessExisting(live, desired)
    <3>1. r \in P /\ P \subseteq live
      BY DEF ProcessExisting, LeftAlone, RootNsIn
    <3>2. IsKeyed(live) /\ IsKeyed(desired) /\ \A d \in desired : Supports(d)
      BY DEF IInv, TypeOK, DesiredSound
    <3>3. c \in ZoneChanges(P, desired)
      BY DEF IInv, RemainingIsReplan, Replanned
    <3>4. ~SameRecord(r, c.record)
      <4>1. CASE \E q \in Deleted(P, desired) : c = Delete(q)
        BY <3>1, <3>2, <4>1 DEF Deleted, Delete, LeftAlone, HasSame, IsKeyed, SameRecord
      <4>2. CASE \E q \in Updated(P, desired) : c = Update(q)
        BY <3>1, <3>2, <4>2 DEF Updated, Update, LeftAlone, IsKeyed, SameRecord, Supports
      <4>3. CASE \E q \in Created(P, desired) : c = Create(q)
        BY <3>1, <4>3 DEF Created, Create, HasSame
      <4> QED
        BY <3>3, <4>1, <4>2, <4>3 DEF ZoneChanges
    <3> QED
      BY <3>4 DEF ApplyChange, WithRecord, Discard
  <2> QED
    BY <2>1, LiveStep
<1> QED
  BY <1>1, Invariance, PTL DEF Spec, HandsOff

-----------------------------------------------------------------------------
(* What a run has lost is what its plan deletes, and what it has changed is *)
(* what its plan updates, so that the plan's own counts, which were checked *)
(* before the apply, bound both at every point of it.                       *)

Loss(zone) ==
  /\ Gone(zone) \subseteq Deleted(existing, desired)
  /\ \A r \in Changed(zone) : HasSame(Updated(existing, desired), r)

LossInv ==
  /\ IsFiniteSet(live) /\ IsFiniteSet(existing) /\ IsFiniteSet(desired)
  /\ pc = "planned" => Loss(live) /\ todo = ZoneChanges(existing, desired)
  /\ pc = "applying" => Loss(live)
  /\ pc = "applying" /\ ~force
       => ~TooMuchChange(existing, ZoneChanges(existing, desired))

LEMMA AtMost ==
  ASSUME NEW S, NEW T, IsFiniteSet(T), NEW f \in [S -> T],
         \A x, y \in S : f[x] = f[y] => x = y
  PROVE  IsFiniteSet(S) /\ Cardinality(S) <= Cardinality(T)
<1>1. f \in Injection(S, T)
  BY DEF Injection, IsInjective
<1> QED
  BY <1>1, FS_Injection

LEMMA ChangeLoss ==
  ASSUME TypeOK, PlanSound, pc = "applying", Loss(live), NEW c \in todo
  PROVE  Loss(ApplyChange(live, c))
<1>1. IsKeyed(existing) /\ c \in ZoneChanges(existing, desired)
  BY DEF TypeOK, PlanSound
<1>2. CASE \E q \in Deleted(existing, desired) : c = Delete(q)
  <2>1. PICK q \in Deleted(existing, desired) : ApplyChange(live, c) = Discard(live, q)
    BY <1>2 DEF ApplyChange, Delete
  <2>2. \A r \in existing : HasSame(Discard(live, q), r) <=> HasSame(live, r) /\ ~SameRecord(r, q)
    BY DEF Discard, HasSame, SameRecord
  <2>3. \A r \in existing : SameRecord(r, q) => r = q
    BY <1>1 DEF Deleted, IsKeyed
  <2>4. Gone(Discard(live, q)) \subseteq Gone(live) \cup {q}
    BY <2>2, <2>3 DEF Gone
  <2>5. Changed(Discard(live, q)) \subseteq Changed(live)
    BY <2>2 DEF Changed, Discard
  <2> QED
    BY <2>1, <2>4, <2>5 DEF Loss
<1>3. CASE \E d \in Updated(existing, desired) : c = Update(d)
  <2>1. PICK d \in Updated(existing, desired) : ApplyChange(live, c) = WithRecord(live, d)
    BY <1>3 DEF ApplyChange, Update
  <2>2. \A r \in existing : HasSame(live, r) => HasSame(WithRecord(live, d), r)
    BY DEF WithRecord, Discard, HasSame, SameRecord
  <2>3. Gone(WithRecord(live, d)) \subseteq Gone(live)
    BY <2>2 DEF Gone
  <2>4. \A r \in Changed(WithRecord(live, d)) : r \in Changed(live) \/ SameRecord(d, r)
    BY DEF Changed, WithRecord, Discard, HasSame, SameRecord
  <2> QED
    BY <2>1, <2>3, <2>4 DEF Loss, HasSame
<1>4. CASE \E d \in Created(existing, desired) : c = Create(d)
  <2>1. PICK d \in Created(existing, desired) : ApplyChange(live, c) = WithRecord(live, d)
    BY <1>4 DEF ApplyChange, Create
  <2>2. \A r \in existing : ~SameRecord(r, d)
    BY DEF Created, HasSame
  <2>3. \A r \in existing : HasSame(WithRecord(live, d), r) <=> HasSame(live, r)
    BY <2>2 DEF WithRecord, Discard, HasSame, SameRecord
  <2>4. \A r \in existing : r \in WithRecord(live, d) <=> r \in live
    BY <2>2 DEF WithRecord, Discard, SameRecord
  <2> QED
    BY <2>1, <2>3, <2>4 DEF Loss, Gone, Changed
<1> QED
  BY <1>1, <1>2, <1>3, <1>4 DEF ZoneChanges

LEMMA RewriteLoss ==
  ASSUME TypeOK, PlanSound, pc = "applying"
  PROVE  Loss(ApplyChanges(existing, todo))
<1> DEFINE Z == ApplyChanges(existing, todo)
<1>1. IsKeyed(existing) /\ todo \subseteq ZoneChanges(existing, desired)
  BY DEF TypeOK, PlanSound
<1>2. \A c \in todo : \/ \E q \in Deleted(existing, desired) : c = Delete(q)
                      \/ \E d \in Updated(existing, desired) : c = Update(d)
                      \/ \E d \in Created(existing, desired) : c = Create(d)
  BY <1>1 DEF ZoneChanges
<1>3. \A r \in existing : r \notin Z => \E c \in todo : SameRecord(r, c.record)
  BY DEF ApplyChanges
<1>4. \A c \in todo : c.kind # "Delete" => c.record \in Z
  BY DEF ApplyChanges, OfKind
<1>5. \A s \in Z : \/ s \in existing /\ \A c \in todo : ~SameRecord(s, c.record)
                   \/ \E c \in todo : c.kind # "Delete" /\ s = c.record
  BY DEF ApplyChanges, OfKind
<1>6. ASSUME NEW r \in Gone(Z)  PROVE r \in Deleted(existing, desired)
  <2>1. r \in existing /\ ~HasSame(Z, r)
    BY DEF Gone
  <2>2. PICK c \in todo : SameRecord(r, c.record)
    BY <1>3, <2>1 DEF HasSame, SameRecord
  <2>3. c.kind = "Delete"
    BY <1>4, <2>1, <2>2 DEF HasSame, SameRecord
  <2>4. PICK q \in Deleted(existing, desired) : c = Delete(q)
    BY <1>2, <2>3 DEF Update, Create
  <2> QED
    BY <1>1, <2>1, <2>2, <2>4 DEF Deleted, Delete, IsKeyed
<1>7. ASSUME NEW r \in Changed(Z)  PROVE HasSame(Updated(existing, desired), r)
  <2>1. r \in existing /\ r \notin Z
    BY DEF Changed
  <2>2. PICK s \in Z : SameRecord(s, r)
    BY DEF Changed, HasSame
  <2>3. ~(s \in existing /\ \A c \in todo : ~SameRecord(s, c.record))
    BY <1>1, <2>1, <2>2 DEF IsKeyed
  <2>4. PICK c \in todo : c.kind # "Delete" /\ s = c.record
    BY <1>5, <2>3
  <2>5. ~\E d \in Created(existing, desired) : c = Create(d)
    BY <2>1, <2>2, <2>4 DEF Created, Create, HasSame, SameRecord
  <2>6. PICK d \in Updated(existing, desired) : c = Update(d)
    BY <1>2, <2>4, <2>5 DEF Delete
  <2> QED
    BY <2>2, <2>4, <2>6 DEF Update, HasSame
<1> QED
  BY <1>6, <1>7 DEF Loss

LEMMA DesiredFinite ==
  ASSUME NEW source \in SourceZones
  PROVE  IsFiniteSet(ProcessDesired(source))
<1> DEFINE D == ProcessDesired(source)
           f == [d \in D |-> CHOOSE r \in source : Fitted(r) = d]
<1>1. \A d \in D : \E r \in source : Fitted(r) = d
  BY DEF ProcessDesired
<1>2. \A d \in D : f[d] \in source /\ Fitted(f[d]) = d
  BY <1>1
<1>3. f \in [D -> source]
  BY <1>2
<1>4. \A c, d \in D : f[c] = f[d] => c = d
  BY <1>2
<1>5. IsFiniteSet(source)
  BY FiniteAssumption
<1> HIDE DEF f, D
<1>6. IsFiniteSet(D)
  BY <1>3, <1>4, <1>5, AtMost
<1> QED
  BY <1>6 DEF D

LEMMA WrittenFinite ==
  ASSUME PlanSound, LossInv, pc = "applying"
  PROVE  IsFiniteSet(ApplyChanges(existing, todo))
<1>1. \A c \in todo : c \notin OfKind(todo, "Delete") => c.record \in desired
  BY DEF PlanSound, ZoneChanges, Updated, Created, OfKind, Delete, Update, Create
<1>2. ApplyChanges(existing, todo) \in SUBSET (existing \cup desired)
  BY <1>1 DEF ApplyChanges
<1>3. IsFiniteSet(existing \cup desired)
  BY FS_Union DEF LossInv
<1> QED
  BY <1>2, <1>3, FS_Subset

LEMMA AppliedLoss ==
  ASSUME TypeOK, PlanSound, LossInv, pc = "applying", [Next]_vars
  PROVE  /\ IsFiniteSet(live')
         /\ ~StoppedWriting => Loss(live')
<1>1. CASE ApplyNext
  <2>1. PICK c \in todo : live' = ApplyChange(live, c)
    BY <1>1 DEF ApplyNext, Foremost
  <2>2. Loss(live')
    BY <2>1, ChangeLoss
       DEF LossInv
  <2>3. live' \in SUBSET (live \cup {c.record})
    BY <2>1 DEF ApplyChange, WithRecord, Discard
  <2>4. IsFiniteSet(live \cup {c.record})
    BY FS_AddElement DEF LossInv
  <2> QED
    BY <2>2, <2>3, <2>4, FS_Subset
<1>2. CASE RewriteZone
  BY <1>2, WrittenFinite, RewriteLoss DEF RewriteZone
<1>3. CASE FailApply
  <2> DEFINE written == ApplyChanges(existing, todo)
  <2>1. IsFiniteSet(live) /\ Loss(live)
    BY DEF LossInv
  <2>2. CASE live' = live
    BY <2>1, <2>2
  <2>3. result' = "failed"
    BY <1>3 DEF FailApply, End
  <2>4. CASE live' \in Torn(live, written) /\ RewritesZone
    <3>1. IsFiniteSet(live \cup written)
      BY <2>1, WrittenFinite, FS_Union
    <3> HIDE DEF written
    <3>2. PICK r : live' \in SUBSET (live \cup written \cup {r})
      BY <2>4 DEF Torn
    <3>3. IsFiniteSet(live \cup written \cup {r})
      BY <3>1, FS_AddElement
    <3>4. IsFiniteSet(live')
      BY <3>2, <3>3, FS_Subset
    <3>5. StoppedWriting
      BY <2>3, <2>4, ModesAssumption DEF StoppedWriting
    <3> QED
      BY <3>4, <3>5
  <2> QED
    BY <1>3, <2>2, <2>4 DEF FailApply
<1>4. CASE UNCHANGED vars
  BY <1>4 DEF LossInv, vars
<1> QED
  BY <1>1, <1>2, <1>3, <1>4 DEF Next, MakePlan, Refuse, StopDry, StartApply

LEMMA LossStep == TypeOK /\ PlanSound /\ LossInv /\ [Next]_vars => LossInv'
<1> SUFFICES ASSUME TypeOK, PlanSound, LossInv, [Next]_vars  PROVE LossInv'
  OBVIOUS
<1>1. ASSUME NEW why, End(why), IsFiniteSet(live')  PROVE LossInv'
  BY <1>1, FS_EmptySet DEF End, LossInv
<1>2. ASSUME NEW source \in SourceZones, NEW forced \in BOOLEAN, MakePlan(source, forced)
      PROVE  LossInv'
  <2> DEFINE D == ProcessDesired(source)
             E == ProcessExisting(live, D)
  <2>1. live' = live
    BY <1>2 DEF MakePlan
  <2>2. CASE End("unsupported") \/ End("no changes")
    BY <1>1, <2>1, <2>2 DEF LossInv
  <2>3. CASE /\ pc' = "planned" /\ desired' = D /\ existing' = E
             /\ todo' = ZoneChanges(E, D)
    <3>1. E \in SUBSET live
      BY DEF ProcessExisting
    <3>2. IsFiniteSet(E) /\ IsFiniteSet(D)
      BY <3>1, DesiredFinite, FS_Subset DEF LossInv
    <3>3. \A r \in existing' : r \in live' /\ HasSame(live', r)
      BY <2>1, <2>3, <3>1 DEF HasSame, SameRecord
    <3>4. Loss(live)'
      BY <3>3 DEF Loss, Gone, Changed
    <3> QED
      BY <2>1, <2>3, <3>2, <3>4 DEF LossInv
  <2> QED
    BY <1>2, <2>2, <2>3 DEF MakePlan
<1>3. CASE Refuse \/ StopDry
  BY <1>1, <1>3 DEF Refuse, StopDry, LossInv
<1>4. CASE StartApply
  BY <1>4 DEF StartApply, LossInv, Unsafe, Loss, Gone, Changed
<1>5. CASE ApplyNext \/ RewriteZone \/ FailApply
  <2>1. pc = "applying"
    BY <1>5 DEF ApplyNext, RewriteZone, FailApply
  <2>2. IsFiniteSet(live') /\ (~StoppedWriting => Loss(live'))
    BY <2>1, AppliedLoss
  <2>3. \/ \E why : End(why)
        \/ UNCHANGED <<pc, desired, existing, force>> /\ ~RewritesZone
    BY <1>5 DEF ApplyNext, RewriteZone, FailApply
  <2>4. CASE UNCHANGED <<pc, desired, existing, force>> /\ ~RewritesZone
    BY <2>1, <2>2, <2>4 DEF LossInv, Loss, Gone, Changed, StoppedWriting
  <2> QED
    BY <1>1, <2>2, <2>3, <2>4
<1>6. CASE UNCHANGED vars
  BY <1>6 DEF vars, LossInv, Loss, Gone, Changed
<1> QED
  BY <1>2, <1>3, <1>4, <1>5, <1>6 DEF Next

LEMMA LossInit == Init => LossInv
BY FiniteAssumption, FS_EmptySet DEF Init, LossInv

(* A zone with such losses is one that the thresholds allow. *)
LEMMA LossWithin ==
  ASSUME TypeOK, IsFiniteSet(existing), NEW zone, Loss(zone),
         ~TooMuchChange(existing, ZoneChanges(existing, desired))
  PROVE  Within(zone, ProviderUpdatePcent, ProviderDeletePcent)
<1> DEFINE E == existing
           changes == ZoneChanges(existing, desired)
           deletes == OfKind(changes, "Delete")
           updates == OfKind(changes, "Update")
           size == Cardinality(existing)
<1>1. IsKeyed(existing) /\ IsKeyed(desired)
  BY DEF TypeOK
<1>2. /\ \A c \in deletes : \E q \in Deleted(existing, desired) : c = Delete(q)
      /\ \A q \in Deleted(existing, desired) : Delete(q) \in deletes
      /\ \A c \in updates : \E d \in Updated(existing, desired) : c = Update(d)
      /\ \A d \in Updated(existing, desired) : Update(d) \in updates
  <2>1. \A c \in changes : \/ \E q \in Deleted(existing, desired) : c = Delete(q)
                           \/ \E d \in Updated(existing, desired) : c = Update(d)
                           \/ \E d \in Created(existing, desired) : c = Create(d)
    BY DEF ZoneChanges
  <2>2. /\ \A q \in Deleted(existing, desired) : Delete(q) \in changes
        /\ \A d \in Updated(existing, desired) : Update(d) \in changes
    BY DEF ZoneChanges
  <2>3. \A r : Delete(r).kind = "Delete" /\ Update(r).kind = "Update" /\ Create(r).kind = "Create"
    BY DEF Delete, Update, Create
  <2> HIDE DEF changes
  <2> QED
    BY <2>1, <2>2, <2>3 DEF OfKind
<1>3. IsFiniteSet(deletes)
  <2> DEFINE f == [c \in deletes |-> c.record]
  <2>1. f \in [deletes -> existing]
    BY <1>2 DEF Deleted, Delete
  <2>2. \A c, d \in deletes : f[c] = f[d] => c = d
    BY <1>2 DEF Delete
  <2> HIDE DEF f, deletes
  <2> QED
    BY <2>1, <2>2, AtMost
<1>4. IsFiniteSet(updates)
  <2> DEFINE f == [c \in updates |-> CHOOSE r \in existing : SameRecord(r, c.record)]
  <2>1. \A c \in updates : f[c] \in existing /\ SameRecord(f[c], c.record)
    BY <1>2 DEF Updated, Update
  <2>2. f \in [updates -> existing]
    BY <2>1
  <2>3. \A c, d \in updates : f[c] = f[d] => c = d
    BY <1>1, <1>2, <2>1 DEF Updated, Update, IsKeyed, SameRecord
  <2> HIDE DEF f, updates
  <2> QED
    BY <2>2, <2>3, AtMost
<1>5. Cardinality(Gone(zone)) <= Cardinality(deletes) /\ IsFiniteSet(Gone(zone))
  <2> DEFINE f == [r \in Gone(zone) |-> Delete(r)]
  <2>1. f \in [Gone(zone) -> deletes]
    BY <1>2 DEF Loss
  <2>2. \A q, r \in Gone(zone) : f[q] = f[r] => q = r
    BY DEF Delete
  <2> HIDE DEF f, deletes
  <2> QED
    BY <1>3, <2>1, <2>2, AtMost
<1>6. Cardinality(Changed(zone)) <= Cardinality(updates) /\ IsFiniteSet(Changed(zone))
  <2> DEFINE f == [r \in Changed(zone) |-> CHOOSE c \in updates : SameRecord(c.record, r)]
  <2>1. \A r \in Changed(zone) : \E c \in updates : SameRecord(c.record, r)
    BY <1>2 DEF Loss, HasSame, Update
  <2>2. \A r \in Changed(zone) : f[r] \in updates /\ SameRecord(f[r].record, r)
    BY <2>1
  <2>3. f \in [Changed(zone) -> updates]
    BY <2>2
  <2>4. \A q, r \in Changed(zone) : f[q] = f[r] => q = r
    BY <1>1, <2>2 DEF Changed, IsKeyed, SameRecord
  <2> HIDE DEF f, updates
  <2> QED
    BY <1>4, <2>3, <2>4, AtMost
<1>7. /\ Cardinality(Gone(zone)) \in Nat /\ Cardinality(deletes) \in Nat
      /\ Cardinality(Changed(zone)) \in Nat /\ Cardinality(updates) \in Nat
      /\ size \in Nat
  BY <1>3, <1>4, <1>5, <1>6, FS_CardinalityType
<1>8. ASSUME size >= MinExisting
      PROVE  /\ ~Exceeds(Cardinality(updates), size, ProviderUpdatePcent)
             /\ ~Exceeds(Cardinality(deletes), size, ProviderDeletePcent)
  BY <1>8 DEF TooMuchChange, PlanThreshold, ExistingUpdatePcent, ExistingDeletePcent
<1>9. ASSUME NEW m \in Nat, NEW n \in Nat, NEW pcent \in Nat, m <= n, ~Exceeds(n, size, pcent)
      PROVE  ~Exceeds(m, size, pcent)
  <2>1. pcent * size \in Nat
    BY <1>7
  <2>2. ~(n * 100 > pcent * size)
    BY <1>9 DEF Exceeds
  <2>3. m * 100 <= n * 100
    BY <1>9
  <2> DEFINE bound == pcent * size
  <2> HIDE DEF bound
  <2>4. ~(m * 100 > bound)
    BY <2>1, <2>2, <2>3 DEF bound
  <2> QED
    BY <2>4 DEF Exceeds, bound
<1>10. ProviderUpdatePcent \in Nat /\ ProviderDeletePcent \in Nat
  BY ThresholdsAssumption
<1> QED
  BY <1>5, <1>6, <1>7, <1>8, <1>9, <1>10 DEF Within

(* Without --force a run of a provider with a call for each change,         *)
(* wherever it is interrupted, and one of a provider that rewrites the      *)
(* zone, if it ends well, has removed and changed no more than the          *)
(* thresholds allow.                                                        *)
THEOREM LossesBounded == Spec => BoundedLoss
<1>1. Init => TypeOK /\ PlanSound /\ LossInv
  BY TypeInit, LossInit
<1>2. TypeOK /\ PlanSound /\ LossInv /\ [Next]_vars => TypeOK' /\ PlanSound' /\ LossInv'
  BY TypeStep, LossStep
<1>3. TypeOK /\ PlanSound /\ LossInv /\ [Next]_vars =>
        [pc = "applying" /\ ~force /\ ~StoppedWriting
           => Within(live', ProviderUpdatePcent, ProviderDeletePcent)]_vars
  <2> SUFFICES ASSUME TypeOK, PlanSound, LossInv, [Next]_vars,
                      pc = "applying", ~force, ~StoppedWriting
               PROVE  Within(live', ProviderUpdatePcent, ProviderDeletePcent)
    OBVIOUS
  <2>1. Loss(live')
    BY AppliedLoss
  <2> QED
    BY <2>1, LossWithin DEF LossInv
<1> QED
  BY <1>1, <1>2, <1>3, PTL DEF Spec, BoundedLoss

-----------------------------------------------------------------------------
(* A provider that rewrites the zone: the plan is whole until it is applied *)

HasRootNs == SupportsRootNs /\ RootNsIn(desired) # {}

WholePlan ==
  pc # "idle" =>
    /\ todo = ZoneChanges(existing, desired)
    /\ ~SupportsRootNs => RootNsIn(desired) = {}
    /\ ~HasRootNs => RootNsIn(existing) = {}

LEMMA WholePlanStep ==
  ASSUME RewritesZone, TypeOK, WholePlan, [Next]_vars
  PROVE  WholePlan'
<1>1. ASSUME NEW why, End(why)  PROVE WholePlan'
  BY <1>1 DEF End, WholePlan
<1>2. ASSUME NEW source \in SourceZones, NEW forced \in BOOLEAN, MakePlan(source, forced)
      PROVE  WholePlan'
  <2> DEFINE D == ProcessDesired(source)
             E == ProcessExisting(live, D)
  <2>1. CASE /\ desired' = D /\ existing' = E /\ todo' = ZoneChanges(E, D)
    <3>1. ~SupportsRootNs => RootNsIn(D) = {}
      BY DesiredProcessed
    <3>2. ~(SupportsRootNs /\ RootNsIn(D) # {}) => RootNsIn(E) = {}
      BY DEF ProcessExisting, RootNsIn
    <3> QED
      BY <2>1, <3>1, <3>2 DEF WholePlan, HasRootNs
  <2> QED
    BY <1>1, <1>2, <2>1 DEF MakePlan
<1>3. CASE Refuse \/ StopDry \/ RewriteZone \/ FailApply
  BY <1>1, <1>3 DEF Refuse, StopDry, RewriteZone, FailApply
<1>4. CASE StartApply \/ UNCHANGED vars
  BY <1>4 DEF StartApply, vars, WholePlan, HasRootNs
<1>5. ~ApplyNext
  BY DEF ApplyNext
<1> QED
  BY <1>2, <1>3, <1>4, <1>5 DEF Next

(* A zone with all its changes made has none left. *)
LEMMA NothingRemains ==
  ASSUME NEW E, NEW D, IsKeyed(E), IsKeyed(D)
  PROVE  ZoneChanges(ApplyChanges(E, ZoneChanges(E, D)), D) = {}
<1> DEFINE C == ZoneChanges(E, D)
           Z == ApplyChanges(E, C)
<1>1. \A c \in C : \/ \E q \in Deleted(E, D) : c = Delete(q)
                   \/ \E d \in Updated(E, D) : c = Update(d)
                   \/ \E d \in Created(E, D) : c = Create(d)
  BY DEF ZoneChanges
<1>2. /\ \A q \in Deleted(E, D) : Delete(q) \in C
      /\ \A d \in Updated(E, D) : Update(d) \in C
      /\ \A d \in Created(E, D) : Create(d) \in C
  BY DEF ZoneChanges
<1>3. \A r : /\ Delete(r).kind = "Delete" /\ Update(r).kind = "Update"
             /\ Create(r).kind = "Create"
             /\ Delete(r).record = r /\ Update(r).record = r /\ Create(r).record = r
  BY DEF Delete, Update, Create
<1>4. \A c \in C : c.kind # "Delete" => c.record \in D
  BY <1>1, <1>3 DEF Updated, Created
<1>5. \A s \in Z : \/ s \in E /\ \A c \in C : ~SameRecord(s, c.record)
                   \/ s \in D
  BY <1>4 DEF ApplyChanges, OfKind
<1>6. \A d \in Updated(E, D) \cup Created(E, D) : d \in Z
  <2> SUFFICES ASSUME NEW d \in Updated(E, D) \cup Created(E, D)  PROVE d \in Z
    OBVIOUS
  <2>1. \E c \in C : c.kind # "Delete" /\ c.record = d
    BY <1>2, <1>3
  <2> QED
    BY <2>1 DEF ApplyChanges, OfKind
<1>7. \A r \in E : r \in Z \/ \E c \in C : SameRecord(r, c.record)
  BY DEF ApplyChanges
<1> HIDE DEF C, Z
<1>8. Deleted(Z, D) = {}
  <2> SUFFICES ASSUME NEW r \in Deleted(Z, D)  PROVE FALSE
    OBVIOUS
  <2>1. r \in Z /\ Concerns(r) /\ Supports(r) /\ ~HasSame(D, r)
    BY DEF Deleted
  <2>2. r \notin D
    BY <2>1 DEF HasSame, SameRecord
  <2>3. r \in Deleted(E, D) /\ \A c \in C : ~SameRecord(r, c.record)
    BY <1>5, <2>1, <2>2 DEF Deleted
  <2> QED
    BY <1>2, <1>3, <2>3 DEF SameRecord
<1>9. Updated(Z, D) = {}
  <2> SUFFICES ASSUME NEW d \in Updated(Z, D)  PROVE FALSE
    OBVIOUS
  <2>1. d \in D /\ Concerns(d)
    BY DEF Updated
  <2>2. PICK s \in Z : SameRecord(s, d) /\ Concerns(s) /\ Differs(s, d)
    BY DEF Updated
  <2>3. s # d
    BY <2>2 DEF Differs
  <2>4. s \in E /\ \A c \in C : ~SameRecord(s, c.record)
    BY <1>5, <2>1, <2>2, <2>3 DEF IsKeyed
  <2>5. d \in Updated(E, D)
    BY <2>1, <2>2, <2>4 DEF Updated
  <2> QED
    BY <1>2, <1>3, <2>2, <2>4, <2>5
<1>10. Created(Z, D) = {}
  <2> SUFFICES ASSUME NEW d \in Created(Z, D)  PROVE FALSE
    OBVIOUS
  <2>1. d \in D /\ Concerns(d) /\ Supports(d) /\ \A s \in Z : ~SameRecord(s, d)
    BY DEF Created, HasSame
  <2>2. d \notin Z
    BY <2>1 DEF SameRecord
  <2>3. d \notin Created(E, D)
    BY <1>6, <2>2
  <2>4. PICK s \in E : SameRecord(s, d)
    BY <2>1, <2>3 DEF Created, HasSame
  <2>5. PICK c \in C : SameRecord(s, c.record)
    BY <1>7, <2>1, <2>4
  <2>6. c.record \notin Z
    BY <2>1, <2>4, <2>5 DEF SameRecord
  <2>7. PICK q \in Deleted(E, D) : c = Delete(q)
    BY <1>1, <1>3, <1>6, <2>6
  <2> QED
    BY <1>3, <2>1, <2>4, <2>5, <2>7 DEF Deleted, HasSame, SameRecord
<1>11. ZoneChanges(Z, D) = {}
  BY <1>8, <1>9, <1>10 DEF ZoneChanges
<1> QED
  BY <1>11 DEF Z, C

(* A provider that rewrites the zone leaves nothing for the next run to do, *)
(* whatever it supports and however strictly.                               *)
THEOREM RewritesSettle ==
  ASSUME RewritesZone
  PROVE  Spec => SettledInSync
<1>1. Init => TypeOK /\ PlanSound /\ WholePlan
  BY TypeInit DEF Init, WholePlan
<1>2. TypeOK /\ PlanSound /\ WholePlan /\ [Next]_vars => TypeOK' /\ PlanSound' /\ WholePlan'
  BY TypeStep, WholePlanStep
<1>3. TypeOK /\ PlanSound /\ WholePlan /\ [Next]_vars =>
        [pc = "applying" /\ result' = "applied" /\ pc' = "idle" => Replanned(live') = {}]_vars
  <2> SUFFICES ASSUME TypeOK, WholePlan, Next, pc = "applying", result' = "applied", pc' = "idle"
               PROVE  Replanned(live') = {}
    BY DEF vars
  <2>1. RewriteZone
    BY DEF Next, MakePlan, Refuse, StopDry, StartApply, ApplyNext, FailApply, End
  <2> DEFINE Z == ApplyChanges(existing, ZoneChanges(existing, desired))
  <2>2. live' = Z
    BY <2>1 DEF RewriteZone, WholePlan
  <2>3. ZoneChanges(Z, desired) = {}
    BY NothingRemains DEF TypeOK
  <2>4. ProcessExisting(Z, desired) = Z
    <3>1. CASE HasRootNs
      BY <3>1 DEF HasRootNs, ProcessExisting
    <3>2. CASE ~HasRootNs
      <4>1. RootNsIn(desired) = {} /\ RootNsIn(existing) = {}
        BY <3>2 DEF WholePlan, HasRootNs
      <4>2. \A s \in Z : s \in existing \/ s \in desired
        BY DEF ApplyChanges, ZoneChanges, Updated, Created, OfKind, Delete, Update, Create
      <4>3. RootNsIn(Z) = {}
        BY <4>1, <4>2 DEF RootNsIn
      <4> QED
        BY <4>3 DEF ProcessExisting
    <3> QED
      BY <3>1, <3>2
  <2> QED
    BY <2>2, <2>3, <2>4 DEF Replanned
<1> QED
  BY <1>1, <1>2, <1>3, PTL DEF Spec, SettledInSync
=============================================================================
