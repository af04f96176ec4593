------------------------------ MODULE Target ------------------------------
(***************************************************************************)
(* One zone on one target, over any number of runs of octodns-sync:        *)
(* BaseProvider.plan with what it does to the desired and the existing     *)
(* zone, Plan.raise_if_unsafe, BaseProvider.apply, and the provider's own  *)
(* _apply, which may fail between two changes.                             *)
(*                                                                         *)
(* The owner edits the sources at any time.  A run reads them once, before *)
(* it plans, and acts on that plan until it ends, so that each run has a   *)
(* source zone of its own.                                                 *)
(***************************************************************************)
EXTENDS Changes

CONSTANTS
  Record,            \* the records that sources and target may hold
  SourceZones,       \* the desired zones that sources may yield (validated)
  LiveZones,         \* the zones that a target may hold before the first run
  NoThreshold,       \* Python's None for a threshold
  ProviderUpdatePcent, ProviderDeletePcent,  \* the target's own thresholds, in %
  ZoneUpdatePcent, ZoneDeletePcent,  \* those of the zone's configuration, or NoThreshold
  MinExisting,       \* Plan.MIN_EXISTING_RECORDS
  SupportsRootNs,    \* SUPPORTS_ROOT_NS
  StrictSupports,    \* strict_supports
  Fits(_),           \* the target can carry the value as it is
  Reduced(_),        \* what it falls back to for a value that it cannot carry
  RewritesZone       \* _apply writes the whole zone (YamlProvider), or change by change

(* No name of the zone has a CNAME beside another record. *)
CnamesAlone(zone) ==
  \A r, s \in zone : r.type = "CNAME" /\ s.name = r.name => s.type = "CNAME"

(* What the target may change: what it is asked to handle and can handle. *)
Managed(r) == Concerns(r) /\ Supports(r)

(* A record made to fit keeps all but its value. *)
Fitted(r) == IF Fits(r.value) THEN r ELSE [r EXCEPT !.value = Reduced(r.value)]

ASSUME FittedAssumption ==
  \A r \in Record : Fitted(r) \in Record /\ SameRecord(Fitted(r), r)
(* Record validation refuses a CNAME at the apex. *)
ASSUME CnameAssumption == \A r \in Record : r.type = "CNAME" => r.name # Apex
(* Zone validation refuses a CNAME beside other records. *)
ASSUME SourceZonesAssumption ==
  \A zone \in SourceZones : zone \subseteq Record /\ IsKeyed(zone) /\ CnamesAlone(zone)
ASSUME LiveZonesAssumption ==
  \A zone \in LiveZones :
     zone \subseteq Record /\ IsKeyed(zone) /\ CnamesAlone({r \in zone : Managed(r)})
ASSUME FiniteAssumption == \A zone \in SourceZones \cup LiveZones : IsFiniteSet(zone)
ASSUME ThresholdsAssumption ==
  {MinExisting, ProviderUpdatePcent, ProviderDeletePcent} \subseteq Nat
ASSUME ModesAssumption ==
  /\ SupportsRootNs \in BOOLEAN
  /\ StrictSupports \in BOOLEAN
  /\ RewritesZone \in BOOLEAN

VARIABLES
  live,        \* the records at the provider
  exists,      \* the provider has the zone
  pc,          \* where the run is: between runs "idle", "planned", "applying"
  desired,     \* Plan.desired, in a run
  existing,    \* Plan.existing, in a run
  todo,        \* the changes of the plan that are still to be made
  force,       \* the run is to skip the safety checks
  result       \* how the last run ended

vars == <<live, exists, pc, desired, existing, todo, force, result>>

Results ==
  {"none", "unsupported", "no changes", "dry run", "unsafe", "failed", "applied"}

-----------------------------------------------------------------------------
(* BaseProvider.plan *)

(* Something in the zone is not supported: an exception if strict, and      *)
(* otherwise left out or reduced.                                           *)
Unsupported(zone) ==
  \E r \in zone :
     \/ ~Supports(r) \/ ~Fits(r.value)
     \/ IsRootNs(r) /\ ~SupportsRootNs

ProcessDesired(zone) ==
  {Fitted(r) : r \in {r \in zone : Supports(r) /\ (IsRootNs(r) => SupportsRootNs)}}

ProcessExisting(zone, wanted) ==
  IF SupportsRootNs /\ RootNsIn(wanted) # {}
    THEN zone
    ELSE zone \ RootNsIn(zone)

(* Plan.__init__: a threshold of the existing zone object comes first.      *)
PlanThreshold(zone_threshold, provider_threshold) ==
  IF zone_threshold # NoThreshold THEN zone_threshold ELSE provider_threshold

(* BaseProvider.plan makes the existing Zone with neither threshold.        *)
ExistingUpdatePcent == NoThreshold
ExistingDeletePcent == NoThreshold

-----------------------------------------------------------------------------
(* Plan.raise_if_unsafe *)

Exceeds(count, of, pcent) == count * 100 > pcent * of

(* Mistake: a zone of exactly MinExisting records is not looked at. *)
TooMuchOfMore(zone, changes) ==
  LET size == Cardinality(zone)
  IN  /\ size > MinExisting
      /\ \/ Exceeds(Cardinality(OfKind(changes, "Update")), size, ProviderUpdatePcent)
         \/ Exceeds(Cardinality(OfKind(changes, "Delete")), size, ProviderDeletePcent)

TooMuchChange(zone, changes) ==
  LET size == Cardinality(zone)
  IN  /\ size >= MinExisting
      /\ \/ Exceeds(Cardinality(OfKind(changes, "Update")), size,
                    PlanThreshold(ExistingUpdatePcent, ProviderUpdatePcent))
         \/ Exceeds(Cardinality(OfKind(changes, "Delete")), size,
                    PlanThreshold(ExistingDeletePcent, ProviderDeletePcent))

(* Mistake: only a deletion of the root NS record counts. *)
RootNsDeletion(changes) ==
  exists /\ \E c \in OfKind(changes, "Delete") : IsRootNs(c.record)

RootNsChange(changes) == exists /\ \E c \in changes : IsRootNs(c.record)

Unsafe(zone, changes) == TooMuchChange(zone, changes) \/ RootNsChange(changes)

-----------------------------------------------------------------------------
(* A run *)

(* The run ends; what it held is gone. *)
End(why) ==
  /\ pc' = "idle"
  /\ result' = why
  /\ desired' = {} /\ existing' = {} /\ todo' = {} /\ force' = FALSE

(* populate(target=True), processing, changes: all before anything is applied *)
MakePlan(source, forced) ==
  /\ pc = "idle"
  /\ UNCHANGED <<live, exists>>
  /\ LET wanted  == ProcessDesired(source)
         found   == ProcessExisting(live, wanted)
         changes == ZoneChanges(found, wanted)
     IN  \/ StrictSupports /\ Unsupported(source) /\ End("unsupported")
         \/ /\ ~(StrictSupports /\ Unsupported(source))
            /\ changes = {}
            /\ End("no changes")
         \/ /\ ~(StrictSupports /\ Unsupported(source))
            /\ changes # {}
            /\ pc' = "planned"
            /\ desired' = wanted /\ existing' = found /\ todo' = changes
            /\ force' = forced
            /\ UNCHANGED result

Refuse ==
  /\ pc = "planned" /\ ~force /\ Unsafe(existing, todo)
  /\ End("unsafe")
  /\ UNCHANGED <<live, exists>>

StopDry ==
  /\ pc = "planned" /\ (force \/ ~Unsafe(existing, todo))
  /\ End("dry run")
  /\ UNCHANGED <<live, exists>>

StartApply ==
  /\ pc = "planned" /\ (force \/ ~Unsafe(existing, todo))
  /\ pc' = "applying"
  /\ UNCHANGED <<live, exists, desired, existing, todo, force, result>>

(* _apply of a provider with a call for each change *)
ApplyNext ==
  /\ pc = "applying" /\ ~RewritesZone
  /\ \E c \in Foremost(todo) :
        /\ live' = ApplyChange(live, c)
        /\ \/ /\ todo = {c}
              /\ End("applied")
           \/ /\ todo # {c}
              /\ todo' = todo \ {c}
              /\ UNCHANGED <<pc, desired, existing, force, result>>
  /\ exists' = TRUE

(* YamlProvider._apply: a copy of plan.existing, changed, replaces the file *)
RewriteZone ==
  /\ pc = "applying" /\ RewritesZone
  /\ live' = ApplyChanges(existing, todo)
  /\ End("applied")
  /\ exists' = TRUE

(* What old records and new ones are read as when the new could not all be  *)
(* written, to one file or to one for each name: some of them, and one of   *)
(* the new perhaps with a part of its value only.  (A file that cannot be   *)
(* read at all is the subject of YamlFiles.)                                *)
Torn(old, new) ==
  UNION {{zone \in SUBSET (old \cup new \cup cut) : IsKeyed(zone)} :
           cut \in {{}} \cup {{r} : r \in {r \in Record : HasSame(new, r)}}}

(* the provider raises, or the program is stopped: before the first change, *)
(* or between two of them, or in the middle of writing the zone.  It may    *)
(* have made the zone.                                                      *)
FailApply ==
  /\ pc = "applying"
  /\ End("failed")
  /\ \/ /\ UNCHANGED live
        /\ exists' \in {exists, TRUE}
     \/ /\ RewritesZone
        /\ live' \in Torn(live, ApplyChanges(existing, todo))
        /\ exists' = TRUE

Init ==
  /\ live \in LiveZones
  /\ exists \in BOOLEAN
  /\ live # {} => exists
  /\ pc = "idle" /\ result = "none" /\ force = FALSE
  /\ desired = {} /\ existing = {} /\ todo = {}

Next ==
  \/ \E source \in SourceZones, forced \in BOOLEAN : MakePlan(source, forced)
  \/ Refuse \/ StopDry \/ StartApply
  \/ ApplyNext \/ RewriteZone \/ FailApply

Spec == Init /\ [][Next]_vars

-----------------------------------------------------------------------------
(* Properties *)

(* Every variable has the shape of the code's attribute, and a zone never   *)
(* holds two records of one name and type.                                  *)
TypeOK ==
  /\ exists \in BOOLEAN /\ force \in BOOLEAN
  /\ pc \in {"idle", "planned", "applying"}
  /\ result \in Results
  /\ \A zone \in {live, desired, existing} : zone \subseteq Record /\ IsKeyed(zone)
  /\ todo \subseteq {Delete(r) : r \in Record} \cup {Create(r) : r \in Record}
                      \cup {Update(r) : r \in Record}

(* What planning the run's desired zone again would find to be done now. *)
Replanned(zone) == ZoneChanges(ProcessExisting(zone, desired), desired)

(* However many changes a provider with a call for each has made before it  *)
(* fails, planning again finds exactly those that were left: none is done   *)
(* twice, lost, or turned into another one.                                 *)
RemainingIsReplan == pc # "idle" => Replanned(live) = todo

(* After a run that ended well, planning the same zone again finds nothing  *)
(* to do: a sync settles, and does not flap.                                *)
SettledInSync ==
  [][pc = "applying" /\ result' = "applied" /\ pc' = "idle"
       => Replanned(live') = {}]_vars

(* Records that the target must leave alone are left as they are: those     *)
(* that it does not support, and those that the live or the desired version *)
(* says are ignored, not included or excluded.  (The root NS, which a run   *)
(* may have to leave alone as well, is the subject of RootNsNeedsForce.)    *)
LeftAlone(r) ==
  /\ ~IsRootNs(r)
  /\ \/ ~Concerns(r) \/ ~Supports(r)
     \/ \E d \in desired : SameRecord(d, r) /\ ~Concerns(d)

HandsOff == [][pc = "applying" => \A r \in live : LeftAlone(r) => r \in live']_vars

(* From sources without such a conflict, no run, at no point of its apply,  *)
(* leaves a name with a CNAME beside another record, unless one of the two  *)
(* is not the target's to change: deletes are made before creates.          *)
CnameStandsAlone == CnamesAlone({r \in live : Managed(r)})

(* a step that leaves a zone half written *)
StoppedWriting == RewritesZone /\ result' = "failed"

(* Without --force a root NS record that is there stays as it is, unless    *)
(* the writing of the whole zone is cut off.                                *)
RootNsNeedsForce ==
  [][pc = "applying" /\ ~force /\ ~StoppedWriting /\ RootNsIn(live) # {}
       => RootNsIn(live') = RootNsIn(live)]_vars

(* With or without --force a root NS record may be changed, never removed.  *)
RootNsStays == [][RootNsIn(live) # {} => RootNsIn(live') # {}]_vars

(* Without --force a run has removed and changed no larger part of a zone   *)
(* of MinExisting records or more than the thresholds allow: with a call    *)
(* for each change wherever it is interrupted, and if it rewrites the zone  *)
(* when it ends well.  (One that fails while it writes may lose all of it.) *)
Gone(zone) == {r \in existing : ~HasSame(zone, r)}
Changed(zone) == {r \in existing : HasSame(zone, r) /\ r \notin zone}

Within(zone, update_pcent, delete_pcent) ==
  LET size == Cardinality(existing)
  IN  size >= MinExisting =>
        /\ ~Exceeds(Cardinality(Changed(zone)), size, update_pcent)
        /\ ~Exceeds(Cardinality(Gone(zone)), size, delete_pcent)

BoundedLoss ==
  [][pc = "applying" /\ ~force /\ ~StoppedWriting
       => Within(live', ProviderUpdatePcent, ProviderDeletePcent)]_vars

(* docs/records.rst, "Zone thresholds take precedence over any provider     *)
(* default or explicit configuration": the same with the thresholds that    *)
(* the zone is configured with.                                             *)
ZoneThresholdHonoured ==
  [][pc = "applying" /\ ~force
       => Within(live', PlanThreshold(ZoneUpdatePcent, ProviderUpdatePcent),
                        PlanThreshold(ZoneDeletePcent, ProviderDeletePcent))]_vars
=============================================================================
