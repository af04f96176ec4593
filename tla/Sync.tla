------------------------------- MODULE Sync -------------------------------
(***************************************************************************)
(* octodns.manager.Manager.sync: one run after another of planning every   *)
(* zone on a pool of workers and then applying the plans, or not.          *)
(*                                                                         *)
(* Planning a zone is a task: it populates the zone from its sources, lets *)
(* the processors work on it and plans it for each of its targets.  Three  *)
(* batches of tasks follow each other: the zones with sources, the alias   *)
(* zones, which take over the desired zone of another one, and the arpa    *)
(* zones, for which the AutoArpa processor has collected addresses before. *)
(*                                                                         *)
(* What a zone holds is abstracted to where it comes from: the version of  *)
(* the sources, the configurations whose processors have worked on it, and *)
(* for an arpa zone the collected addresses.  Target models how a plan is  *)
(* made and applied; here it is the change from one content to another.    *)
(***************************************************************************)
EXTENDS Naturals, FiniteSets, Sequences
LOCAL INSTANCE SequencesExt
LOCAL INSTANCE FiniteSetsExt

CONSTANTS
  Zones,         \* the configured zones, a sequence in the config's order
  AliasOf,       \* [alias zones -> the zone that each is an alias of]
  Delayed,       \* zones held back for AutoArpa: names ending in arpa.
  SubZoneOf,     \* pairs <<zone, zone that it is a sub-zone of>>
  Length,        \* [zones -> length of the zone's name]
  Targets,       \* [zones with sources -> set of the configured targets]
  AlwaysDryRun,  \* zones configured with always-dry-run
  Options,       \* the ways that a run may be started, see MCSync
  Versions,      \* bound: the sources' versions, 1 .. Versions
  Edited,        \* bound: the zones whose sources are edited
  MaxRuns,       \* bound: how many runs are started
  Unsafe(_)      \* what raise_if_unsafe holds against a plan

ZoneSet == Range(Zones)
Aliases == DOMAIN AliasOf
Sourced == ZoneSet \ Aliases
AllTargets == UNION {Targets[z] : z \in Sourced}

ASSUME ZonesAssumption ==
  /\ Aliases \subseteq ZoneSet /\ Delayed \subseteq Sourced
  /\ \A a \in Aliases : AliasOf[a] \in Sourced
  /\ SubZoneOf \subseteq ZoneSet \X ZoneSet
  /\ Edited \subseteq Sourced
ASSUME LengthAssumption ==
  /\ Length \in [ZoneSet -> Nat]
  /\ \A pair \in SubZoneOf : Length[pair[1]] > Length[pair[2]]
ASSUME OptionsAssumption ==
  Options \subseteq
    [zones : SUBSET ZoneSet, targets : SUBSET AllTargets,
     dry_run : BOOLEAN, force : BOOLEAN, enabled : BOOLEAN, checksum : BOOLEAN,
     max_workers : Nat \ {0}]
ASSUME BoundsAssumption == Versions \in Nat \ {0} /\ MaxRuns \in Nat

VARIABLES
  src,      \* src[z]: the version of zone z that its sources hold now
  live,     \* live[z][t]: what target t holds of zone z
  shown,    \* the checksum that the last run logged, or NoChecksum
  runs,     \* runs started
  pc,       \* the main thread: "idle", "waiting", "deciding", "applying"
  opts,     \* the arguments of the run and of its Manager
  batch,    \* the batch of tasks that the main thread waits for
  task,     \* task[z]: what became of the task of zone z
  desired,  \* desired[z]: the zone that the task has made
  seen,     \* what AutoArpa has collected: <<zone, version>>
  plans,    \* the plans, or while applying those still to be applied
  result    \* how the last run ended

runVars == <<opts, batch, task, desired, seen, plans>>
vars == <<src, live, shown, runs, pc, runVars, result>>

(* The contents of a zone: nothing, what a failed apply leaves, a desired one *)
Content(version, configs, ptrs) ==
  [version |-> version, configs |-> configs, ptrs |-> ptrs]
Nothing == Content(0, {}, {})
Partial == Content(Versions + 1, {}, {})

NoChecksum == << >>
Batches == {"sourced", "aliases", "arpa"}

-----------------------------------------------------------------------------
(* Which zones and targets a run is about *)

Selected == {z \in ZoneSet : opts.zones = {} \/ z \in opts.zones}

(* --target is looked at for the zones with sources only. *)
TargetsOf(z) ==
  IF z \in Aliases THEN Targets[AliasOf[z]]
  ELSE {t \in Targets[z] : opts.targets = {} \/ t \in opts.targets}

(* Mistake: no zone is held back for AutoArpa. *)
InBatchAtOnce(name) ==
  {z \in Selected :
     \/ name = "sourced" /\ z \in Sourced /\ TargetsOf(z) # {}
     \/ name = "aliases" /\ z \in Aliases}

InBatch(name) ==
  {z \in Selected :
     \/ name = "sourced" /\ z \in Sourced \ Delayed /\ TargetsOf(z) # {}
     \/ name = "aliases" /\ z \in Aliases
     \/ name = "arpa" /\ z \in Delayed /\ TargetsOf(z) # {}}

(* auto_arpa refuses a run that sees a part of the zones or targets only. *)
PartialArpa(o) ==
  LET zones == IF o.zones = {} THEN ZoneSet ELSE o.zones
  IN  zones \cap Delayed # {} /\ (o.zones # {} \/ o.targets # {})

(* `processors` and `lenient` when the loop over the zones has ended: those *)
(* of the last zone that is not an alias.                                   *)
LastConfig == Last(SelectSeq(Zones, LAMBDA z : z \in Selected \cap Sourced))

ConfigFor(z) == IF z \in Aliases THEN LastConfig ELSE z

-----------------------------------------------------------------------------
(* The tasks: _populate_and_plan *)

Position(z) == CHOOSE i \in DOMAIN Zones : Zones[i] = z
Before(y, z) == y \in InBatch(batch) /\ Position(y) < Position(z)

(* A pool starts its tasks in order, as workers become free.  With one     *)
(* worker there is no pool: the main thread runs a task when it asks for   *)
(* its result, after the results of those before.                          *)
CanStart(z) ==
  /\ task[z] = "queued"
  /\ \A y \in ZoneSet : Before(y, z) => task[y] # "queued"
  /\ IF opts.max_workers > 1
       THEN Cardinality({y \in ZoneSet : task[y] = "populated"}) < opts.max_workers
       ELSE \A y \in ZoneSet : Before(y, z) => task[y] = "done"

(* Mistake: an alias zone is populated from the sources anew. *)
PopulatedAnew(z) ==
  IF z \in Aliases
    THEN Content(src[AliasOf[z]], {ConfigFor(z)}, {})
    ELSE Content(src[z], {ConfigFor(z)}, IF z \in Delayed THEN seen ELSE {})

Populated(z) ==
  IF z \in Aliases
    THEN LET d == desired[AliasOf[z]]
         IN  Content(d.version, d.configs \cup {ConfigFor(z)}, d.ptrs)
    ELSE Content(src[z], {ConfigFor(z)}, IF z \in Delayed THEN seen ELSE {})

(* populate, or the records of the aliased zone, and process_source_zone *)
Populate(z) ==
  /\ pc = "waiting" /\ CanStart(z)
  /\ task' = [task EXCEPT ![z] = "populated"]
  /\ desired' = [desired EXCEPT ![z] = Populated(z)]
  /\ seen' = seen \cup {<<z, Populated(z).version>>}
  /\ UNCHANGED <<src, live, shown, runs, pc, opts, batch, plans, result>>

NewPlan(z, t) == [zone |-> z, target |-> t, old |-> live[z][t], new |-> desired[z]]

PlanZone(z) ==
  /\ pc = "waiting" /\ task[z] = "populated"
  /\ task' = [task EXCEPT ![z] = "done"]
  /\ plans' = plans \cup
       {NewPlan(z, t) : t \in {t \in TargetsOf(z) : live[z][t] # desired[z]}}
  /\ UNCHANGED <<src, live, shown, runs, pc, opts, batch, desired, seen, result>>

(* A source, a processor, the validation or a target raises. *)
FailTask(z) ==
  /\ pc = "waiting" /\ (CanStart(z) \/ task[z] = "populated")
  /\ task' = [task EXCEPT ![z] = "failed"]
  /\ UNCHANGED <<src, live, shown, runs, pc, opts, batch, desired, seen, plans, result>>

-----------------------------------------------------------------------------
(* The main thread: sync *)

NoRun == [zones |-> {}, targets |-> {}, dry_run |-> TRUE, force |-> FALSE,
          enabled |-> FALSE, checksum |-> NoChecksum, max_workers |-> 1]

(* The run ends and the Manager goes with it. *)
End(why) ==
  /\ pc' = "idle" /\ result' = why
  /\ opts' = NoRun /\ batch' = "sourced"
  /\ task' = [z \in ZoneSet |-> "none"]
  /\ desired' = [z \in ZoneSet |-> Nothing]
  /\ seen' = {} /\ plans' = {}

(* executor.submit for each zone *)
Queued(zones) == [z \in ZoneSet |-> IF z \in zones THEN "queued" ELSE task[z]]

(* A checksum that is asked for is the one that the run before has logged. *)
StartRun(o) ==
  /\ pc = "idle" /\ runs < MaxRuns
  /\ runs' = runs + 1
  /\ \/ PartialArpa(o) /\ End("refused")
     \/ /\ ~PartialArpa(o)
        /\ pc' = "waiting" /\ opts' = [o EXCEPT !.checksum = IF @ THEN shown ELSE NoChecksum]
        /\ task' = Queued(InBatch("sourced")')
        /\ UNCHANGED <<batch, desired, seen, plans, result>>
  /\ UNCHANGED <<src, live, shown>>

(* Mistake: all the batch's tasks are waited for before one's exception is  *)
(* looked at.                                                               *)
AbortLate ==
  /\ pc = "waiting"
  /\ \E z \in InBatch(batch) : task[z] = "failed"
  /\ \A z \in InBatch(batch) : task[z] \in {"failed", "done"}
  /\ End("failed")
  /\ UNCHANGED <<src, live, shown, runs>>

(* future.result() raises what the task did, once those before have ended.  *)
Abort ==
  /\ pc = "waiting"
  /\ \E z \in InBatch(batch) :
        task[z] = "failed" /\ \A y \in ZoneSet : Before(y, z) => task[y] = "done"
  /\ End("failed")
  /\ UNCHANGED <<src, live, shown, runs>>

BatchDone == pc = "waiting" /\ \A z \in InBatch(batch) : task[z] = "done"

(* An alias zone needs the desired zone of a task of this run. *)
Orphans == {a \in InBatch("aliases") : task[AliasOf[a]] # "done"}

Submit(name) ==
  /\ batch' = name
  /\ task' = Queued(InBatch(name))
  /\ UNCHANGED <<src, live, shown, runs, pc, opts, desired, seen, plans, result>>

SubmitAliases ==
  /\ BatchDone /\ batch = "sourced"
  /\ \/ Orphans = {} /\ Submit("aliases")
     \/ Orphans # {} /\ End("failed") /\ UNCHANGED <<src, live, shown, runs>>

SubmitArpa == BatchDone /\ batch = "aliases" /\ Submit("arpa")

(* sha256 over the changes of the plans, without their zones and targets:   *)
(* how often each change is planned.                                        *)
Digest(ps) ==
  [c \in {<<p.old, p.new>> : p \in ps} |->
     Cardinality({p \in ps : <<p.old, p.new>> = c})]
Checksum == IF opts.enabled THEN Digest(plans) ELSE NoChecksum

(* Mistakes: a run is unsafe when all of its plans are, and any checksum is *)
(* good enough.                                                             *)
IsAllUnsafe == ~opts.force /\ plans # {} /\ \A p \in plans : Unsafe(p)
IsMissing == Checksum # NoChecksum /\ opts.checksum = NoChecksum

(* All plans are there.  The safety checks come first, then the dry run's   *)
(* end, then the checksum.                                                  *)
IsUnsafe == ~opts.force /\ \E p \in plans : Unsafe(p)
IsDryRun == opts.dry_run /\ opts.checksum = NoChecksum
IsMismatch == Checksum # NoChecksum /\ Checksum # opts.checksum

Decide ==
  /\ BatchDone /\ batch = "arpa"
  /\ shown' = Checksum
  /\ \/ IsUnsafe /\ End("unsafe")
     \/ ~IsUnsafe /\ IsDryRun /\ End("dry run")
     \/ ~IsUnsafe /\ ~IsDryRun /\ IsMismatch /\ End("mismatch")
     \/ /\ ~IsUnsafe /\ ~IsDryRun /\ ~IsMismatch
        /\ pc' = "applying"
        /\ UNCHANGED <<runVars, result>>
  /\ UNCHANGED <<src, live, runs>>

(* Mistake: sorted without reverse. *)
ShortestFirst ==
  {p \in plans : \A q \in plans : Length[q.zone] >= Length[p.zone]}

(* plans.sort: longer zone names first, any order among equal lengths *)
Foremost ==
  {p \in plans : \A q \in plans : Length[q.zone] <= Length[p.zone]}

(* Mistake: the first zone with always-dry-run ends the loop. *)
ApplyUntilDryRun ==
  /\ pc = "applying"
  /\ \E p \in Foremost :
        /\ plans' = IF p.zone \in AlwaysDryRun THEN {} ELSE plans \ {p}
        /\ live' = IF p.zone \in AlwaysDryRun THEN live
                   ELSE [live EXCEPT ![p.zone][p.target] = p.new]
  /\ UNCHANGED <<src, shown, runs, pc, opts, batch, task, desired, seen, result>>

ApplyNext ==
  /\ pc = "applying"
  /\ \E p \in Foremost :
        /\ plans' = plans \ {p}
        /\ live' = IF p.zone \in AlwaysDryRun THEN live
                   ELSE [live EXCEPT ![p.zone][p.target] = p.new]
  /\ UNCHANGED <<src, shown, runs, pc, opts, batch, task, desired, seen, result>>

(* A target raises in the middle of its apply: the rest is not applied.     *)
FailApply ==
  /\ pc = "applying"
  /\ \E p \in Foremost :
        /\ p.zone \notin AlwaysDryRun
        /\ live' = [live EXCEPT ![p.zone][p.target] = Partial]
  /\ End("apply failed")
  /\ UNCHANGED <<src, shown, runs>>

Finish ==
  /\ pc = "applying" /\ plans = {}
  /\ End("applied")
  /\ UNCHANGED <<src, live, shown, runs>>

(* Somebody edits the sources of a zone, whatever octoDNS is doing.         *)
EditSource(z) ==
  /\ src[z] < Versions
  /\ src' = [src EXCEPT ![z] = @ + 1]
  /\ UNCHANGED <<live, shown, runs, pc, runVars, result>>

-----------------------------------------------------------------------------
Init ==
  /\ src = [z \in Sourced |-> 1]
  /\ live = [z \in ZoneSet |-> [t \in AllTargets |-> Nothing]]
  /\ shown = NoChecksum /\ runs = 0
  /\ pc = "idle" /\ result = "none"
  /\ opts = NoRun /\ batch = "sourced"
  /\ task = [z \in ZoneSet |-> "none"]
  /\ desired = [z \in ZoneSet |-> Nothing]
  /\ seen = {} /\ plans = {}

Worker == \E z \in ZoneSet : Populate(z) \/ PlanZone(z) \/ FailTask(z)
Main == Abort \/ SubmitAliases \/ SubmitArpa \/ Decide \/ ApplyNext \/ FailApply \/ Finish

Next ==
  \/ \E o \in Options : StartRun(o)
  \/ Worker \/ Main
  \/ \E z \in Edited : EditSource(z)

(* The operating system runs every thread; nobody has to start runs or to   *)
(* edit anything.                                                           *)
Fairness == WF_vars(Worker) /\ WF_vars(Main)
Spec == Init /\ [][Next]_vars /\ Fairness

-----------------------------------------------------------------------------
(* Properties *)

Statuses == {"none", "queued", "populated", "done", "failed"}

(* Every variable has the shape of the code's. *)
TypeOK ==
  /\ src \in [Sourced -> 1 .. Versions]
  /\ runs \in 0 .. MaxRuns
  /\ pc \in {"idle", "waiting", "applying"}
  /\ batch \in Batches
  /\ task \in [ZoneSet -> Statuses]
  /\ DOMAIN live = ZoneSet /\ \A z \in ZoneSet : DOMAIN live[z] = AllTargets
  /\ DOMAIN desired = ZoneSet
  /\ \A p \in plans : p.zone \in ZoneSet /\ p.target \in AllTargets
  /\ opts.zones \subseteq ZoneSet /\ opts.targets \subseteq AllTargets

(* Applying starts and goes on only when every task of the run has ended    *)
(* well and nothing that it applies is unsafe, or --force was given: one    *)
(* failed zone or unsafe plan keeps all the others from being applied, too. *)
AllOrNothing ==
  pc = "applying" =>
    /\ \A z \in ZoneSet : task[z] \in {"none", "done"}
    /\ \A name \in Batches : \A z \in InBatch(name) : task[z] = "done"
    /\ opts.force \/ \A p \in plans : ~Unsafe(p)

(* PTR records are made from the complete picture: what an arpa zone is     *)
(* planned with are the addresses of each zone of the run, aliases as well, *)
(* in the version that the same run has planned for that zone.              *)
PtrsComplete ==
  \A z \in Delayed : task[z] \in {"populated", "done"} =>
    \A y \in ZoneSet \ Delayed :
      {p[2] : p \in {p \in desired[z].ptrs : p[1] = y}}
        = IF TargetsOf(y) = {} THEN {} ELSE {desired[y].version}

(* Both zones of an alias get the same version of the records, though the   *)
(* sources may change between the two plans.                                *)
AliasFollows ==
  \A a \in Aliases : task[a] \in {"populated", "done"} =>
    desired[a].version = desired[AliasOf[a]].version

(* A zone is not changed while a plan for one of its sub-zones has still to *)
(* be applied: records that move to the sub-zone are there before the       *)
(* parent drops them.                                                       *)
ChildrenFirst ==
  [][\A pair \in SubZoneOf :
       live'[pair[2]] # live[pair[2]] => \A p \in plans : p.zone # pair[1]]_vars

(* A run that ends well leaves each of its targets with what it planned:    *)
(* no plan is lost or overtaken.                                            *)
RunSettles ==
  [][pc = "applying" /\ result' = "applied" /\ pc' = "idle" =>
       \A z \in ZoneSet \ AlwaysDryRun : task[z] = "done" =>
         \A t \in TargetsOf(z) : live[z][t] = desired[z]]_vars

(* Every run ends: nobody waits for a task that no worker will run.         *)
RunEnds == pc # "idle" ~> pc = "idle"

(* docs/configuration.rst on alias zones: "exact copies of each other, with *)
(* the same configuration and records".                                     *)
AliasIsExactCopy ==
  \A a \in Aliases : task[a] = "done" => desired[a] = desired[AliasOf[a]]

(* octodns/cmds/sync.py on --checksum: "apply will only continue if it      *)
(* matches the plan's computed checksum".                                   *)
ChecksumMatches ==
  [][pc = "waiting" /\ pc' = "applying" /\ opts.checksum # NoChecksum =>
       plans' = {} \/ opts.checksum = Digest(plans')]_vars
=============================================================================
