---------------------------- MODULE SyncProofs ----------------------------
(***************************************************************************)
(* Proofs about Manager.sync: for any configuration, any way to start runs *)
(* and any number of them.                                                 *)
(***************************************************************************)
EXTENDS Sync, TLAPS

-----------------------------------------------------------------------------
(* Batches *)

(* The zones whose tasks have been submitted, and those of them that the    *)
(* main thread has waited for.                                              *)
Submitted ==
  {z \in ZoneSet :
     \/ z \in InBatch("sourced")
     \/ z \in InBatch("aliases") /\ batch # "sourced"
     \/ z \in InBatch("arpa") /\ batch = "arpa"}
Earlier ==
  {z \in ZoneSet :
     \/ z \in InBatch("sourced") /\ batch # "sourced"
     \/ z \in InBatch("aliases") /\ batch = "arpa"}

(* Each zone is in one batch at most, by what it is. *)
LEMMA BatchOf ==
  ASSUME NEW z \in ZoneSet
  PROVE  /\ z \in InBatch("sourced") => z \in Sourced /\ z \notin Delayed /\ TargetsOf(z) # {}
         /\ z \in InBatch("aliases") => z \in Aliases /\ z \notin Sourced /\ z \notin Delayed
         /\ z \in InBatch("arpa") => z \in Sourced /\ z \in Delayed /\ TargetsOf(z) # {}
BY ZonesAssumption DEF InBatch, Selected, Sourced

LEMMA InBatchSelected ==
  ASSUME NEW name \in Batches, NEW z \in InBatch(name)
  PROVE  z \in ZoneSet /\ z \in Selected
BY DEF InBatch, Selected

(* Which zones and targets a run is about does not change while it lasts.   *)
LEMMA SameRun ==
  ASSUME opts' = opts
  PROVE  /\ Selected' = Selected
         /\ \A z \in ZoneSet : TargetsOf(z)' = TargetsOf(z)
         /\ InBatch("sourced")' = InBatch("sourced")
         /\ InBatch("aliases")' = InBatch("aliases")
         /\ InBatch("arpa")' = InBatch("arpa")
BY DEF InBatch, Selected, TargetsOf

-----------------------------------------------------------------------------
(* Types *)

(* Besides TypeOK: which variables are functions, and what is known of a    *)
(* plan and of a run.                                                       *)
IsMap(f, S) == f = [x \in S |-> f[x]]

Shape ==
  /\ IsMap(live, ZoneSet)
  /\ \A z \in ZoneSet : IsMap(live[z], AllTargets)
  /\ IsMap(desired, ZoneSet)
  /\ opts.force \in BOOLEAN

(* What a run that ends leaves behind. *)
LEMMA EndShape ==
  ASSUME NEW why, End(why)
  PROVE  /\ pc' = "idle" /\ batch' \in Batches /\ plans' = {} /\ seen' = {}
         /\ task' \in [ZoneSet -> Statuses] /\ \A z \in ZoneSet : task'[z] = "none"
         /\ DOMAIN desired' = ZoneSet /\ IsMap(desired', ZoneSet)
         /\ opts'.zones = {} /\ opts'.targets = {} /\ opts'.force = FALSE
         /\ opts'.checksum = NoChecksum
BY DEF End, NoRun, Batches, Statuses, IsMap

LEMMA TargetsOfZone ==
  ASSUME NEW z \in ZoneSet
  PROVE  TargetsOf(z) \subseteq AllTargets
<1>1. CASE z \in Aliases
  <2>1. AliasOf[z] \in Sourced
    BY <1>1, ZonesAssumption
  <2> QED
    BY <1>1, <2>1 DEF TargetsOf, AllTargets
<1>2. CASE z \notin Aliases
  BY <1>2 DEF TargetsOf, AllTargets, Sourced
<1> QED
  BY <1>1, <1>2

LEMMA TypeStep == TypeOK /\ Shape /\ [Next]_vars => TypeOK' /\ Shape'
<1> SUFFICES ASSUME TypeOK, Shape, [Next]_vars
             PROVE  TypeOK' /\ Shape'
  OBVIOUS
<1>e. ASSUME NEW why, End(why), UNCHANGED <<src, runs>>,
             IsMap(live', ZoneSet), \A z \in ZoneSet : IsMap(live'[z], AllTargets)
      PROVE  TypeOK' /\ Shape'
  <2>1. DOMAIN live' = ZoneSet /\ \A z \in ZoneSet : DOMAIN live'[z] = AllTargets
    BY <1>e DEF IsMap
  <2>2. src' \in [Sourced -> 1 .. Versions] /\ runs' \in 0 .. MaxRuns
    BY <1>e DEF TypeOK
  <2> QED
    BY <1>e, <2>1, <2>2, EndShape DEF TypeOK, Shape
<1>f. ASSUME UNCHANGED live
      PROVE  /\ IsMap(live', ZoneSet)
             /\ \A z \in ZoneSet : IsMap(live'[z], AllTargets)
  BY <1>f DEF Shape
<1>1. ASSUME NEW o \in Options, StartRun(o)
      PROVE  TypeOK' /\ Shape'
  <2>1. runs' \in 0 .. MaxRuns
    BY <1>1, BoundsAssumption DEF StartRun, TypeOK
  <2>2. CASE PartialArpa(o) /\ End("refused")
    <3>1. DOMAIN live' = ZoneSet /\ \A z \in ZoneSet : DOMAIN live'[z] = AllTargets
      BY <1>1 DEF StartRun, TypeOK
    <3> QED
      BY <1>1, <2>1, <2>2, <3>1, EndShape DEF StartRun, TypeOK, Shape
  <2>3. CASE /\ pc' = "waiting"
             /\ opts' = [o EXCEPT !.checksum = IF @ THEN shown ELSE NoChecksum]
             /\ task' = Queued(InBatch("sourced")')
             /\ UNCHANGED <<batch, desired, seen, plans, result>>
    <3>1. /\ opts'.zones = o.zones /\ opts'.targets = o.targets /\ opts'.force = o.force
          /\ o.zones \subseteq ZoneSet /\ o.targets \subseteq AllTargets
          /\ o.force \in BOOLEAN
      BY <2>3, OptionsAssumption
    <3>2. task' \in [ZoneSet -> Statuses]
      BY <2>3 DEF Queued, TypeOK, Statuses
    <3> QED
      BY <1>1, <2>1, <2>3, <3>1, <3>2 DEF StartRun, TypeOK, Shape
  <2> QED
    BY <1>1, <2>2, <2>3 DEF StartRun
<1>2. ASSUME NEW z \in ZoneSet, Populate(z)
      PROVE  TypeOK' /\ Shape'
  BY <1>2 DEF Populate, TypeOK, Shape, Statuses, IsMap
<1>3. ASSUME NEW z \in ZoneSet, PlanZone(z)
      PROVE  TypeOK' /\ Shape'
  <2>1. \A p \in plans' : p.zone \in ZoneSet /\ p.target \in AllTargets
    BY <1>3, TargetsOfZone DEF PlanZone, NewPlan, TypeOK
  <2> QED
    BY <1>3, <2>1 DEF PlanZone, TypeOK, Shape, Statuses
<1>4. ASSUME NEW z \in ZoneSet, FailTask(z)
      PROVE  TypeOK' /\ Shape'
  BY <1>4 DEF FailTask, TypeOK, Shape, Statuses
<1>5. CASE Abort
  BY <1>5, <1>e, <1>f DEF Abort
<1>6. ASSUME NEW name \in Batches, Submit(name)
      PROVE  TypeOK' /\ Shape'
  BY <1>6 DEF Submit, Queued, TypeOK, Shape, Statuses
<1>7. CASE SubmitAliases
  <2>1. CASE Submit("aliases")
    BY <2>1, <1>6 DEF Batches
  <2>2. CASE End("failed") /\ UNCHANGED <<src, live, shown, runs>>
    BY <2>2, <1>e, <1>f
  <2> QED
    BY <1>7, <2>1, <2>2 DEF SubmitAliases
<1>8. CASE SubmitArpa
  BY <1>8, <1>6 DEF SubmitArpa, Batches
<1>9. CASE Decide
  <2>1. CASE pc' = "applying" /\ UNCHANGED <<runVars, result>>
    BY <1>9, <2>1 DEF Decide, runVars, TypeOK, Shape
  <2>2. ASSUME NEW why, End(why)
        PROVE  TypeOK' /\ Shape'
    BY <1>9, <2>2, <1>e, <1>f DEF Decide
  <2> QED
    BY <1>9, <2>1, <2>2 DEF Decide
<1>10. ASSUME NEW p \in plans, NEW content,
              live' = [live EXCEPT ![p.zone][p.target] = content]
       PROVE  /\ IsMap(live', ZoneSet)
              /\ \A z \in ZoneSet : IsMap(live'[z], AllTargets)
              /\ DOMAIN live' = ZoneSet
              /\ \A z \in ZoneSet : DOMAIN live'[z] = AllTargets
  BY <1>10 DEF Shape, IsMap, TypeOK
<1>11. CASE ApplyNext
  <2>1. PICK p \in Foremost :
          /\ plans' = plans \ {p}
          /\ live' = IF p.zone \in AlwaysDryRun THEN live
                     ELSE [live EXCEPT ![p.zone][p.target] = p.new]
    BY <1>11 DEF ApplyNext
  <2>2. p \in plans
    BY DEF Foremost
  <2>3. /\ IsMap(live', ZoneSet)
        /\ \A z \in ZoneSet : IsMap(live'[z], AllTargets)
        /\ DOMAIN live' = ZoneSet
        /\ \A z \in ZoneSet : DOMAIN live'[z] = AllTargets
    <3>1. CASE p.zone \in AlwaysDryRun
      BY <2>1, <3>1 DEF Shape, TypeOK
    <3>2. CASE p.zone \notin AlwaysDryRun
      BY <2>1, <2>2, <3>2, <1>10
    <3> QED
      BY <3>1, <3>2
  <2> QED
    BY <1>11, <2>1, <2>3 DEF ApplyNext, TypeOK, Shape
<1>12. CASE FailApply
  <2>1. PICK p \in Foremost : live' = [live EXCEPT ![p.zone][p.target] = Partial]
    BY <1>12 DEF FailApply
  <2>2. p \in plans
    BY DEF Foremost
  <2> QED
    BY <1>12, <2>1, <2>2, <1>10, <1>e DEF FailApply
<1>13. CASE Finish
  BY <1>13, <1>e, <1>f DEF Finish
<1>14. ASSUME NEW z \in Edited, EditSource(z)
       PROVE  TypeOK' /\ Shape'
  <2>1. src' \in [Sourced -> 1 .. Versions]
    BY <1>14, ZonesAssumption, BoundsAssumption DEF EditSource, TypeOK
  <2> QED
    BY <1>14, <2>1 DEF EditSource, runVars, TypeOK, Shape
<1>15. CASE UNCHANGED vars
  BY <1>15 DEF vars, runVars, TypeOK, Shape
<1> QED
  BY <1>1, <1>2, <1>3, <1>4, <1>5, <1>7, <1>8, <1>9, <1>11, <1>12, <1>13, <1>14, <1>15
  DEF Next, Worker, Main

LEMMA TypeInit == Init => TypeOK /\ Shape
BY BoundsAssumption DEF Init, TypeOK, Shape, IsMap, NoRun, Batches, Statuses, AllTargets

(* Every variable keeps the shape of the code's attribute. *)
THEOREM TypeCorrect == Spec => []TypeOK
<1>1. TypeOK /\ Shape /\ [Next]_vars => (TypeOK /\ Shape)'
  BY TypeStep
<1> QED
  BY <1>1, TypeInit, PTL DEF Spec

-----------------------------------------------------------------------------
(* The stages of a run *)

(* Tasks are submitted batch by batch: what was not submitted has no task,  *)
(* what was waited for is done, an alias zone comes after its zone, and     *)
(* plans are applied after the last batch if they may be.                   *)
Stages ==
  /\ pc = "idle" =>
       /\ batch = "sourced" /\ plans = {} /\ seen = {}
       /\ opts.checksum = NoChecksum
       /\ \A z \in ZoneSet : task[z] = "none"
  /\ pc # "idle" =>
       /\ \A z \in ZoneSet : task[z] # "none" <=> z \in Submitted
       /\ \A z \in Earlier : task[z] = "done"
       /\ batch # "sourced" =>
            \A a \in InBatch("aliases") : task[AliasOf[a]] = "done"
  /\ pc = "applying" =>
       /\ batch = "arpa" /\ \A z \in InBatch("arpa") : task[z] = "done"
       /\ opts.force \/ \A p \in plans : ~Unsafe(p)

(* In a run that goes on, submitted and earlier zones change with the batch *)
(* only.                                                                    *)
LEMMA SameBatch ==
  ASSUME opts' = opts, batch' = batch
  PROVE  Submitted' = Submitted /\ Earlier' = Earlier
BY SameRun DEF Submitted, Earlier

LEMMA StagesEnd ==
  ASSUME NEW why, End(why)
  PROVE  Stages'
BY DEF End, NoRun, Stages

(* A task that can start or fail was submitted and is not waited for yet.   *)
LEMMA TaskRuns ==
  ASSUME TypeOK, Stages, pc = "waiting",
         NEW z \in ZoneSet, task[z] \in {"queued", "populated"}
  PROVE  z \in Submitted /\ z \notin Earlier
BY DEF Stages

LEMMA StagesStep == TypeOK /\ Stages /\ [Next]_vars => Stages'
<1> SUFFICES ASSUME TypeOK, Stages, [Next]_vars
             PROVE  Stages'
  OBVIOUS
<1>t. ASSUME NEW z \in ZoneSet, pc = "waiting", task[z] \in {"queued", "populated"},
             NEW status \in {"populated", "done", "failed"},
             task' = [task EXCEPT ![z] = status],
             UNCHANGED <<pc, opts, batch>>
      PROVE  Stages'
  <2>1. z \in Submitted /\ z \notin Earlier
    BY <1>t, TaskRuns
  <2>2. /\ Submitted' = Submitted /\ Earlier' = Earlier
        /\ InBatch("aliases")' = InBatch("aliases")
    BY <1>t, SameBatch, SameRun
  <2>3. \A y \in ZoneSet : task'[y] = IF y = z THEN status ELSE task[y]
    BY <1>t DEF TypeOK
  <2>4. \A a \in InBatch("aliases") : AliasOf[a] \in ZoneSet
    BY ZonesAssumption, InBatchSelected, BatchOf DEF Batches, Sourced
  <2>5. Earlier \subseteq ZoneSet
    BY DEF Earlier
  <2> QED
    BY <1>t, <2>1, <2>2, <2>3, <2>4, <2>5 DEF Stages
<1>1. ASSUME NEW o \in Options, StartRun(o)
      PROVE  Stages'
  <2>1. CASE End("refused")
    BY <2>1, StagesEnd
  <2>2. CASE /\ pc' = "waiting"
             /\ task' = Queued(InBatch("sourced")')
             /\ UNCHANGED batch
    <3>1. pc = "idle" /\ batch' = "sourced" /\ \A z \in ZoneSet : task[z] = "none"
      BY <1>1, <2>2 DEF StartRun, Stages
    <3>2. /\ Submitted' = {z \in ZoneSet : z \in InBatch("sourced")'}
          /\ Earlier' = {}
      BY <3>1 DEF Submitted, Earlier
    <3>3. \A z \in ZoneSet :
            task'[z] = IF z \in InBatch("sourced")' THEN "queued" ELSE "none"
      BY <2>2, <3>1 DEF Queued
    <3> QED
      BY <2>2, <3>1, <3>2, <3>3 DEF Stages
  <2> QED
    BY <1>1, <2>1, <2>2 DEF StartRun
<1>2. ASSUME NEW z \in ZoneSet, Populate(z)
      PROVE  Stages'
  BY <1>2, <1>t DEF Populate, CanStart
<1>3. ASSUME NEW z \in ZoneSet, PlanZone(z)
      PROVE  Stages'
  BY <1>3, <1>t DEF PlanZone
<1>4. ASSUME NEW z \in ZoneSet, FailTask(z)
      PROVE  Stages'
  BY <1>4, <1>t DEF FailTask, CanStart
<1>5. CASE Abort
  BY <1>5, StagesEnd DEF Abort
<1>6. CASE SubmitAliases
  <2>1. CASE Orphans = {} /\ Submit("aliases")
    <3>1. /\ pc' = "waiting" /\ pc = "waiting" /\ batch = "sourced" /\ batch' = "aliases"
          /\ \A z \in InBatch("sourced") : task[z] = "done"
          /\ \A z \in ZoneSet :
               task'[z] = IF z \in InBatch("aliases") THEN "queued" ELSE task[z]
      BY <1>6, <2>1 DEF SubmitAliases, BatchDone, Submit, Queued
    <3>2. /\ InBatch("sourced")' = InBatch("sourced")
          /\ InBatch("aliases")' = InBatch("aliases")
      BY <2>1, SameRun DEF Submit
    <3>3. /\ Submitted' = {z \in ZoneSet : z \in InBatch("sourced") \/ z \in InBatch("aliases")}
          /\ Earlier' = {z \in ZoneSet : z \in InBatch("sourced")}
          /\ Submitted = {z \in ZoneSet : z \in InBatch("sourced")}
      BY <3>1, <3>2 DEF Submitted, Earlier
    <3>4. \A a \in InBatch("aliases") :
            AliasOf[a] \in ZoneSet /\ AliasOf[a] \notin InBatch("aliases")
                                  /\ task[AliasOf[a]] = "done"
      BY <2>1, ZonesAssumption, InBatchSelected, BatchOf DEF Batches, Sourced, Orphans
    <3> QED
      BY <3>1, <3>2, <3>3, <3>4, BatchOf DEF Stages
  <2>2. CASE End("failed")
    BY <2>2, StagesEnd
  <2> QED
    BY <1>6, <2>1, <2>2 DEF SubmitAliases
<1>7. CASE SubmitArpa
  <2>1. /\ pc' = "waiting" /\ pc = "waiting" /\ batch = "aliases" /\ batch' = "arpa"
        /\ \A z \in InBatch("aliases") : task[z] = "done"
        /\ \A z \in ZoneSet :
             task'[z] = IF z \in InBatch("arpa") THEN "queued" ELSE task[z]
    BY <1>7 DEF SubmitArpa, BatchDone, Submit, Queued
  <2>2. /\ InBatch("sourced")' = InBatch("sourced")
        /\ InBatch("aliases")' = InBatch("aliases")
        /\ InBatch("arpa")' = InBatch("arpa")
    BY <1>7, SameRun DEF SubmitArpa, Submit
  <2>3. /\ Submitted' = {z \in ZoneSet : \/ z \in InBatch("sourced")
                                        \/ z \in InBatch("aliases")
                                        \/ z \in InBatch("arpa")}
        /\ Earlier' = {z \in ZoneSet : \/ z \in InBatch("sourced")
                                      \/ z \in InBatch("aliases")}
        /\ Submitted = Earlier'
        /\ Earlier = {z \in ZoneSet : z \in InBatch("sourced")}
    BY <2>1, <2>2 DEF Submitted, Earlier
  <2>4. \A a \in InBatch("aliases") :
          AliasOf[a] \in ZoneSet /\ task[AliasOf[a]] = "done"
    BY <2>1, ZonesAssumption, InBatchSelected, BatchOf DEF Batches, Sourced, Stages
  <2>5. \A a \in InBatch("aliases") : AliasOf[a] \notin InBatch("arpa")
    BY <2>1, <2>3, <2>4, BatchOf DEF Stages
  <2> QED
    BY <2>1, <2>2, <2>3, <2>4, <2>5, BatchOf DEF Stages
<1>8. CASE Decide
  <2>1. ASSUME NEW why, End(why)
        PROVE  Stages'
    BY <2>1, StagesEnd
  <2>2. CASE ~IsUnsafe /\ pc' = "applying" /\ UNCHANGED <<runVars, result>>
    <3>1. /\ pc = "waiting" /\ batch = "arpa"
          /\ \A z \in InBatch("arpa") : task[z] = "done"
      BY <1>8 DEF Decide, BatchDone
    <3>2. opts.force \/ \A p \in plans : ~Unsafe(p)
      BY <2>2 DEF IsUnsafe
    <3>3. /\ UNCHANGED <<opts, batch, task, plans>>
          /\ Submitted' = Submitted /\ Earlier' = Earlier
          /\ InBatch("aliases")' = InBatch("aliases")
          /\ InBatch("arpa")' = InBatch("arpa")
      BY <2>2, SameBatch, SameRun DEF runVars
    <3> QED
      BY <2>2, <3>1, <3>2, <3>3 DEF Stages
  <2> QED
    BY <1>8, <2>1, <2>2 DEF Decide
<1>9. ASSUME UNCHANGED <<pc, opts, batch, task>>, plans' \subseteq plans, seen' = seen
      PROVE  Stages'
  <2>1. /\ Submitted' = Submitted /\ Earlier' = Earlier
        /\ InBatch("aliases")' = InBatch("aliases")
        /\ InBatch("arpa")' = InBatch("arpa")
    BY <1>9, SameBatch, SameRun
  <2> QED
    BY <1>9, <2>1 DEF Stages
<1>10. CASE ApplyNext
  BY <1>10, <1>9 DEF ApplyNext
<1>11. CASE FailApply
  BY <1>11, StagesEnd DEF FailApply
<1>12. CASE Finish
  BY <1>12, StagesEnd DEF Finish
<1>13. ASSUME NEW z \in Edited, EditSource(z)
       PROVE  Stages'
  BY <1>13, <1>9 DEF EditSource, runVars
<1>14. CASE UNCHANGED vars
  BY <1>14, <1>9 DEF vars, runVars
<1> QED
  BY <1>1, <1>2, <1>3, <1>4, <1>5, <1>6, <1>7, <1>8, <1>10, <1>11, <1>12, <1>13, <1>14
  DEF Next, Worker, Main

(* Applying starts and goes on only when every task of the run is done and  *)
(* nothing that it applies is unsafe, or --force was given.                 *)
THEOREM AppliesAllOrNothing == Spec => []AllOrNothing
<1>1. Init => TypeOK /\ Stages
  <2>1. Init => Stages
    BY DEF Init, Stages, NoRun
  <2> QED
    BY <2>1, TypeInit
<1>2. TypeOK /\ Shape /\ Stages /\ [Next]_vars => (TypeOK /\ Shape /\ Stages)'
  BY TypeStep, StagesStep
<1>3. TypeOK /\ Stages => AllOrNothing
  <2> SUFFICES ASSUME TypeOK, Stages, pc = "applying"
               PROVE  /\ \A z \in ZoneSet : task[z] \in {"none", "done"}
                      /\ \A name \in Batches : \A z \in InBatch(name) : task[z] = "done"
                      /\ opts.force \/ \A p \in plans : ~Unsafe(p)
    BY DEF AllOrNothing
  <2>1. batch = "arpa"
    BY DEF Stages
  <2>2. \A name \in Batches : \A z \in InBatch(name) : z \in ZoneSet /\ task[z] = "done"
    BY <2>1, InBatchSelected DEF Stages, Earlier, Batches
  <2>3. \A z \in ZoneSet : task[z] \in {"none", "done"}
    BY <2>1, <2>2 DEF Stages, Submitted, Batches
  <2> QED
    BY <2>2, <2>3 DEF Stages
<1> QED
  BY <1>1, <1>2, <1>3, TypeInit, PTL DEF Spec

-----------------------------------------------------------------------------
(* What the tasks make of the zones *)

(* Addresses are collected from each zone that is populated, in the version *)
(* that it was populated with, and a run with arpa zones is a full one.     *)
Collected ==
  /\ pc # "idle" => ~PartialArpa(opts)
  /\ \A p \in seen :
       /\ p[1] \in ZoneSet /\ p[2] = desired[p[1]].version
       /\ task[p[1]] \in {"populated", "done", "failed"}
  /\ \A z \in ZoneSet :
       task[z] \in {"populated", "done"} => \E p \in seen : p[1] = z

Tasks == Collected /\ AliasFollows /\ PtrsComplete

LEMMA TasksEnd ==
  ASSUME NEW why, End(why)
  PROVE  Tasks'
<1>1. \A z \in ZoneSet : task'[z] = "none"
  BY DEF End
<1>2. Collected'
  BY <1>1 DEF End, Collected
<1> QED
  BY <1>1, <1>2, ZonesAssumption DEF Tasks, AliasFollows, PtrsComplete, Sourced

(* Nothing that these properties look at changes, but for tasks that go on, *)
(* fail or are submitted.                                                   *)
LEMMA TasksKept ==
  ASSUME Tasks, UNCHANGED <<opts, desired, seen>>, pc' = pc \/ pc # "idle",
         \A z \in ZoneSet :
            \/ task'[z] = task[z]
            \/ task[z] = "none" /\ task'[z] = "queued"
            \/ task[z] \in {"queued", "populated"} /\ task'[z] = "failed"
            \/ task[z] = "populated" /\ task'[z] = "done"
  PROVE  Tasks'
<1>1. \A z \in ZoneSet : task'[z] \in {"populated", "done"} => task[z] \in {"populated", "done"}
  OBVIOUS
<1>2. Collected'
  BY <1>1 DEF Tasks, Collected, PartialArpa
<1>3. AliasFollows'
  BY <1>1, ZonesAssumption DEF Tasks, AliasFollows
<1>4. PtrsComplete'
  BY <1>1, SameRun, ZonesAssumption DEF Tasks, PtrsComplete, Sourced
<1> QED
  BY <1>2, <1>3, <1>4 DEF Tasks

(* The step that matters: a zone is populated. *)
LEMMA TasksPopulate ==
  ASSUME TypeOK, Shape, Stages, Tasks, NEW z \in ZoneSet, Populate(z)
  PROVE  Tasks'
<1>1. /\ pc = "waiting" /\ pc' = pc /\ opts' = opts /\ batch' = batch
      /\ task[z] = "queued"
      /\ task' = [task EXCEPT ![z] = "populated"]
      /\ desired' = [desired EXCEPT ![z] = Populated(z)]
      /\ seen' = seen \cup {<<z, Populated(z).version>>}
  BY DEF Populate, CanStart
<1>2. z \in Submitted /\ z \notin Earlier
  BY <1>1, TaskRuns
<1>3. /\ task'[z] = "populated" /\ desired'[z] = Populated(z)
      /\ \A y \in ZoneSet \ {z} : task'[y] = task[y] /\ desired'[y] = desired[y]
  BY <1>1 DEF TypeOK, Shape, IsMap
<1>4. Collected'
  <2>1. \A p \in seen : p[1] # z
    BY <1>1 DEF Tasks, Collected
  <2>2. pc' # "idle" => ~PartialArpa(opts')
    BY <1>1 DEF Tasks, Collected
  <2>3. \A p \in seen' :
           /\ p[1] \in ZoneSet /\ p[2] = desired'[p[1]].version
           /\ task'[p[1]] \in {"populated", "done", "failed"}
    BY <1>1, <1>3, <2>1 DEF Tasks, Collected
  <2>4. \A y \in ZoneSet :
          task'[y] \in {"populated", "done"} => \E p \in seen' : p[1] = y
    <3>1. ASSUME NEW y \in ZoneSet \ {z}, task'[y] \in {"populated", "done"}
          PROVE  \E p \in seen' : p[1] = y
      BY <1>1, <1>3, <3>1 DEF Tasks, Collected
    <3>2. <<z, Populated(z).version>> \in seen' /\ <<z, Populated(z).version>>[1] = z
      BY <1>1
    <3> QED
      BY <3>1, <3>2
  <2>5. PartialArpa(opts') = PartialArpa(opts)'
    BY DEF PartialArpa
  <2> QED
    BY <2>2, <2>3, <2>4, <2>5 DEF Collected
<1>5. AliasFollows'
  <2> SUFFICES ASSUME NEW a \in Aliases, task'[a] \in {"populated", "done"}
               PROVE  desired'[a].version = desired'[AliasOf[a]].version
    BY DEF AliasFollows
  <2>1. a \in ZoneSet /\ AliasOf[a] \in Sourced /\ AliasOf[a] # a /\ AliasOf[a] \in ZoneSet
    BY ZonesAssumption DEF Sourced
  <2>2. CASE a = z
    <3>1. Populated(z).version = desired[AliasOf[a]].version
      BY <2>2 DEF Populated, Content
    <3> QED
      BY <1>3, <2>1, <2>2, <3>1
  <2>3. CASE a # z
    <3>1. task[a] \in {"populated", "done"}
      BY <1>3, <2>1, <2>3
    <3>2. a \in InBatch("aliases") /\ batch # "sourced"
      BY <1>1, <2>1, <3>1, BatchOf DEF Stages, Submitted, Sourced
    <3>3. AliasOf[a] # z
      BY <1>1, <3>2 DEF Stages
    <3> QED
      BY <1>3, <2>1, <2>3, <3>1, <3>3 DEF Tasks, AliasFollows
  <2> QED
    BY <2>2, <2>3
<1>6. PtrsComplete'
  <2> SUFFICES ASSUME NEW d \in Delayed, task'[d] \in {"populated", "done"},
                      NEW y \in ZoneSet \ Delayed
               PROVE  {p[2] : p \in {p \in desired'[d].ptrs : p[1] = y}}
                        = IF TargetsOf(y) = {} THEN {} ELSE {desired'[y].version}
    BY <1>1, SameRun DEF PtrsComplete
  <2>1. d \in ZoneSet /\ d \in Sourced /\ d \notin Aliases
    BY ZonesAssumption DEF Sourced
  <2>2. d \in InBatch("arpa") /\ batch = "arpa"
    <3>1. d \in Submitted
      BY <1>1, <1>2, <1>3, <2>1 DEF Stages
    <3> QED
      BY <2>1, <3>1, BatchOf DEF Submitted
  <2>3. Selected = ZoneSet /\ opts.targets = {}
    <3>1. d \in Selected
      BY <2>2, InBatchSelected DEF Batches
    <3> QED
      BY <1>1, <2>1, <3>1 DEF Tasks, Collected, PartialArpa, Selected
  <2>4. y # z
    <3>1. z \in InBatch("arpa")
      BY <1>2, <2>2 DEF Submitted, Earlier
    <3> QED
      BY <3>1, BatchOf
  <2>5. CASE d # z
    <3>1. task[d] \in {"populated", "done"} /\ desired'[d] = desired[d]
      BY <1>3, <2>1, <2>5
    <3> QED
      BY <1>3, <2>4, <3>1 DEF Tasks, PtrsComplete
  <2>6. CASE d = z
    <3>1. desired'[d].ptrs = seen
      BY <1>3, <2>1, <2>6 DEF Populated, Content
    <3>2. CASE task[y] = "done"
      <4>1. PICK p \in seen : p[1] = y
        BY <3>2 DEF Tasks, Collected
      <4>2. \A q \in seen : q[1] = y => q[2] = desired[y].version
        BY DEF Tasks, Collected
      <4>3. {q[2] : q \in {q \in seen : q[1] = y}} = {desired[y].version}
        BY <4>1, <4>2
      <4>4. TargetsOf(y) # {}
        <5>1. y \in Submitted
          BY <1>1, <3>2 DEF Stages
        <5>2. CASE y \in InBatch("aliases")
          <6>1. y \in Aliases /\ task[AliasOf[y]] = "done"
            BY <1>1, <2>2, <5>2, BatchOf DEF Stages
          <6>2. AliasOf[y] \in ZoneSet /\ AliasOf[y] \in Sourced
            BY <6>1, ZonesAssumption DEF Sourced
          <6>3. AliasOf[y] \in Submitted
            BY <1>1, <6>1, <6>2 DEF Stages
          <6>4. TargetsOf(AliasOf[y]) # {}
            BY <6>2, <6>3, BatchOf DEF Submitted
          <6> QED
            BY <6>1, <6>2, <6>4 DEF TargetsOf, Sourced
        <5> QED
          BY <5>1, <5>2, BatchOf DEF Submitted
      <4> QED
        BY <1>3, <2>4, <3>1, <4>3, <4>4
    <3>3. CASE task[y] # "done"
      <4>1. y \notin InBatch("sourced") /\ y \notin InBatch("aliases")
        BY <1>1, <2>2, <3>3 DEF Stages, Earlier
      <4>2. y \in Sourced
        BY <2>3, <4>1 DEF InBatch, Sourced
      <4>3. TargetsOf(y) = {}
        BY <2>3, <4>1, <4>2 DEF InBatch
      <4>4. task[y] = "none"
        BY <1>1, <4>1, BatchOf DEF Stages, Submitted
      <4>5. \A q \in seen : q[1] # y
        BY <4>4 DEF Tasks, Collected
      <4> QED
        BY <3>1, <4>3, <4>5
    <3> QED
      BY <3>2, <3>3
  <2> QED
    BY <2>5, <2>6
<1> QED
  BY <1>4, <1>5, <1>6 DEF Tasks

LEMMA TasksStep == TypeOK /\ Shape /\ Stages /\ Tasks /\ [Next]_vars => Tasks'
<1> SUFFICES ASSUME TypeOK, Shape, Stages, Tasks, [Next]_vars
             PROVE  Tasks'
  OBVIOUS
<1>1. ASSUME NEW o \in Options, StartRun(o)
      PROVE  Tasks'
  <2>1. CASE End("refused")
    BY <2>1, TasksEnd
  <2>2. CASE /\ ~PartialArpa(o)
             /\ opts' = [o EXCEPT !.checksum = IF @ THEN shown ELSE NoChecksum]
             /\ task' = Queued(InBatch("sourced")')
             /\ UNCHANGED <<batch, desired, seen, plans, result>>
    <3>1. seen = {} /\ \A z \in ZoneSet : task[z] = "none"
      BY <1>1 DEF StartRun, Stages
    <3>2. \A z \in ZoneSet : task'[z] \in {"queued", "none"}
      BY <2>2, <3>1 DEF Queued
    <3>3. ~PartialArpa(opts)'
      <4>1. opts'.zones = o.zones /\ opts'.targets = o.targets
        BY <2>2, OptionsAssumption
      <4> QED
        BY <2>2, <4>1 DEF PartialArpa
    <3>4. Collected'
      BY <2>2, <3>1, <3>2, <3>3 DEF Collected
    <3> QED
      BY <3>2, <3>4, ZonesAssumption DEF Tasks, AliasFollows, PtrsComplete, Sourced
  <2> QED
    BY <1>1, <2>1, <2>2 DEF StartRun
<1>2. ASSUME NEW z \in ZoneSet, Populate(z)
      PROVE  Tasks'
  BY <1>2, TasksPopulate
<1>3. ASSUME NEW z \in ZoneSet, PlanZone(z)
      PROVE  Tasks'
  BY <1>3, TasksKept DEF PlanZone, TypeOK
<1>4. ASSUME NEW z \in ZoneSet, FailTask(z)
      PROVE  Tasks'
  BY <1>4, TasksKept DEF FailTask, CanStart, TypeOK
<1>5. CASE Abort
  BY <1>5, TasksEnd DEF Abort
<1>6. CASE SubmitAliases
  <2>1. CASE Submit("aliases") /\ pc = "waiting" /\ batch = "sourced"
    <3>1. \A z \in InBatch("aliases") : task[z] = "none"
      BY <2>1, BatchOf, InBatchSelected DEF Stages, Submitted, Batches
    <3> QED
      BY <2>1, <3>1, TasksKept DEF Submit, Queued
  <2> QED
    BY <1>6, <2>1, TasksEnd DEF SubmitAliases, BatchDone
<1>7. CASE SubmitArpa
  <2>1. \A z \in InBatch("arpa") : task[z] = "none"
    BY <1>7, BatchOf, InBatchSelected
    DEF SubmitArpa, BatchDone, Stages, Submitted, Batches
  <2> QED
    BY <1>7, <2>1, TasksKept DEF SubmitArpa, BatchDone, Submit, Queued
<1>8. CASE Decide
  <2>1. CASE pc' = "applying" /\ UNCHANGED <<runVars, result>>
    BY <1>8, <2>1, TasksKept DEF Decide, BatchDone, runVars
  <2> QED
    BY <1>8, <2>1, TasksEnd DEF Decide
<1>9. CASE ApplyNext
  BY <1>9, TasksKept DEF ApplyNext
<1>10. CASE FailApply
  BY <1>10, TasksEnd DEF FailApply
<1>11. CASE Finish
  BY <1>11, TasksEnd DEF Finish
<1>12. ASSUME NEW z \in Edited, EditSource(z)
       PROVE  Tasks'
  BY <1>12, TasksKept DEF EditSource, runVars
<1>13. CASE UNCHANGED vars
  BY <1>13, TasksKept DEF vars, runVars
<1> QED
  BY <1>1, <1>2, <1>3, <1>4, <1>5, <1>6, <1>7, <1>8, <1>9, <1>10, <1>11, <1>12, <1>13
  DEF Next, Worker, Main

LEMMA TasksInvariant == Spec => [](TypeOK /\ Shape /\ Stages /\ Tasks)
<1>1. Init => TypeOK /\ Shape /\ Stages /\ Tasks
  <2>1. Init => Stages
    BY DEF Init, Stages, NoRun
  <2>2. Init => Tasks
    BY ZonesAssumption
    DEF Init, Tasks, Collected, AliasFollows, PtrsComplete, Sourced
  <2> QED
    BY <2>1, <2>2, TypeInit
<1>2. TypeOK /\ Shape /\ Stages /\ Tasks /\ [Next]_vars
        => (TypeOK /\ Shape /\ Stages /\ Tasks)'
  BY TypeStep, StagesStep, TasksStep
<1> QED
  BY <1>1, <1>2, PTL DEF Spec

(* What an arpa zone is planned with are the addresses of each zone of the  *)
(* run in the version that is planned for that zone.                        *)
THEOREM PtrsFromAll == Spec => []PtrsComplete
<1>1. Tasks => PtrsComplete
  BY DEF Tasks
<1> QED
  BY <1>1, TasksInvariant, PTL

(* Both zones of an alias get the same version of the records.              *)
THEOREM AliasesFollow == Spec => []AliasFollows
<1>1. Tasks => AliasFollows
  BY DEF Tasks
<1> QED
  BY <1>1, TasksInvariant, PTL

-----------------------------------------------------------------------------
(* What becomes of the plans *)

(* A plan is for a zone that is done, to make a target what the zone's task *)
(* has made; what is done and not yet so at a target has a plan.            *)
PlansSound ==
  /\ \A p \in plans : p.new = desired[p.zone] /\ task[p.zone] = "done"
  /\ \A z \in ZoneSet \ AlwaysDryRun : task[z] = "done" =>
       \A t \in TargetsOf(z) :
         live[z][t] = desired[z] \/ \E p \in plans : p.zone = z /\ p.target = t

LEMMA PlansEnd ==
  ASSUME NEW why, End(why)
  PROVE  PlansSound'
<1>1. plans' = {} /\ \A z \in ZoneSet : task'[z] = "none"
  BY DEF End
<1> QED
  BY <1>1 DEF PlansSound

(* No task ends and nothing is applied. *)
LEMMA PlansKept ==
  ASSUME TypeOK, PlansSound, UNCHANGED <<opts, live, plans>>,
         \A z \in ZoneSet : task'[z] = "done" <=> task[z] = "done",
         \A z \in ZoneSet : task[z] = "done" => desired'[z] = desired[z]
  PROVE  PlansSound'
<1>1. \A z \in ZoneSet : TargetsOf(z)' = TargetsOf(z)
  BY SameRun
<1>2. \A p \in plans : p.zone \in ZoneSet
  BY DEF TypeOK
<1> QED
  BY <1>1, <1>2 DEF PlansSound

LEMMA PlansStep ==
  TypeOK /\ Shape /\ Stages /\ PlansSound /\ [Next]_vars => PlansSound'
<1> SUFFICES ASSUME TypeOK, Shape, Stages, PlansSound, [Next]_vars
             PROVE  PlansSound'
  OBVIOUS
<1>1. ASSUME NEW o \in Options, StartRun(o)
      PROVE  PlansSound'
  <2>1. CASE End("refused")
    BY <2>1, PlansEnd
  <2>2. CASE task' = Queued(InBatch("sourced")') /\ UNCHANGED <<desired, plans>>
    <3>1. plans = {} /\ \A z \in ZoneSet : task[z] = "none"
      BY <1>1 DEF StartRun, Stages
    <3>2. \A z \in ZoneSet : task'[z] # "done"
      BY <2>2, <3>1 DEF Queued
    <3> QED
      BY <2>2, <3>1, <3>2 DEF PlansSound
  <2> QED
    BY <1>1, <2>1, <2>2 DEF StartRun
<1>2. ASSUME NEW z \in ZoneSet, Populate(z)
      PROVE  PlansSound'
  <2>1. \A y \in ZoneSet : task'[y] = "done" <=> task[y] = "done"
    BY <1>2 DEF Populate, CanStart, TypeOK
  <2>2. \A y \in ZoneSet : task[y] = "done" => desired'[y] = desired[y]
    BY <1>2 DEF Populate, CanStart, TypeOK
  <2> QED
    BY <1>2, <2>1, <2>2, PlansKept DEF Populate
<1>3. ASSUME NEW z \in ZoneSet, PlanZone(z)
      PROVE  PlansSound'
  <2>1. /\ UNCHANGED <<live, opts, desired>>
        /\ task' = [task EXCEPT ![z] = "done"]
        /\ plans' = plans \cup
             {NewPlan(z, t) : t \in {t \in TargetsOf(z) : live[z][t] # desired[z]}}
    BY <1>3 DEF PlanZone
  <2>2. \A y \in ZoneSet : task'[y] = IF y = z THEN "done" ELSE task[y]
    BY <2>1 DEF TypeOK
  <2>3. ASSUME NEW p \in plans'
        PROVE  p.new = desired'[p.zone] /\ task'[p.zone] = "done"
    <3>1. CASE p \in plans
      BY <2>1, <2>2, <3>1 DEF PlansSound, TypeOK
    <3>2. CASE \E t \in TargetsOf(z) : p = NewPlan(z, t)
      BY <2>1, <2>2, <3>2 DEF NewPlan
    <3> QED
      BY <2>1, <2>3, <3>1, <3>2
  <2>4. ASSUME NEW y \in ZoneSet \ AlwaysDryRun, task'[y] = "done",
               NEW t \in TargetsOf(y), live[y][t] # desired[y]
        PROVE  \E p \in plans' : p.zone = y /\ p.target = t
    <3>1. CASE y = z
      <4>1. NewPlan(z, t) \in plans'
        BY <2>1, <2>4, <3>1
      <4>2. NewPlan(z, t).zone = z /\ NewPlan(z, t).target = t
        BY DEF NewPlan
      <4> QED
        BY <3>1, <4>1, <4>2
    <3>2. CASE y # z
      BY <2>1, <2>2, <2>4, <3>2 DEF PlansSound
    <3> QED
      BY <3>1, <3>2
  <2>5. \A y \in ZoneSet : TargetsOf(y)' = TargetsOf(y)
    BY <2>1, SameRun
  <2> QED
    BY <2>1, <2>3, <2>4, <2>5 DEF PlansSound
<1>4. ASSUME NEW z \in ZoneSet, FailTask(z)
      PROVE  PlansSound'
  BY <1>4, PlansKept DEF FailTask, CanStart, TypeOK
<1>5. CASE Abort
  BY <1>5, PlansEnd DEF Abort
<1>6. CASE SubmitAliases
  <2>1. CASE Submit("aliases") /\ pc = "waiting" /\ batch = "sourced"
    <3>1. \A z \in InBatch("aliases") : task[z] = "none"
      BY <2>1, BatchOf, InBatchSelected DEF Stages, Submitted, Batches
    <3> QED
      BY <2>1, <3>1, PlansKept DEF Submit, Queued
  <2> QED
    BY <1>6, <2>1, PlansEnd DEF SubmitAliases, BatchDone
<1>7. CASE SubmitArpa
  <2>1. \A z \in InBatch("arpa") : task[z] = "none"
    BY <1>7, BatchOf, InBatchSelected
    DEF SubmitArpa, BatchDone, Stages, Submitted, Batches
  <2> QED
    BY <1>7, <2>1, PlansKept DEF SubmitArpa, Submit, Queued
<1>8. CASE Decide
  <2>1. CASE UNCHANGED runVars
    BY <1>8, <2>1, PlansKept DEF Decide, runVars
  <2> QED
    BY <1>8, <2>1, PlansEnd DEF Decide
<1>9. CASE ApplyNext
  <2>1. PICK p \in Foremost :
          /\ plans' = plans \ {p}
          /\ live' = IF p.zone \in AlwaysDryRun THEN live
                     ELSE [live EXCEPT ![p.zone][p.target] = p.new]
    BY <1>9 DEF ApplyNext
  <2>2. /\ p \in plans /\ p.zone \in ZoneSet /\ p.target \in AllTargets
        /\ p.new = desired[p.zone]
    BY DEF Foremost, TypeOK, PlansSound
  <2>3. UNCHANGED <<opts, task, desired>>
    BY <1>9 DEF ApplyNext
  <2>4. \A z \in ZoneSet : TargetsOf(z)' = TargetsOf(z)
    BY <2>3, SameRun
  <2>5. ASSUME NEW z \in ZoneSet \ AlwaysDryRun, task[z] = "done", NEW t \in TargetsOf(z)
        PROVE  \/ live'[z][t] = desired[z]
               \/ \E q \in plans' : q.zone = z /\ q.target = t
    <3>1. t \in AllTargets
      BY TargetsOfZone
    <3>2. CASE p.zone = z /\ p.target = t
      BY <2>1, <2>2, <3>1, <3>2 DEF Shape, IsMap
    <3>3. CASE ~(p.zone = z /\ p.target = t)
      <4>1. live'[z][t] = live[z][t]
        BY <2>1, <2>2, <3>1, <3>3 DEF Shape, IsMap
      <4> QED
        BY <2>1, <2>5, <3>3, <4>1 DEF PlansSound
    <3> QED
      BY <3>2, <3>3
  <2> QED
    BY <2>1, <2>3, <2>4, <2>5 DEF PlansSound
<1>10. CASE FailApply
  BY <1>10, PlansEnd DEF FailApply
<1>11. CASE Finish
  BY <1>11, PlansEnd DEF Finish
<1>12. ASSUME NEW z \in Edited, EditSource(z)
       PROVE  PlansSound'
  BY <1>12, PlansKept DEF EditSource, runVars
<1>13. CASE UNCHANGED vars
  BY <1>13, PlansKept DEF vars, runVars
<1> QED
  BY <1>1, <1>2, <1>3, <1>4, <1>5, <1>6, <1>7, <1>8, <1>9, <1>10, <1>11, <1>12, <1>13
  DEF Next, Worker, Main

LEMMA PlansInvariant == Spec => [](TypeOK /\ Shape /\ Stages /\ PlansSound)
<1>1. Init => TypeOK /\ Shape /\ Stages /\ PlansSound
  <2>1. Init => Stages
    BY DEF Init, Stages, NoRun
  <2>2. Init => PlansSound
    BY DEF Init, PlansSound
  <2> QED
    BY <2>1, <2>2, TypeInit
<1>2. TypeOK /\ Shape /\ Stages /\ PlansSound /\ [Next]_vars
        => (TypeOK /\ Shape /\ Stages /\ PlansSound)'
  BY TypeStep, StagesStep, PlansStep
<1> QED
  BY <1>1, <1>2, PTL DEF Spec

(* Only Finish ends a run as applied, and only with no plan left. *)
LEMMA AppliedByFinish ==
  ASSUME [Next]_vars, pc = "applying", pc' = "idle", result' = "applied"
  PROVE  Finish
<1>1. CASE \E o \in Options : StartRun(o)
  BY <1>1 DEF StartRun
<1>2. CASE Worker
  BY <1>2 DEF Worker, Populate, PlanZone, FailTask
<1>3. CASE Abort \/ SubmitAliases \/ SubmitArpa \/ Decide
  BY <1>3 DEF Abort, SubmitAliases, SubmitArpa, Decide, BatchDone
<1>4. CASE ApplyNext
  BY <1>4 DEF ApplyNext
<1>5. CASE FailApply
  BY <1>5 DEF FailApply, End
<1>6. CASE \E z \in Edited : EditSource(z)
  BY <1>6 DEF EditSource
<1>7. CASE UNCHANGED vars
  BY <1>7 DEF vars
<1> QED
  BY <1>1, <1>2, <1>3, <1>4, <1>5, <1>6, <1>7 DEF Next, Main

(* A run that ends well leaves each of its targets with what it planned.    *)
THEOREM AppliedAsPlanned == Spec => RunSettles
<1>1. /\ TypeOK /\ PlansSound /\ [Next]_vars
      /\ pc = "applying" /\ result' = "applied" /\ pc' = "idle"
      => \A z \in ZoneSet \ AlwaysDryRun : task[z] = "done" =>
           \A t \in TargetsOf(z) : live[z][t] = desired[z]
  BY AppliedByFinish DEF Finish, PlansSound
<1>2. /\ TypeOK /\ PlansSound /\ [Next]_vars
      => [pc = "applying" /\ result' = "applied" /\ pc' = "idle" =>
            \A z \in ZoneSet \ AlwaysDryRun : task[z] = "done" =>
              \A t \in TargetsOf(z) : live[z][t] = desired[z]]_vars
  BY <1>1
<1> QED
  BY <1>2, PlansInvariant, PTL DEF Spec, RunSettles

-----------------------------------------------------------------------------
(* The order of applying *)

(* Only applying a plan of the longest zone names changes a target.         *)
LEMMA ChangedByForemost ==
  ASSUME TypeOK, Shape, [Next]_vars, NEW z \in ZoneSet, live'[z] # live[z]
  PROVE  \E p \in Foremost : p.zone = z
<1>1. CASE ApplyNext
  <2>1. PICK p \in Foremost :
          live' = IF p.zone \in AlwaysDryRun THEN live
                  ELSE [live EXCEPT ![p.zone][p.target] = p.new]
    BY <1>1 DEF ApplyNext
  <2> QED
    BY <2>1 DEF Shape, IsMap
<1>2. CASE FailApply
  <2>1. PICK p \in Foremost : live' = [live EXCEPT ![p.zone][p.target] = Partial]
    BY <1>2 DEF FailApply
  <2> QED
    BY <2>1 DEF Shape, IsMap
<1>3. CASE \E o \in Options : StartRun(o)
  BY <1>3 DEF StartRun
<1>4. CASE Worker
  BY <1>4 DEF Worker, Populate, PlanZone, FailTask
<1>5. CASE Abort \/ SubmitAliases \/ SubmitArpa \/ Decide \/ Finish
  BY <1>5 DEF Abort, SubmitAliases, SubmitArpa, Submit, Decide, Finish
<1>6. CASE \E y \in Edited : EditSource(y)
  BY <1>6 DEF EditSource
<1>7. CASE UNCHANGED vars
  BY <1>7 DEF vars
<1> QED
  BY <1>1, <1>2, <1>3, <1>4, <1>5, <1>6, <1>7 DEF Next, Main

(* A zone is not changed while a plan for one of its sub-zones has still to *)
(* be applied.                                                              *)
THEOREM SubZonesFirst == Spec => ChildrenFirst
<1>1. ASSUME TypeOK, Shape, [Next]_vars, NEW pair \in SubZoneOf,
             live'[pair[2]] # live[pair[2]], NEW q \in plans, q.zone = pair[1]
      PROVE  FALSE
  <2>1. pair[1] \in ZoneSet /\ pair[2] \in ZoneSet
    BY ZonesAssumption
  <2>2. PICK p \in Foremost : p.zone = pair[2]
    BY <1>1, <2>1, ChangedByForemost
  <2>3. Length[q.zone] <= Length[p.zone]
    BY DEF Foremost
  <2> QED
    BY <1>1, <2>1, <2>2, <2>3, LengthAssumption
<1>2. TypeOK /\ Shape /\ [Next]_vars
      => [\A pair \in SubZoneOf :
            live'[pair[2]] # live[pair[2]] => \A p \in plans : p.zone # pair[1]]_vars
  BY <1>1
<1> QED
  BY <1>2, PlansInvariant, PTL DEF Spec, ChildrenFirst

-----------------------------------------------------------------------------
(* Checksums *)

(* A run that has been given a checksum computes one. *)
ChecksumEnabled == opts.checksum # NoChecksum => opts.enabled

LEMMA ChecksumEnabledStep ==
  ASSUME \A o \in Options : o.checksum => o.enabled,
         ChecksumEnabled, [Next]_vars
  PROVE  ChecksumEnabled'
<1>1. ASSUME NEW why, End(why)
      PROVE  ChecksumEnabled'
  BY <1>1 DEF End, NoRun, ChecksumEnabled
<1>2. ASSUME NEW o \in Options, StartRun(o)
      PROVE  ChecksumEnabled'
  <2>1. CASE opts' = [o EXCEPT !.checksum = IF @ THEN shown ELSE NoChecksum]
    <3>1. /\ opts'.enabled = o.enabled
          /\ opts'.checksum = IF o.checksum THEN shown ELSE NoChecksum
      BY <2>1, OptionsAssumption
    <3> QED
      BY <3>1 DEF ChecksumEnabled
  <2> QED
    BY <1>1, <1>2, <2>1 DEF StartRun
<1>3. CASE UNCHANGED opts
  BY <1>3 DEF ChecksumEnabled
<1>4. CASE Worker \/ ApplyNext \/ SubmitArpa
  BY <1>3, <1>4
  DEF Worker, Populate, PlanZone, FailTask, ApplyNext, SubmitArpa, Submit
<1>5. CASE SubmitAliases \/ Decide
  BY <1>1, <1>3, <1>5 DEF SubmitAliases, Submit, Decide, runVars
<1>6. CASE Abort \/ FailApply \/ Finish
  BY <1>1, <1>6 DEF Abort, FailApply, Finish
<1>7. CASE (\E z \in Edited : EditSource(z)) \/ UNCHANGED vars
  BY <1>3, <1>7 DEF EditSource, vars, runVars
<1> QED
  BY <1>2, <1>4, <1>5, <1>6, <1>7 DEF Next, Main

LEMMA NothingToDigest ==
  ASSUME Digest(plans) = NoChecksum
  PROVE  plans = {}
<1>1. DOMAIN Digest(plans) = {<<p.old, p.new>> : p \in plans}
  BY DEF Digest
<1>2. DOMAIN NoChecksum = {}
  BY DEF NoChecksum
<1> QED
  BY <1>1, <1>2

(* Where a checksum is only asked for when checksums are enabled, what is   *)
(* applied has the checksum that was asked for, or nothing is applied.      *)
THEOREM ChecksumHolds ==
  ASSUME \A o \in Options : o.checksum => o.enabled
  PROVE  Spec => ChecksumMatches
<1>1. Init => ChecksumEnabled
  BY DEF Init, NoRun, ChecksumEnabled
<1>2. ChecksumEnabled /\ [Next]_vars => ChecksumEnabled'
  BY ChecksumEnabledStep
<1>3. ASSUME ChecksumEnabled, [Next]_vars, pc = "waiting", pc' = "applying",
             opts.checksum # NoChecksum
      PROVE  plans' = {} \/ opts.checksum = Digest(plans')
  <2>1. Decide
    <3>1. CASE \E o \in Options : StartRun(o)
      BY <1>3, <3>1 DEF StartRun
    <3>2. CASE Worker
      BY <1>3, <3>2 DEF Worker, Populate, PlanZone, FailTask
    <3>3. CASE Abort \/ SubmitAliases \/ SubmitArpa
      BY <1>3, <3>3 DEF Abort, SubmitAliases, SubmitArpa, Submit, End
    <3>4. CASE ApplyNext \/ FailApply \/ Finish
      BY <1>3, <3>4 DEF ApplyNext, FailApply, Finish
    <3>5. CASE (\E z \in Edited : EditSource(z)) \/ UNCHANGED vars
      BY <1>3, <3>5 DEF EditSource, vars
    <3> QED
      BY <1>3, <3>1, <3>2, <3>3, <3>4, <3>5 DEF Next, Main
  <2>2. ~IsMismatch /\ plans' = plans
    BY <1>3, <2>1 DEF Decide, End, runVars
  <2>3. Checksum = Digest(plans)
    BY <1>3 DEF Checksum, ChecksumEnabled
  <2>4. Digest(plans) = NoChecksum \/ Digest(plans) = opts.checksum
    BY <2>2, <2>3 DEF IsMismatch
  <2>5. Digest(plans') = Digest(plans)
    BY <2>2
  <2> QED
    BY <2>2, <2>4, <2>5, NothingToDigest
<1>4. ChecksumEnabled /\ [Next]_vars
      => [pc = "waiting" /\ pc' = "applying" /\ opts.checksum # NoChecksum =>
            plans' = {} \/ opts.checksum = Digest(plans')]_vars
  BY <1>3
<1> QED
  BY <1>1, <1>2, <1>4, PTL DEF Spec, ChecksumMatches
=============================================================================
