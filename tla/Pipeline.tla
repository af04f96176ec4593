----------------------------- MODULE Pipeline -----------------------------
(***************************************************************************)
(* The records of a few zones on their way through the processors to one   *)
(* target, over several runs: Manager._populate_and_plan with what the     *)
(* processors do before, while and after BaseProvider.plan compares the    *)
(* zones, and the plans being applied.                                     *)
(*                                                                         *)
(* The zones of a run share the run's processor objects, and their tasks   *)
(* run side by side: a step of one falls between any two of another.  What *)
(* the target holds is also changed by others, who answer challenges or    *)
(* manage records of their own there.                                      *)
(*                                                                         *)
(* Simplified, because Target and Sync have it: every record is supported, *)
(* every run is forced and applies what it has planned.                    *)
(***************************************************************************)
EXTENDS Processors

CONSTANTS
  Zones,            \* the configured zones, in the order that they are applied in
  Chains,           \* the chains of processors that the zones may be configured with
  Sources(_, _),    \* Sources(chain, z): the zones that the sources may yield
  Lives(_, _),      \* Lives(chain, z): what the target may hold to begin with
  Others(_, _),     \* Others(chain, z): the records that others add and remove there
  MaxRuns,          \* bound: how many runs are started
  MetaValues(_)     \* MetaProcessor.values in a run: they have the run's time

ZoneSet == {Zones[i] : i \in DOMAIN Zones}

IsSequence(s) == s \in Seq({s[i] : i \in DOMAIN s})
IsRecord(r) ==
  /\ IsSequence(r.name)
  /\ r \in [name : {r.name}, type : {r.type}, value : {r.value}, ignored : BOOLEAN,
            included : {r.included}, excluded : {r.excluded}, lenient : BOOLEAN]
ASSUME RecordsAssumption ==
  \A c \in Chains, z \in ZoneSet :
     \A r \in Others(c, z) \cup UNION (Sources(c, z) \cup Lives(c, z)) :
       IsRecord(r) /\ Policies(r) \subseteq DOMAIN SpfTerms
ASSUME RunsAssumption == MaxRuns \in Nat

(* A zone and a target have one record of a name and type. *)
ASSUME KeyedAssumption ==
  \A c \in Chains, z \in ZoneSet : \A l \in Sources(c, z) \cup Lives(c, z) : IsKeyed(l)

(* The meta record is not named like a mark or a challenge. *)
ASSUME ChainsAssumption ==
  \A c \in Chains :
    /\ Len(c) \in Nat /\ c = [i \in 1 .. Len(c) |-> c[i]]
    /\ \A i \in DOMAIN c : c[i].class = "meta" =>
         /\ IsSequence(c[i].record_name) /\ c[i].record_name # Apex
         /\ c[i].record_name[1] \notin {"_owner", "_acme-challenge"}

VARIABLES
  chain,     \* the processors that all the zones are configured with
  source,    \* source[z]: what the sources yield for zone z in this run
  live,      \* live[z]: the records at the target
  stage,     \* stage[z]: what became of the zone's task
  desired,   \* desired[z]: the desired zone, once processed
  existing,  \* existing[z]: Plan.existing
  todo,      \* todo[z]: the changes of the plan that are still to be made
  owned,     \* AcmeManagingProcessor._owned
  runs,      \* runs started
  managed,   \* managed[z]: the records that the sources of a run have had, with
             \* whether they were for the target
  settled    \* pairs <<z, s>>: the target is what a run with the source s has
             \* made or is about to make of it, and nobody has touched it since

runVars == <<desired, existing, todo, owned>>
vars == <<chain, source, live, stage, runVars, runs, managed, settled>>

Idle == \A z \in ZoneSet : stage[z] = "none"

End ==
  /\ stage' = [z \in ZoneSet |-> "none"]
  /\ desired' = [z \in ZoneSet |-> {}] /\ existing' = [z \in ZoneSet |-> {}]
  /\ todo' = [z \in ZoneSet |-> {}]
  /\ owned' = {}

-----------------------------------------------------------------------------
(* A run *)

StartRun ==
  /\ Idle /\ runs < MaxRuns
  /\ runs' = runs + 1
  /\ stage' = [z \in ZoneSet |-> "queued"]
  /\ source' \in {s \in [ZoneSet -> UNION {Sources(chain, z) : z \in ZoneSet}] :
                    \A z \in ZoneSet : s[z] \in Sources(chain, z)}
  /\ managed' = [z \in ZoneSet |->
                   managed[z] \cup
                     {[name |-> r.name, type |-> r.type, concerns |-> Concerns(r)] :
                        r \in source'[z]}]
  /\ UNCHANGED <<chain, live, runVars, settled>>

(* populate and process_source_zone *)
ProcessSource(z) ==
  /\ stage[z] = "queued"
  /\ \/ /\ SourceChainRaises(chain, source[z])
        /\ stage' = [stage EXCEPT ![z] = "failed"]
        /\ UNCHANGED <<desired, owned>>
     \/ /\ ~SourceChainRaises(chain, source[z])
        /\ stage' = [stage EXCEPT ![z] = "processed"]
        /\ desired' = [desired EXCEPT ![z] = SourceChain(chain, source[z])]
        /\ owned' = owned \cup Seen(chain, source[z])
  /\ UNCHANGED <<chain, source, live, existing, todo, runs, managed, settled>>

(* _process_existing_zone *)
Unconfigured(zone, wanted) == IF RootNsIn(wanted) = {} THEN RootNsIn(zone) ELSE {}

(* plan of the target and process_plan *)
PlanZone(z) ==
  LET values  == MetaValues(runs)
      visible == live[z] \ Unconfigured(live[z], desired[z])
      found   == TargetChain(chain, owned, visible)
      wanted  == BothChain(chain, values, desired[z])
      changes == ZoneChanges(found, wanted)
      raises  == \/ TargetChainRaises(chain, owned, visible)
                 \/ BothChainRaises(chain, values, desired[z])
                 \/ PlanChainRaises(chain, values, found, wanted, changes)
  IN  /\ stage[z] = "processed"
      /\ \/ /\ raises
            /\ stage' = [stage EXCEPT ![z] = "failed"]
            /\ UNCHANGED <<desired, existing, todo>>
         \/ /\ ~raises
            /\ stage' = [stage EXCEPT ![z] = "planned"]
            /\ desired' = [desired EXCEPT ![z] = wanted]
            /\ existing' = [existing EXCEPT ![z] = found]
            /\ todo' = [todo EXCEPT ![z] = PlanChain(chain, values, found, wanted, changes)]
      /\ settled' = IF raises THEN settled
                    ELSE {s \in settled : s[1] # z} \cup {<<z, source[z]>>}
      /\ UNCHANGED <<chain, source, live, owned, runs, managed>>

(* The run ends before it has made all of its changes. *)
EndEarly ==
  /\ End
  /\ settled' = {s \in settled : todo[s[1]] = {}}
  /\ UNCHANGED <<chain, source, live, runs, managed>>

Abort == (\E z \in ZoneSet : stage[z] = "failed") /\ EndEarly

AllPlanned == \A z \in ZoneSet : stage[z] = "planned"
Earlier(z) ==
  {Zones[i] : i \in {i \in DOMAIN Zones : \A j \in DOMAIN Zones : Zones[j] = z => i < j}}

ApplyNext(z) ==
  /\ AllPlanned /\ \A y \in Earlier(z) : todo[y] = {}
  /\ \E c \in Foremost(todo[z]) :
        /\ live' = [live EXCEPT ![z] = ApplyChange(@, c)]
        /\ todo' = [todo EXCEPT ![z] = @ \ {c}]
  /\ UNCHANGED <<chain, source, stage, desired, existing, owned, runs, managed, settled>>

FailApply == AllPlanned /\ (\E z \in ZoneSet : todo[z] # {}) /\ EndEarly

Finish ==
  /\ AllPlanned /\ \A z \in ZoneSet : todo[z] = {}
  /\ End
  /\ UNCHANGED <<chain, source, live, runs, managed, settled>>

(* Somebody else adds a record to the target or removes theirs from it.     *)
EditLive(z) ==
  /\ \E r \in Others(chain, z) :
        \/ ~HasSame(live[z], r) /\ live' = [live EXCEPT ![z] = @ \cup {r}]
        \/ r \in live[z] /\ live' = [live EXCEPT ![z] = @ \ {r}]
  /\ settled' = {s \in settled : s[1] # z}
  /\ UNCHANGED <<chain, source, stage, runVars, runs, managed>>

Init ==
  /\ chain \in Chains
  /\ source = [z \in ZoneSet |-> {}]
  /\ live \in {l \in [ZoneSet -> UNION {Lives(chain, z) : z \in ZoneSet}] :
                 \A z \in ZoneSet : l[z] \in Lives(chain, z)}
  /\ stage = [z \in ZoneSet |-> "none"]
  /\ desired = [z \in ZoneSet |-> {}] /\ existing = [z \in ZoneSet |-> {}]
  /\ todo = [z \in ZoneSet |-> {}]
  /\ owned = {} /\ runs = 0
  /\ managed = [z \in ZoneSet |-> {}]
  /\ settled = {}

Next ==
  \/ StartRun \/ Abort \/ FailApply \/ Finish
  \/ \E z \in ZoneSet : ProcessSource(z) \/ PlanZone(z) \/ ApplyNext(z) \/ EditLive(z)

Spec == Init /\ [][Next]_vars

-----------------------------------------------------------------------------
(* What the properties below rest on, where not every chain and every zone  *)
(* has them *)

(* octoDNS's marks are its own: the sources have none, others make none.    *)
MarksAreOwn ==
  \A c \in Chains, z \in ZoneSet :
    /\ \A r \in UNION Sources(c, z) :
         ~IsOwnershipName(r) /\ \A i \in DOMAIN r.name : r.name[i] # "_wildcard"
    /\ \A r \in Others(c, z) \cup UNION Lives(c, z) : ~IsOwnership(r)

(* Marks of others are respected, and are about neither marks nor the meta  *)
(* record, which octoDNS updates in any case.                               *)
MarksOfOthers ==
  \A c \in Chains, z \in ZoneSet :
    /\ \A i \in DOMAIN c : c[i].class = "ownership" => ~c[i].allow_takeover
    /\ \A m \in Others(c, z) \cup UNION Lives(c, z) : IsOwnershipName(m) =>
         LET d == Decoded(m)
         IN  /\ d.name # <<"octodns-meta">>
             /\ ~IsOwnershipName([name |-> d.name, type |-> d.type])

(* Others do not say that their challenges are octoDNS's. *)
ChallengesOfOthers ==
  \A c \in Chains, z \in ZoneSet :
    \A r \in Others(c, z) : IsChallenge(r) => Managing \notin r.value

(* Filters let pass what other processors of the chain add. *)
FiltersPass ==
  \A c \in Chains : \A i, j \in DOMAIN c :
    c[i].class = "filter" /\ c[i].include_target /\ c[i].by \in {"type", "name"} =>
      /\ c[j].class = "meta" => Keeps(c[i], MetaRecord(c[j], {}))
      /\ c[j].class = "ownership" =>
           \A z \in ZoneSet : \A r \in UNION Sources(c, z) : Keeps(c[i], Marker(r))

(* Filters by value and network let pass what the chain makes of what they  *)
(* have let pass.                                                           *)
FiltersPassValues ==
  \A c \in Chains, z \in ZoneSet : \A i \in DOMAIN c :
    c[i].class = "filter" /\ c[i].include_target /\ c[i].by \notin {"type", "name"} =>
      \A s \in Sources(c, z), run \in 0 .. MaxRuns :
        \A r \in BothChain(c, MetaValues(run), SourceChain(c, s)) : Keeps(c[i], r)

(* A chain has one MetaProcessor at most, after the processors that take    *)
(* changes out of a plan: it looks at what they have left.                  *)
MetaComesLast ==
  \A c \in Chains : \A i, j \in DOMAIN c :
    c[i].class = "meta" /\ c[j].class \in {"meta", "ownership", "exclude_root_ns_changes"}
      => j <= i

(* The keys of the meta record are the same in every run, and one that is   *)
(* not updated has them.                                                    *)
MetaKeysStay ==
  \A run \in 0 .. MaxRuns :
    /\ \A v \in MetaValues(run) : ~IsTemplate(v)
    /\ \A later \in 0 .. MaxRuns : Keys(MetaValues(later)) = Keys(MetaValues(run))
    /\ \A c \in Chains, z \in ZoneSet : \A r \in Others(c, z) \cup UNION Lives(c, z) :
         Reads(r.value) = Reads(MetaValues(run)) => Keys(r.value) = Keys(MetaValues(run))

(* Policies are not made from templates, which are filled in after the      *)
(* check, nor by MetaProcessor.                                             *)
PoliciesAreChecked ==
  /\ \A v \in DOMAIN Rendered : Rendered[v][1] # "spf"
  /\ \A run \in 0 .. MaxRuns : \A v \in MetaValues(run) : v[1] # "spf"

-----------------------------------------------------------------------------
(* Properties *)

Has(class) == \E i \in DOMAIN chain : chain[i].class = class

(* The target is about to lose or to change record r of zone z for the run. *)
Loses(z, r) == todo'[z] # todo[z] /\ stage'[z] = "planned" /\ stage[z] = "planned" /\ r \notin live'[z]

(* Record r of the target is one that the run has to do with, or a marker,  *)
(* or a marker was found for it and it is one of `told`.                    *)
IsOurs(z, r, told) ==
  \/ HasSame(source[z], r) \/ IsOwnership(r) \/ r.name = <<"octodns-meta">>
  \/ IsOwnershipName(r) /\ HasSame(source[z], Decoded(r))
  \/ HasSame(existing[z], Marker(r)) /\ HasSame(told, r)

(* With the OwnershipProcessor the target loses no record but those that    *)
(* the sources of the run have, the markers, and those that a marker was    *)
(* found for and that the sources have had in an earlier run, be it as ones *)
(* that are not for this target: those are marked there as well.            *)
OnlyOwned ==
  [][Has("ownership") =>
       \A z \in ZoneSet : \A r \in live[z] : Loses(z, r) => IsOurs(z, r, managed[z])]_vars

(* The same with the records alone that the sources have had for this       *)
(* target, which the code does not keep to (MCPipelineExcluded.cfg).        *)
OnlyOwnedForTarget ==
  [][Has("ownership") =>
       \A z \in ZoneSet : \A r \in live[z] :
         Loses(z, r) => IsOurs(z, r, {m \in managed[z] : m.concerns})]_vars

(* A record that somebody else has marked as theirs is not touched, and the *)
(* mark is not either.                                                      *)
IsForeign(z, r) ==
  \E m \in existing[z] :
     /\ IsOwnershipName(m) /\ ~IsOwnership(m)
     /\ m = r \/ SameRecord(Decoded(m), r)
ForeignKept ==
  [][Has("ownership") =>
       \A z \in ZoneSet : \A r \in live[z] : Loses(z, r) => ~IsForeign(z, r)]_vars

(* Challenges that others answer are left to them: only one that octoDNS    *)
(* has made itself is removed or changed, or one of a name that the sources *)
(* of some zone of the run have.  The AcmeManagingProcessor remembers names *)
(* without their zones, and the tasks of all zones share it.                *)
ChallengesKept ==
  [][Has("acme") =>
       \A z \in ZoneSet : \A r \in live[z] : IsChallenge(r) /\ Loses(z, r) =>
         Managing \in r.value \/ \E y \in ZoneSet : HasSame(source[y], r)]_vars

(* The same with the sources of its own zone alone, which the code does not *)
(* keep to (MCPipelineAcme.cfg).                                            *)
ChallengesKeptByZone ==
  [][Has("acme") =>
       \A z \in ZoneSet : \A r \in live[z] : IsChallenge(r) /\ Loses(z, r) =>
         Managing \in r.value \/ HasSame(source[z], r)]_vars

(* A record that a filter takes out of the target's zone by its type or its *)
(* name stays at the target as it is.                                       *)
FilteredOut(r) ==
  \E i \in DOMAIN chain :
     \/ /\ chain[i].class = "filter" /\ chain[i].include_target
        /\ chain[i].by \in {"type", "name"} /\ ~Keeps(chain[i], r)
     \/ chain[i].class = "ignore_root_ns" /\ IsRootNs(r)
FilteredStay ==
  [][\A z \in ZoneSet : \A r \in live[z] : Loses(z, r) => ~FilteredOut(r)]_vars

(* With the SpfDnsLookupProcessor no policy gets past the sources that      *)
(* costs more than ten lookups, those of the policies it includes among     *)
(* them, or that uses ptr: but one that is the eleventh in a policy's last  *)
(* term, after which the limit is not looked at again.                      *)
CostOf(term, costs) ==
  CASE term.kind = "other" -> 0
    [] term.kind = "lookup" -> 1
    [] /\ term.kind = "include" /\ term.domain \in DOMAIN Published
       /\ Published[term.domain] = {} -> 1
    [] /\ term.kind = "include" /\ term.domain \in DOMAIN Published
       /\ \E p \in Published[term.domain] : Published[term.domain] = {p} ->
         1 + costs[CHOOSE p \in Published[term.domain] : TRUE]
    [] OTHER -> Objection
CostOfAll(terms, costs) ==
  LET sum[i \in 0 .. Len(terms)] ==
        IF i = 0 THEN 0 ELSE sum[i - 1] + CostOf(terms[i], costs)
  IN  sum[Len(terms)]
Costs ==
  LET costs[depth \in 0 .. Objection] ==
        [p \in DOMAIN SpfTerms |->
           IF depth = 0 THEN Objection ELSE CostOfAll(SpfTerms[p], costs[depth - 1])]
  IN  costs
EndsInLookup(policy) ==
  SpfTerms[policy][Len(SpfTerms[policy])].kind \in {"lookup", "include"}
PoliciesWithinLimit ==
  Has("spf") =>
    \A z \in ZoneSet : \A r \in desired[z] : r.type = "TXT" /\ ~r.lenient =>
      \A p, q \in Policies(r) :
        /\ p = q
        /\ Costs[Objection][p] <= LookupLimit + (IF EndsInLookup(p) THEN 1 ELSE 0)

(* A challenge at the target is seen because another zone's sources have    *)
(* one of its name.                                                         *)
SeesForAnother(z) ==
  \E r \in live[z] :
    IsChallenge(r) /\ KeepsChallenge(r, owned) /\ ~KeepsChallenge(r, Seen(chain, source[z]))

(* When the sources are what they were in a run that ended well and nobody  *)
(* has touched the target since, nothing is planned: neither markers, nor   *)
(* challenges, nor the time in the meta record make the target change on    *)
(* every run.  Whether a challenge of another zone's name is seen depends   *)
(* on the order of the tasks, and may be different every time.              *)
Quiet ==
  [][\A z \in ZoneSet :
       stage[z] = "processed" /\ stage'[z] = "planned" /\ <<z, source[z]>> \in settled
         => SeesForAnother(z) \/ todo'[z] = {}]_vars
=============================================================================
