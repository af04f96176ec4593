# A TLA+ model of octoDNS

octoDNS reads the DNS zones that somebody *wants* from **sources**, compares
them with what is at **targets** (DNS providers, or files) and makes the
changes. This directory holds TLA+ modules of that machinery, TLC
configurations that check them on small instances, and TLAPS proofs of what
matters most. Source paths are relative to the repository's root.

## The system

### Components, their state and how they interact

| component | code | state | operations |
|---|---|---|---|
| `Zone` | `octodns/zone/base.py` | `_records` by name, `_root_ns`, `_origin` (the zone it is an unwritten copy of), `ignore_subzone_adds` | `add_record`, `remove_record`, `hydrate`, `copy`, `changes`, `apply`, `validate` |
| `Record`, `Change` | `octodns/record/` | immutable by convention; identity is (name, type), see `_equality_tuple` | `changes`, `copy`, ordering of changes |
| `BaseProvider` | `octodns/provider/base.py` | configuration only | `plan` (populate, process, compare), `apply` |
| `Plan` | `octodns/provider/plan.py` | desired, existing, sorted changes, thresholds, `exists` | `raise_if_unsafe`, outputs |
| `YamlProvider` | `octodns/provider/yaml.py` | files on disk | `populate`, `_apply` (rewrites the zone's file), `list_zones` |
| other sources | `octodns/source/` | none between calls | `populate`, `list_zones` |
| processors | `octodns/processor/` | `AutoArpa._records`, `AcmeManagingProcessor._owned`, `MetaProcessor`'s values | `process_source_zone`, `process_target_zone`, `process_source_and_target_zones`, `process_plan` |
| `Manager` | `octodns/manager.py` | the configuration, providers, processors, an executor, cached sub-zones | `sync`, `dump`, `compare`, `validate_configs`, `get_zone` |
| validators and their registries | `octodns/zone/`, `octodns/record/validator.py` | registered and enabled validators | `register`, `enable`, `process` |
| commands | `octodns/cmds/` | none | one process per command |

`Manager.sync` is the centre. For every selected zone it submits
`_populate_and_plan` to an executor: a `ThreadPoolExecutor`, or with one worker
a stand-in that runs the task when its result is asked for. A task makes a
`Zone`, lets the sources populate it, runs `process_source_zone` of each
processor, validates the zone and calls `plan` of each target, which populates
a second zone with what is there and returns a `Plan` or `None`. Three batches
follow each other: zones with sources, alias zones (which take the records of
an earlier task's zone), and arpa zones held back for `AutoArpa`. Then, on the
main thread: sort, outputs, checksum, safety checks, end of a dry run,
comparison of the checksum, and one `target.apply(plan)` after the other. There
is no transaction, no log and no retry: a run that fails is followed, at some
time, by another one that plans anew against whatever is there.

### What is hard here

* **Shared objects.** Copies of a zone share its records until one is written;
  a processor object serves all zones on all threads; loop variables of `sync`
  are used after their loop.
* **Order.** Deletes before creates within a plan, children before parents
  among plans, arpa zones after all that they are made from.
* **Partial failure.** A target may raise between two changes, a task may raise
  while others still run, a plan may be unsafe while others are fine.
* **Time between looking and acting.** The plan is made from what sources and
  targets held earlier; a checksum covers what a reviewer saw in another run.
* **Views that are not the thing.** `plan.existing` is what is there *minus*
  what the target was told to leave alone; whoever writes a zone from it loses
  the rest.

* **State that outlives its user.** The validator registries belong to the process
  and not to the `Manager` that configures them; the configuration of zones is a
  dict that calls change; a directory keeps what a killed run has left.

`PROJECT.json` lists these as `hazards`, each at its line, with the properties
that cover it or the reason why none does.

### What makes each component correct

* `Zone`: the cached root NS and the records agree, one record per name and
  type, refused calls lose nothing, copies are independent snapshots.
* `plan`/`apply` of one target: what is left after a failure is what the next
  plan contains; a finished run settles; records that are not the target's are
  untouched; CNAMEs are alone at all times; without `--force` the root NS record
  stays and losses are bounded.
* `sync`: all zones or none; arpa zones from the complete picture; aliases and
  their zone from one version of the sources; children before parents; every
  run ends; an approved checksum is that of what is applied.
* processors: what `Ownership`, `Acme` and the filters are there to protect is
  not changed or deleted, whatever the order of tasks, runs and edits by others;
  none of them makes a target change on every run.
* validators: those that run are those that were asked for, whatever ran in the
  process before; bridges always run; a zone that passes is one that a resolver
  finds its way through, and its mail records agree with each other.
* dynamic records: every client meets a rule, every pool is used, fallbacks end;
  also in what is left for a target that supports less.
* zones of the configuration: each listed zone goes to the first configuration
  that claims it, and each name belongs to one zone.
* `YamlProvider`'s files: they can be read, but for one file at most that a write was
  cut off in, and show the zone after a run that ended well.
* tinydns files: forward and reverse zones agree, the order of files does not
  matter, a zone and the zones below it agree on the delegations.

## The modules

| module | models | note |
|---|---|---|
| `Records` | names, record identity, sets of records | shared vocabulary |
| `Zone` | `Zone` objects as a heap: copies of copies, sharing, writes | |
| `ZoneSnapshots` | what `Zone.copy` promises | abstract; `Zone` refines it |
| `Changes` | `Zone.changes`, `Zone.apply`, the order of changes | operators, no state |
| `Target` | one zone on one target over any number of runs | uses `Changes` |
| `Sync` | `Manager.sync`: tasks, batches, decision, apply | |
| `Processors` | what the processors do to zones and plans | operators, no state |
| `Pipeline` | zones on their way through the processors to a target | uses `Changes`, `Processors` |
| `AutoArpa` | the addresses that `AutoArpa` collects and the PTR records it makes | |
| `Validators` | the registries of validators and how a `Manager` configures them | |
| `ZoneChecks` | every validator of zones, on a set of records | operators, no state |
| `DynamicRecords` | pools and rules: what is accepted, made and reduced | operators, no state |
| `Validation` | `Record.new`, `Zone.add_record` and `Zone.validate` under the registries | composes the three |
| `DynamicZones` | which zones a call of the `Manager` works on | |
| `YamlFiles` | `YamlProvider` as a target, file by file | |
| `TinyDns` | `TinyDnsFileSource` | |
| `MCZone`, `MCTarget`, `MCSync`, `MCPipeline`, `MCPipelineOdd`, `MCAutoArpa`, `MCValidation`, `MCDynamicZones`, `MCYamlFiles`, `MCTinyDns` | the instances for TLC | |
| `ZoneProofs`, `TargetProofs`, `SyncProofs`, `AutoArpaProofs`, `PipelineProofs`, `ValidationProofs`, `DynamicZonesProofs`, `SourcesProofs` (of `YamlFiles` and `TinyDns`) | the theorems | |

### Zone

The variables are the attributes, indexed by object: object 1 is the one that
sources populate, the others are copies made on the way. `Holder` follows
`_origin`; `Records` and `RootNs` are the two properties. `Store` is the effect
that every writing call has (hydrated first). A refused `add_record` is an
action of its own kind, because it hydrates before it refuses
(`AddBarred`, `AddDuplicate`).

`SharedWrites = FALSE` restricts writes to objects that no unwritten copy reads.
This is the order the code keeps: `BaseProvider.plan` copies the desired zone
and writes the copy; nobody writes the original once targets plan. It is a
convention and not enforced: with `SharedWrites = TRUE` TLC shows at once that a
copy changes with its original. The mutants of `Store` and `Hydrate` show what
depends on the hydration itself.

Names are sequences of labels, so that `endswith('.' + sub_zone)` is a
comparison of suffixes; `sub_zones` are given.

### Changes and Target

A record is name, type, one value (ttl, values, dynamic data: whatever
`Record.changes` compares), and `ignored`, `included`, `excluded`. `Fits` and
`Reduced` stand for `_process_desired_zone`'s treatment of values that a target
cannot carry (dynamic, geo, multi-value PTR): it replaces the record by a
simpler one, or raises if `strict_supports`.

`MakePlan` is `BaseProvider.plan` as one step: nothing it does is visible to
others. The next actions are those of `sync` on the plan: `Refuse`
(`raise_if_unsafe`), `StopDry`, `StartApply`. Then comes the provider's
`_apply`, of which there are two kinds: `ApplyNext`, a call to a service per
change, in the plan's order and with `FailApply` possible between any two; and
`RewriteZone`, which writes `plan.existing` with the changes applied, as
`YamlProvider` does. `RewritesZone` selects one. A rewrite begins by truncating the
file, so that `FailApply` may leave any part of the old records and the new
ones (`Torn`): `BoundedLoss` and `RootNsNeedsForce` do not speak of such a step
(`StoppedWriting`), which may lose all of the zone. Every run gets *any* valid
source zone: the owner edits the sources between runs, also between a failed run
and the next one.

Among changes of one class the order by name and type is left open, so that the
checks hold for any.

Not in the model: `_include_change`, `_extra_changes` and `_plan_meta` (hooks
that are empty in this repository) and the processors.

### Sync

What a zone holds is abstracted to *where it comes from*: the version of the
sources, the set of zone configurations whose processors have worked on it, and
for an arpa zone the set of what `AutoArpa` had collected when it was populated.
That is all that the properties of `sync` are about; `Target` has the records. A
plan is a change from one content to another, made by `PlanZone` from what the
target holds at that moment.

`Populate`, `PlanZone` and `FailTask` are the tasks, on the workers; `Abort`,
`SubmitAliases`, `SubmitArpa`, `Decide`, `ApplyNext`, `FailApply` and `Finish`
are the main thread; `EditSource` is the world. `CanStart` is the executor:
`max_workers > 1` gives a pool, one worker the `MainThreadExecutor`, where a
task starts when its result is waited for.

A run is one process, with a `Manager` of its own, which is how the commands use
it. `shown` is the checksum that the last run logged; a run started with a
checksum gets that one.

Not in the model: `--source` (`DynamicZones` has it); plans that have metadata and no changes (they sort
last); errors in the configuration (they raise before any task is submitted or
while tasks are, with the same effect as a failed task); `--zone` arguments in
another order than the configuration's.

### Processors and Pipeline

`Processors` has one operator per hook: `SourceZone`, `TargetZone`, `BothZones`
and `ProcessPlan` are `process_source_zone`, `process_target_zone`,
`process_source_and_target_zones` and `process_plan` of a processor that is a
record of its class and options, the operators `...Raises` say when the hook
raises. The hooks of a zone's processors run in the order of the configuration:
the `...Stages` operators give what each of them leaves to the next one, the `...Chain`
operators what the last one leaves. Patterns, networks and texts are sets of what
they match. A record's value is the set of its values here, because `Acme` adds
one to the others and `Meta` looks at the keys of its own.

`Pipeline` puts the hooks where the code calls them. `ProcessSource` is a task
up to the target's `plan`, `PlanZone` the rest of it; other tasks take steps
between the two, and `owned`, the set that an `AcmeManagingProcessor`
keeps, is shared by all zones as the object is. After the last plan the changes
are applied one by one (`ApplyNext`), until something fails or all are done. A
failed run is followed by another one, with other sources. `EditLive` is
somebody else who has the target's API: it answers challenges, and marks and
unmarks records as its own.

Two variables only serve the properties. `managed` has the records that the sources
of the runs so far have had, each with whether it was for the target, and `settled`
says for which sources the target is as a run has made it or is about to.
`OnlyOwned` counts a record that the sources exclude or ignore among them:
it is marked at the target as the others are. That only those which were *for* the
target are lost, `OnlyOwnedForTarget`, is false (`MCPipelineExcluded.cfg`).

The two zones of `MCPipeline` have a challenge of the same name, and the
`AcmeManagingProcessor` remembers names without their zones: a challenge in the
sources of one zone makes that of the other zone visible, if its task comes
first. `ChallengesKept` therefore speaks of the sources of *some* zone, and `Quiet` has an
exception for a zone of which such a challenge is seen (`SeesForAnother`): what
is planned for it depends on the order of the tasks. That the own zone's sources
decide is false (`ChallengesKeptByZone`, `MCPipelineAcme.cfg`).

Values are sets of small tuples, and each processor looks at those that it is
about: `<<"ttl", n>>` for clamps and restrictions, `<<"open", n>>` for a name
without its final dot, `<<"template", t>>` for a text with braces, which
`Rendered` gives the result of, `<<"spf", p>>` for a policy, whose terms are
`SpfTerms[p]` and which other domains publish as `Published` says.
`LookupLimit` stands for the ten of the code. The code recurses into the policies
that are included, and `Counts` goes down as many levels as a run of it
can, for every include costs a lookup (`DepthSuffices` in `PipelineProofs`).

What the properties rest on where not every chain and not every zone has it is
stated before them: `MarksAreOwn`, `MarksOfOthers`, `ChallengesOfOthers` (others do
not sign their challenges as octoDNS's), `FiltersPass`, `PoliciesAreChecked`,
`FiltersPassValues`, `MetaComesLast`, `MetaKeysStay`. The theorems assume those that they need, `ConditionsHold` in `MCPipeline` says that the chains and zones there meet
all of them, and `MCPipelineOdd` has zones that do not.

What the code does and may surprise, as it is in the model:

* `restrict.py`'s docstring says that the limits are ignored with `allowed_ttls`;
  the code checks both (`octodns/processor/restrict.py:64`).
* `SpfDnsLookupProcessor` looks at the limit before a term and not at the end: an
  eleventh lookup in the last term passes. A term that begins with `a` counts, so
  `all` without a sign does; a qualified `?include:` does not.
  `PoliciesWithinLimit` says just how much gets past. Templates are filled in
  later, in `plan`, so that a policy which is made of one is looked at by nobody.
* `OwnershipProcessor` lets changes of `octodns-meta` pass whoever owns it. It looks
  at any plan that is there, also one that `exclude_root_ns_changes` has emptied,
  and may raise on account of marks of others (`HasPlan`).
* `Templating` runs on what the processors before it left: `EnsureTrailingDots`
  before it, with `{zone_name}`, which ends in a dot, makes two; filters by value
  see the template.

Simplified, because `Target` and `Sync` have it: every record is supported, every
run is forced and applied, all zones of a run have the same processors.

### AutoArpa

`Sync` says when addresses are collected and PTR records made; `AutoArpa` says
which. `Collect` is one record in the loop of `process_source_zone`, and the
loops of all tasks interleave; `SubmitAliases` hands the records of a zone that
is done to its alias, whose task collects them again under other names;
`PopulateArpa` is `populate` of one arpa zone. Addresses are numbers, arpa zones
are known by the addresses at and below their names, and names are numbers in
the order of the texts, which is the last thing that entries are sorted by.

`collected` keeps its entries in the order that they came in and with all
duplicates, as the code does. `Sorted` is Python's `sorted`, which is stable: an
item's place is the number of items that go ahead of it. `OrderAndUnique` is the
loop of `_order_and_unique_fqdns`, a function of the entries seen so far. `PtrsAreReference` compares what comes of it with
the sources as they were configured.

### Validators, ZoneChecks, DynamicRecords and Validation

`Validators` has the two registries, of records with their values and of zones,
as variables that no `Manager` owns. `available`, `active` and `configured` are
the attributes. A `Manager`'s constructor becomes a list of steps, `todo`, in the
order of the code: record types that its providers' modules register as they are
imported, custom validators, sets, validators enabled and disabled by id. Each
step may raise, and what was done until then stays (`raised`): the next `Manager`
starts from there. `ProcessRecord` and `ProcessZone` are the first use without a
configuration, which enables the legacy set.

`ZoneChecks` has one operator per validator of `octodns/zone/`, which yields the
reasons that it would give, each with the records that it is about; lenient
records excuse a reason if all of its records are. Of the data of records it
keeps what the validators look at: names, targets, number of values, the kind of
an SPF policy's end, a DMARC policy, CAA tags. `Loops` is the search for loops:
`Chase` follows the aliases from one start, `Walk` says where the inner loop
breaks and what its path was, `Try` is one turn of the outer loop with
`overall_visited`.

`DynamicRecords` has `DynamicValidator`'s checks of pools and rules, what
`_DynamicMixin` makes of the data, and the two reductions of `BaseProvider`.
Subnets and geo codes are paths in a tree, so that containment is being a prefix.

`Validation` puts them together: `NewManager`, `Configure` (one step),
`NewZone`, `AddRecord`, `AddUnknown` and `Validate`. The validation of a type's
own data is abstracted to `faults`: the validators that would report a record.
A type is known once its class has been registered, with the bridge that the
class brings.

`AcceptedZonesResolve` asks what a resolver meets (`MetAt`) as it goes from alias
to alias (`Meets`). It is about the targets of CNAME, ALIAS, NS, MX and SRV records:
no validator looks at where a DNAME points, nor has to, since what is asked for
below it is answered with a name that depends on the question.

The code compares geo codes as texts (`startswith`); no code of `geo_data` begins
another one but at a dash, so that paths say the same. A pool that is called `default` is dropped as a
fallback (`octodns/record/dynamic.py:97`), which is why `DynamicsReduce` leaves it
out. A pool with `values: []` is accepted, though the schema asks for one value.
A record that is leniently accepted with fallbacks in a circle, or to a pool that
is missing, makes `BaseProvider` go round for ever, or raise a `KeyError`, where it
reduces the record (`octodns/provider/base.py:213`); the properties are about
records that were checked.

### DynamicZones

One call of `sync`, `dump`, `compare` or `validate_configs` is one action, up to
the tasks that it starts. `Preprocess` is the loop of `_preprocess_zones` over the dynamic
configurations, a function of how many of them have been taken: what is still in the dict is expanded with what the sources list
now (`EditListing` changes it between calls), and a glob or a regular expression
is popped from a configuration that all of its zones share. `subs` is
`_configured_sub_zones`, computed once and kept: a zone that was not configured by
then gets no sub-zones (`Computed`).

What was met on the way: a regular expression that does not compile raises after
it was popped, so the next call takes everything (`octodns/manager.py:896`);
`_get_sources` returns `None` where no source is eligible, which its callers here
iterate over (`:862`); `compare` does not expand and may be the first to ask for
the sub-zones, so that a later `sync` of the same `Manager` does not know those of
dynamic zones (`:630`, `:1171`), which is why `NamesHaveOneHome` excludes it. The
commands make one call per process.

### YamlFiles

The provider as the target of one zone, file by file. `Sources` are the files
that `populate` reads, in the order of their paths; `Shown` is what they give
together, `Raises` when reading raises (a file in both spellings, a record in two
files, no file, a file that cannot be loaded). `StartRun` plans; `Open` truncates a
file; `Flush` is a part of the buffered text that reaches the disk, any number
of times; `Write` is the rest, when the file is closed. `Crash` may come between any
two, `OpenFails` is a record whose name has a slash and cannot be a file's. `own`
says that the directory was empty at first and that nobody else writes there,
which both properties are about.

A text that was cut off can be loaded, with some of the records and perhaps with a part of
the last one's value (`CutOff`), or it cannot (`broken`). While a file is
broken every run raises, as the target itself is read from it, so that no run
repairs it: somebody has to remove it (`Mend`). `OneFileToMend` says that this is
the worst that interrupted runs do: it is one file, and nothing else is in
the way.

What follows and is not a property: an interrupted write of one zone file loses
the records that were not managed, which nobody can restore from the sources; the
files of names that are gone are never removed, in a split directory, so that
their records come back; a directory that somebody has begun with an IDNA-named
file is unreadable after the first write of a UTF-8 one.

### TinyDns

A line has its symbol, a name, a host and what else its symbol is about. The
lists that the code collects are sets of places in the list of lines that was
read: `Group` is the lines of one symbol and one spelling of a name, `IsBefore` the
order of the groups (that of two dicts), `For...` says for one line what the function
`_records_for_...` yields for it, `TtlFor` what `_ttl_for` finds in its group.
`Populated` is `populate` with the grouping, qualifying, filtering by the zone, and the
exceptions. `cache` is `_lines`: what was read first is what all zones of a run see,
`Edit` changes the files meanwhile, and the order in which files are listed is any.

`sub_zones` are all configured zones below a zone, at any depth, as
`Manager.configured_sub_zones` makes them (`NestingAssumption`,
`octodns/manager.py:636`). `Owns` is `Zone.owns`: a name that *is* a sub-zone is the
zone's for NS records, also when it lies below another sub-zone
(`octodns/zone/base.py:453`). So in `unit`, with the zones `sub.unit` and
`x.sub.unit`, the name servers of `x.sub.unit` are in all three, and the instance has
such zones and lines.

`DelegationsAgree` has three conditions, two of which were found when it was to be proved.
A zone `arpa.` is not below `arpa` for the source, so that it gets the
`.` lines about `10.in-addr.arpa.`, which that zone itself skips
(`octodns/source/tinydns.py:158`). Hosts are written in full, and no `:` line is about
name servers; see below. `BothWays` has an exception for a line of any symbol
that looks like a pointer (`IsPtr`): an `=` line about such a name makes a PTR record that
points to the text of an address.

What was met, each confirmed by running the code: `^` lines with a name under
`in-addr.arpa.` with, or under `ip6.arpa` without its final dot raise
(`octodns/source/tinydns.py:116`), and so does a TTL field that is empty; since
every arpa zone reads every `^`, `=` and `6` line, one such line of any zone breaks
all arpa zones. A host without a dot is completed with the name of the zone that
is *populated*, so that a zone and its sub-zone disagree about the same line:
`DelegationsAgree` is about hosts in full. `:` lines are filtered as if they were
SRV records, so that NS and DS records at a boundary are dropped. Two `C` lines in
different groups are refused as a list. MX preferences are compared as they are
written. With several workers `_lines` may be read twice, as nothing guards it; the
model has one.

## The runs

| run | module, cfg | bounds | shows |
|---|---|---|---|
| `zone` | `MCZone`, `MCZone.cfg` | 3 objects; 5 records: two root NS, a delegation NS, a barred and a lenient record below the cut | the root NS cache and refused calls, and that `Zone` refines `ZoneSnapshots` |
| `target_calls` | `MCTarget`, `MCTargetCalls.cfg` | 11 records: root NS in two values; at `www` A, CNAME, an ignored and an excluded one; at `mail` two values and one that has to be reduced; an unsupported type. All valid source zones and all live zones | all properties of a target with a call per change |
| `target_file` | `MCTarget`, `MCTargetFile.cfg` | the same records without the odd ones | that a target which rewrites the zone settles, also after rewrites that were cut off |
| `sync` | `MCSync`, `MCSync.cfg` | 5 zones (parent, its alias, sub-zone, another, arpa), 2 runs out of 7 kinds, 2 versions of the sources of two zones, 1 or 2 workers | all properties of `sync` |
| `auto_arpa` | `MCAutoArpa`, `MCAutoArpa.cfg` | 2 zones with up to 3 records each (wildcards, a geo and a dynamic record among them), an alias, 2 nested arpa zones, 3 addresses, 4 sets of options | that PTR records are those of a reference definition, and each address has one |
| `pipeline` | `MCPipeline`, `MCPipeline.cfg` | 2 zones that have challenges of one name, 2 runs, 13 chains: ownership alone and before meta, acme, filters by type, name, value and network with and without root NS processors, clamps and restrictions with and without a list of TTLs, dots and templates in both orders, SPF; the sources' records of each in every valid combination, a few records at the target | all properties of `Pipeline` |
| `validation` | `MCValidation`, `MCValidation.cfg` | 2 Managers out of 6 configurations (own types, custom validators and overrides, sets, enabled and disabled ids, two that raise half-way), 6 configurations of zones: aliases in circles, mail, dynamic parts, and faulty records with and without validators that the zone disables | all properties of `Validation` |
| `dynamic_zones` | `MCDynamicZones`, `MCDynamicZones.cfg` | 3 calls, 8 configurations of a Manager out of 13 configurations of zones (aliases, missing sources, targets and processors, globs, good and bad expressions), 3 nested zones, one with two spellings and one below arpa, 3 listings, 6 filters | which zone gets which configuration and which name belongs to which zone |
| `yaml_files` | `MCYamlFiles`, `MCYamlFiles.cfg` | 3 runs, 4 names (apex, wildcard, a plain one, one with a slash) of 2 values, 4 configurations, an empty directory or one of 3 others | that the directory can be read but for one file that a write was cut off in, and shows the zone |
| `tinydns` | `MCTinyDns`, `MCTinyDns.cfg` | 2 files, which may be exchanged (`SYMMETRY`), of at most 2 and 1 lines out of 24, all symbols among them, and one more line that is added; a zone, two zones below it, one of them below the other, and a zone below arpa | all properties of `TinyDns` but `FirstTtlWins` |
| `zone_threshold` | `MCTarget`, `MCTargetZoneThreshold.cfg` | the zone's threshold is 25 %, the target's 50 % | a violation, see below |
| `alias_copy` | `MCSync`, `MCSyncAliasCopy.cfg` | one version | a violation |

Why these bounds suffice to be worth something: three objects are a zone, a copy
and a copy of the copy, the longest chain that `sync` makes (a processor's copy
and the target's). Records interact only by name and type, by being the root NS,
and by being counted; the instance has two of each such relation.
`MinExisting = 2` and thresholds of 50 % put the boundary of both comparisons
inside zones of two to four records. Two runs are enough for a failed run and
its successor, and for the workflow of the checksum; two versions for an edit
between any two steps. Five zones are the fewest with one of each role and a
zone without relations.

Each processor works on a record or on a pair of records of one name and type;
two zones are enough for what one shares with another, and two runs for what is
left by the first: a marker, a half-applied plan, a meta record with an earlier
time. `LookupLimit = 2` puts policies of one to three lookups, of includes of them
and of an include of itself around the limit.

Two Managers are one that leaves something behind and one that must not find it.
Circles of one and of two aliases, and an alias that leads into one from outside,
are the cases of the walk. Three calls are one that expands the dynamic
zones, one that edits or fails, and one that finds what those left. Three runs of
`YamlFiles` are a good one, one that is killed and one that repairs. A group of
tinydns lines, two groups of one record and groups of two files need no more than
three lines.

`zone`, `sync`, `pipeline`, `validation`, `dynamic_zones`, `yaml_files` and
`tinydns` are bounded (`MaxZones`, `MaxRuns`, `MaxManagers`, `MaxCalls`,
`MaxEdits`), `auto_arpa` is one run: all may stop and are run without the check for
deadlock. `Target` has no bound on runs and is checked for it.

Each property has a mutant in `PROJECT.json`: a plausible mistake, defined in the
module beside the definition that it replaces and marked "Mistake", under which
TLC finds the property violated.

### Fairness

Only `Sync` has liveness: `RunEnds`, every run ends. It needs weak fairness of
`Worker` and of `Main`: threads that can run do, which the operating system and
the executor grant, and a call that was made returns or raises. Nobody has to
start runs, edit sources or fail. Whether one failed task leaves the main thread
waiting for another that no worker will start is the question that `RunEnds`
answers.

Convergence (when nobody edits and failures stop, repeated runs settle) is left
out: a run that failed halfway may need `--force` from then on, so it is
true only of forced runs.

### Findings

* `zone_threshold`: a zone's `update_pcent_threshold` and
  `delete_pcent_threshold` never reach the plan. `Plan` looks for them on the
  *existing* zone, and `BaseProvider.plan` makes that one without them.
* `alias_copy`: the processors and `lenient` of an alias zone are those of the
  last zone of the loop that is not an alias, not those of its own or of the
  aliased zone's configuration.

### Other disagreements, and configurations that show them

These are properties that the code does not have. They are not among the runs; TLC
shows each by, say, `tlc -config MCPipelineAcme.cfg MCPipelineOdd`.

| configuration | module | property | what it shows |
|---|---|---|---|
| `MCTargetFileRootNs.cfg` | `MCTarget` | `RootNsNeedsForce` | `YamlProvider` as a target drops a root NS record that is in the file and not configured, with any other change and without `--force`: `_process_existing_zone` takes it out of `existing`, "ignoring it", and the file is rewritten from `existing` (`CHANGELOG.md:529`) |
| `MCPipelineAcme.cfg` | `MCPipelineOdd` | `ChallengesKeptByZone` | a challenge in the sources of one zone exposes the challenge of the same name in every other zone that the processor is configured for, and octoDNS deletes it (`octodns/processor/acme.py:47`, `:59`) |
| `MCPipelineExcluded.cfg` | `MCPipelineOdd` | `OnlyOwnedForTarget` | `OwnershipProcessor` marks records that are excluded for the target. The marker is written there, and makes a later run delete the record that the target has |
| `MCPipelineMeta.cfg` | `MCPipelineOdd` | `Quiet` | with `MetaProcessor` before `OwnershipProcessor` and one record at the target that is not octoDNS's, every run changes the meta record and nothing else: `process_plan` counts the changes before the ownership filter drops the others. The meta record "will only be updated when there are other changes being made" (`octodns/processor/meta.py:29`); in `pipeline` `MetaProcessor` is the last that takes out changes |
| `MCAutoArpaValues.cfg` | `MCAutoArpa` | `ValuesAsConfigured` | with `auto_arpa`, a geo or dynamic record reaches the targets with the addresses of all its pools among its values; they are appended without order, so that they also differ from what the target returns, sorted, at the next run |
| `MCDynamicZonesIdn.cfg` | `MCDynamicZones` | `ClaimsStand` | a zone that is configured explicitly and listed in UTF-8 gets the configuration of a dynamic one: the IDNA keys are subtracted from the names as they are listed (`octodns/manager.py:889`, against `docs/dynamic_zone_config.rst:80`) |
| `MCValidationType.cfg` | `MCValidation` | `DisabledForItsType` | a validator that is registered for all types is not disabled for one of them by the Manager's `disable_validators` (`docs/configuration.rst:467`) |
| `MCTinyDnsTtl.cfg` | `MCTinyDns` | `FirstTtlWins` | "first non-default wins", says the comment, and the last one does (`octodns/source/tinydns.py:408`) |

Two more have no configuration. `--target` does not limit the targets of alias
zones (`octodns/manager.py:1085`). A `--checksum` given where `enable_checksum` is
not set is compared with nothing and turns a dry run into a real one
(`octodns/manager.py:1135`): hence the condition of `ChecksumHolds`.

## The proofs

TLC checks the instances above; TLAPS proves the following for any records,
zones, thresholds and numbers of objects, from the assumptions that the modules
name.

`ZoneProofs`, assuming nothing but the types of the constants:

* `TypeCorrect`, `RootNsCorrect`, `KeysCorrect`: the invariants `TypeOK`,
  `RootNsAgrees` and `ShowsKeyed`. What is inductive is not what an object shows
  but what it *stores*: `OwnStoreSound` says that a hydrated object's `_root_ns`
  and `_records` agree, and `TypeOK` that an origin is older than its copy. The
  latter is what makes the recursion in `Holder` well founded: the lemmas about
  `HolderIn` show that it ends in one hydrated object, by the least element
  of a set of objects (`FirstObject` and its consequences).
* `RefusalsKeepRecords`: the action property `RefusalKeepsRecords`.
* `CopiesCorrect`: `Zone` with `SharedWrites = FALSE` implements
  `ZoneSnapshots`, the proof that copy-on-write is sound under the code's
  discipline. The key lemma says what a write on an object that nobody reads
  through does to what the others show: nothing.

`TargetProofs`:

* `TypeCorrect`: `TypeOK`, for both kinds of provider.
* `LossesBounded`: `BoundedLoss`, for both kinds: with a call for each change
  wherever it is interrupted, and for a rewrite that ends well. One that is cut off may
  lose any part of the zone.
* `RewritesSettle`: `SettledInSync` for a provider that rewrites the zone.
* `RunsResume`, `RunsSettle`, `CnamesCorrect`, `RootNsGuarded`, `RootNsKept`,
  `OthersKept`: `RemainingIsReplan`, `SettledInSync`, `CnameStandsAlone`,
  `RootNsNeedsForce`, `RootNsStays`, `HandsOff`, for providers with a call for
  each change (`~RewritesZone`); for the other kind some of them are false, see
  `MCTargetFileRootNs.cfg`. `RootNsStays` (a root NS record may be changed and is
  never removed, with or without `--force`) is proved only.

The inductive invariant is `IInv`: what the plan holds was made from zones of
the right kind (`PlanSound`, `DesiredSound`, `RecordsOnlyInZone`), the root NS
record in the plan is accounted for (`RootNsSafe`), CNAMEs are alone, and
`RemainingIsReplan`. The last is the heart: the changes still to be made are at
every moment exactly those that planning again would find. Its lemma
`ApplyRemaining` says that applying one change removes that change, and no
other, from the difference of two zones. Everything else about an interrupted
apply follows from it. CNAMEs need the order of changes besides: when a create
is applied no delete is left, so that the live zone holds nothing managed that
the desired zone does not.

`LossesBounded` has an invariant of its own, `LossInv`: what is gone from the zone
is among what the plan deletes, and what is changed has the name and type of an
update. The plan's counts were checked before the apply, and an injection from
what is lost into what was counted does the rest (`AtMost`). `RewritesSettle` needs
no induction but that a whole plan stays whole until it is applied
(`WholePlan`), and that a zone with all its changes made has none left
(`NothingRemains`).

Assumptions: `FittedAssumption` (making a record fit keeps its name and type),
`CnameAssumption` (no CNAME at the apex, refused by record validation),
`SourceZonesAssumption` (sources are validated: one record per name and type, no
CNAME with others), `LiveZonesAssumption` (the same for what the target manages
before the first run), that zones are finite and thresholds natural numbers of
percents, and that modes are Booleans. TLC evaluates them on every
run.

`SyncProofs`, from `ZonesAssumption` (aliases and arpa zones are zones of the
configuration), `LengthAssumption` (a sub-zone's name is longer than that of its
parent), `OptionsAssumption` and `BoundsAssumption` (types):

* `TypeCorrect`, `AppliesAllOrNothing`, `PtrsFromAll`, `AliasesFollow`: the
  invariants `TypeOK`, `AllOrNothing`, `PtrsComplete` and `AliasFollows`.
* `AppliedAsPlanned`, `SubZonesFirst`: the action properties `RunSettles` and
  `ChildrenFirst`.
* `ChecksumHolds`: `ChecksumMatches`, if no run is given a checksum where
  checksums are not enabled. Without this the property is false, see
  the findings. An empty plan has an empty checksum, which is compared
  with nothing; this is why the property says "or nothing is applied".

Three invariants carry them. `Stages` says which tasks have been submitted when
the main thread waits for which batch, and that those of the batches before are
done: a batch is entered only when the one before it is done, so that no
action has to look back. `Tasks` relates what is collected to what is desired:
`Collected` says that `AutoArpa` has seen a zone exactly when its task has been
populated, in the version that was desired then, and never two versions of one
zone. An arpa task starts when `Stages` says that all others are done, so
`Collected` is the complete picture. `PlansSound` says that every plan is what a
finished task desires and that whatever a finished task desires is at the target
or has a plan; when no plan is left, it is at the target.

`AutoArpaProofs`, from `NestingAssumption` (two zones with a name in common below
them are nested), `AliasAssumption` (alias zones alias zones with sources),
`MaxAssumption` (at least one name is kept) and `EntryAssumption` (types):

* `PtrsInOneZone`, the invariant `EachPtrOnce`. The inductive invariant says of
  each zone on its own that its PTR records are below it and below none of its
  sub-zones.
* `PtrsAreTheReference`, the invariant `PtrsAreReference`. Its inductive invariant
  is `RunInv`: `TasksInv` says which records of each zone are still to be seen and
  what became of those that were, for a zone and for its alias, which
  gets what its zone has become and not what was configured; `CollectedInv`
  says that the entries of an address are, as a set, those of the records seen so
  far; `PopulatedInv` that a zone which was populated has the reference's records.
  The rest is about lists of any length. `Places`: every list has an order
  (n - 1 items ahead of the n-th for each n), by the pigeonhole principle. `KeptInv`:
  after n turns of the loop the kept entries are the first of their names, sorted,
  and all of those among the first n entries unless the limit was reached.
  `KeptIsReference`: so what is kept is determined by the set of entries, and the
  order in which tasks collected them is gone.

`ValidationProofs`, from the assumptions of `Validators` (types of keys, validators
and configurations, among them `BridgeAssumption`: a bridge is in the set that is always
enabled, and no other validator has its id; and `ZonesAssumption`: zones disable ids), and of
`Validation` (`FaultsAssumption`, `ValuesAssumption`, `DynamicsAssumption`: what
the data of a record look like; an alias has one value). `PathsAssumption` of
`DynamicRecords` says that no subnet and no geo code is the empty path. The first two
are about what `DynamicRecords` and `ZoneChecks` promise by themselves.

* `AcceptedServe`, `AcceptedReduce`: a dynamic part that `DynamicFails` has nothing
  against `Serves`, and so does what the reductions leave of it, which is accepted
  again. Without an end the walk over fallbacks would meet more
  different pools than there are. That no pool is left over needs more than
  `UnusedPools`, which only asks whether *anything* names a pool: pools that no rule
  leads to would each have to be the fallback of another one, each has one
  fallback, so they would form circles, which the walk reports.
* `EachLoopOnce`: the search for loops reports the minimal closed sets of aliases,
  each once. What was seen is closed under following, and so a loop is seen in full or
  not at all.
* `BridgesAlwaysRun`: `BridgesRun`. A bridge that has been registered is not active
  yet, so the invariant is about what is still to be done: each registration among the
  steps has one that enables the sets after it (`Covered`), and while no such step
  is left and none has raised, all bridges are active (`BridgesHeld`). A Manager that
  raises half-way leaves the registries as they are until the next one, which begins
  with its own steps.
* `ConfigurationTakesEffect`: `ActiveAsConfigured`. Here the invariant says what will
  be active once the steps that are left have been taken: for each bucket
  and id, that the outcome of `todo` from the present `active` is what is wanted. It holds at the
  start, whatever is active, because the first steps clear what Managers before have
  left.
* `AdmittedRecordsAreValid`: `AdmittedAreValid`, with what is in the zone remembered
  as checked under registries that no step changes while a zone is open.
* `CheckedDynamicsServe`, `CheckedDynamicsReduce`: `DynamicsServe` and
  `DynamicsReduce`. `AllChecked` carries the verdict from the moment that the record was
  added to every later state of the zone, and `AcceptedServe` and `AcceptedReduce` say
  what it is worth.
* `LoopsAreFound`, `AcceptedMailAgrees`, `AcceptedZonesAlwaysResolve`: `LoopsFound`,
  `MailAgrees` and `AcceptedZonesResolve`, from `ZoneInv` (a zone has one record
  of a name and type) and `PassedInv` (a valid zone is one whose reasons are all excused,
  in some order of its records). In the last one, every target of a record that is not
  lenient is met as data, elsewhere, or an alias that is not lenient either, whose
  target is again such a name. Were this never to end, a chain of one alias more than
  there are would come back to itself; the aliases that it goes round contain a loop,
  the search reports it, and nothing in it is lenient.

`DynamicZonesProofs`, from the assumptions of `DynamicZones` on configurations
and filters:

* `FirstClaimsHold`, `OneHome`: `FirstClaims` and `NamesHaveOneHome`. `Expansion` says of
  each stage of `Preprocess` what every zone has got so far and from whom; the first
  configuration that claims a zone is the least one, and those before it have
  left it. `Settled` says that once the configurations were expanded, later calls change
  nothing, so that sub-zones which were computed stay those of the zones.
* `ClaimsStandInIdna`: `ClaimsStand`, which is false, for zones that no source lists in
  UTF-8.

`PipelineProofs`, for chains of any length and any order of processors, from
`RecordsAssumption` (types, and the policies of a record are among `SpfTerms`),
`KeyedAssumption` (sources, and targets at the start, have one record of a name and type), `ChainsAssumption`
(the meta record is not named like a mark or a challenge), `RunsAssumption`,
`RenderedAssumption`, `SpfAssumption` (types), and the conditions named:

* `FilteredStays` (`FiltersPass`): `FilteredStay`. `Gone` says that neither the desired
  zone nor a change has a record that a filter of the chain takes out. It is stated per
  filter: before its place in the chain a stage may have such a record, after it none does,
  and the hooks that come later keep names and types or add marks and the meta
  record only.
* `PoliciesStayWithinLimit` (`PoliciesAreChecked`): `PoliciesWithinLimit`, along the
  same lines from the check on. What the check is worth is `CountsPriced`: by
  induction over the levels and then over the terms, a count that does not object is
  what `Costs` says of the policy, or one more for a last term.
* `DepthSuffices`: levels below the last one of `Counts` change no count, and so `Counts`
  is the recursion of the code, also for policies that include each other in a circle.
* `OnlyOwnedIsLost` (`MarksAreOwn`): `OnlyOwned`, with records of all sorts in the
  sources, excluded and ignored ones among them. Three invariants:
  `Made` (each desired record is one of the sources, the mark of one or the meta record),
  `Checked` (each change has passed the ownership filter against what the plan has found
  and wanted) and `Held`, which bridges the time between plan and change: what is
  there has come from others or from a desired zone of some run, octoDNS's marks are about
  records that the sources of some run have had, and what is to be deleted is still the record that was seen, unless it is one
  that others may take away and put back.
* `ForeignIsKept` (`MarksAreOwn`, `MarksOfOthers`): `ForeignKept`. `Checked` carries the
  refusal of the plan to each of its changes. Without `MarksOfOthers` it is false:
  with `allow_takeover`, and for marks about `octodns-meta`.
* `ChallengesAreKept` (`ChallengesOfOthers`): `ChallengesKept`, for zones that may have
  challenges of the same names. `Answered` says that what the shared
  `AcmeManagingProcessor` remembers is a challenge of *some* zone of the run,
  whatever tasks ran in between. It need not be this zone's.
* `RunsAreQuiet` (`MarksAreOwn`, `FiltersPass`, `FiltersPassValues`,
  `MetaComesLast`, `MetaKeysStay`): the action property `Quiet`, for any chain, whatever other
  zones' tasks do in between. What a task sees of the target is taken record by
  record (`TargetOneByOne`, with the invariant `Ready`) and depends on the sources
  of its own zone only, unless a challenge is seen for another zone's sake
  (`SeesOwnZone`), which the property excepts. The run that the target was settled by may
  have seen more of it in that way, and then has changed it to the same end (`SeesMore`).
  What two runs want of the same sources differs in the values of the meta record and in
  nothing else (`SameWanted`). So a later plan has no other changes than those that
  the earlier plan had and lost to a processor (`ChangesRepeat`), and that processor takes
  them out again (`StillTakenOut`, `PlanKeeps`); the meta record alone is dropped
  (`PlannedOnce`). The inductive invariant is `Settled`: the sources that `settled` names
  plan nothing against the target *with what is still to be made*, so that a run may be
  anywhere in its apply; `Sorted` lets the changes be made in any order.
  The conditions are needed: `MCPipelineMeta.cfg` shows what happens without
  `MetaComesLast`, and a filter by value that takes out what later processors make of
  a record hides the record at the target and not at the source.

`SourcesProofs`, from the assumptions of `YamlFiles` on names, spellings,
directories and options: `OneFileStops` and `DirectoryReadsBack`, the
invariants `OneFileToMend` and `ReadsBack`. Each name has one `Home` among the
paths of a configuration, and a record is never in a file but its name's home
(`AtHome`); so no two files clash, whatever they are left with by a write that was
cut off. A run does not begin beside a file that cannot be loaded, and writes one file
after the other, so there is never a second one. `Progress` says that what is not to be written any more has been
(`Done`), `Settled` carries it to the end of the run.

And from the assumptions of `TinyDns` on what a line of each symbol has, for any
files, lines, zones and edits:

* `PointersBothWays`, `InAnyOrder`, `DelegationsMatch`: the invariants `BothWays`,
  `AnyOrder` and `DelegationsAgree`. The inductive invariant `TinyInv` is short: each
  zone that could be populated is what `Made` makes of *one* list of lines, the cached
  one, of which no line raised. The rest says what `Made` does with a list.
* A record is made just for what some line yields (`YieldedIs`, `RecordIs`, `RecordFor`),
  and its values are all that lines yield for it (`ValueIs`). What a line yields does not
  depend on its place, but for `C` lines (`YieldedInAnyOrder`), and whatever the order of
  the files each line of each file is read (`ListedIs`, by the least number of files
  after which it would not be so): hence `InAnyOrder`.
* For the zones to agree, names are compared as the code compares strings, by their ends:
  `UnderIs`, `UnderUnder` and `HostnamesUnder` say what that means for the labels. A zone
  below arpa gets PTR records and nothing else (`YieldsAre`). Any other zone has nothing
  at and below the name of a zone below it, at whatever depth, but the name servers
  which that zone has for itself and for the zones below it (`OnlyTheEdges`), and both
  have all that the lines say (`ServersCollected`).

Only model-checked is `RunEnds`: it is liveness, and neither fairness nor `ENABLED` is
within the prover's reach. Every other property of a passing run is stated by a theorem.
The two findings are false, and TLC's counterexample is what shows it. The operators
of the models are recursive functions or folds over sequences rather than `RECURSIVE`
operators; where a proof needs induction over one, it goes by the
least number for which the claim would fail, since the library's induction theorems
take an operator as a parameter and cannot be used.

## Not modelled

* Record types: the parsing, validation and formatting of a type's data is a
  function of one value, without state, which the tests of each type enumerate.
  `Validation` has its result, a set of validators that report the record.
* The deprecated `geo` of A and AAAA records; the table of geo codes.
* Loading the configuration: classes that are imported by name and made once, and
  secrets, which are looked up while that happens. The part that concerns the
  registries is in `Validators`.
* Plans with metadata and no changes; plan outputs, schemas, logging, reports and
  argument parsing, which only format.
* `EnvVarSource`: one variable becomes one record.
* Hooks of providers that are empty here (`_include_change`, `_extra_changes`,
  `_plan_meta`), and every provider that is in a repository of its own.
* The encodings: IDNA, the escapes of YAML and of tinydns.
* Alias zones that are processed a second time, from an unwritten copy, in
  `Pipeline`; the sharing is in `Zone`, the order in `Sync`.
* Convergence of repeated runs after failures: see Fairness. That a run after one that
  ended well plans nothing is `Quiet`, `SettledInSync` and `RunSettles`.

Some behaviour was seen while modelling and has no property, because nothing in
the repository promises anything about it. A target's `_get_sources` that returns
`None` ends a run with a `TypeError` (`octodns/manager.py:865`). Wildcards below the
apex make PTR records with a star (`octodns/processor/arpa.py:44`), as the model
has it. An arpa zone with addresses of its own, planned beside another one, changes
the collected addresses while they are read (`arpa.py:99`). A TXT record that begins
like a marker and has too few labels makes `OwnershipProcessor` raise
(`octodns/processor/ownership.py:83`). The filters by value look at the source's and
at the target's record each for itself, so that a change of a value from a kept one
to a filtered one is a delete (`octodns/processor/filter.py:249`). Markers sort before
what they mark, so that an apply which fails between two deletes leaves a record that
nobody owns (`octodns/provider/plan.py:59`).

## What could follow

1. Alias zones in `Pipeline`, with the processors that they are really given.
2. `DynamicZones` with the tasks of `Sync` instead of their names, so that
   a second call in one process meets the targets that the first one left.
3. An abstract contract of a target (what an observer may see of a zone during
   a run) that `Target` implements.
