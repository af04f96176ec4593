---------------------------- MODULE Validators ----------------------------
(***************************************************************************)
(* The registries of validators, octodns.record.validator's and            *)
(* octodns.zone.validator's, and how a Manager fills them: the modules of  *)
(* its providers register the validators of their record types, then       *)
(* Manager._config_validators registers those of the configuration and     *)
(* Manager._configure_validators decides which are active.                 *)
(*                                                                         *)
(* The registries belong to the classes Record and Zone, hence to the      *)
(* process: a second Manager finds what the first one left, and a Manager  *)
(* that raises leaves what it had done.                                    *)
(*                                                                         *)
(* A validator has the fields id, kind ("record", "value" or "zone"),      *)
(* bridge (its id starts with an underscore), sets (with Always for None), *)
(* and version, which tells an override from the built-in of the same id.  *)
(***************************************************************************)
EXTENDS Naturals, FiniteSets, SequencesExt

CONSTANTS
  Type,       \* record types
  All,        \* the bucket of the validators of every type, "*" in the code
  Always,     \* stands for sets=None: activated whatever sets are enabled
  Legacy,     \* the set that is enabled where nothing is configured
  Id,         \* ids of validators, and those that configurations name
  Builtins,   \* Builtins[kind]: the registrations made when octodns is imported
  Configs,    \* the configurations a Manager may be made with
  MaxManagers \* bound: Managers made in one process

Kinds == {"record", "value", "zone"}
Buckets == Type \cup {All}

(***************************************************************************)
(* A registration is [key, val]: a validator in the bucket of a type.      *)
(* A configuration has the fields                                          *)
(*   imports  registrations of the record types its providers bring        *)
(*   custom   registrations of the section validators                      *)
(*   sets     manager.validators.enabled                                   *)
(*   add      manager.validators.record.validators, pairs [key, id]        *)
(*   drop     manager.validators.record.disable_validators, likewise       *)
(*   zadd, zdrop   the two lists of manager.validators.zone                *)
(***************************************************************************)
Validator ==
  (UNION {{Builtins[k][i].val : i \in DOMAIN Builtins[k]} : k \in Kinds}) \cup
  (UNION {{c.imports[i].val : i \in DOMAIN c.imports} \cup
          {c.custom[i].val : i \in DOMAIN c.custom} : c \in Configs})
Registration == [key : Buckets, val : Validator]
Request == [key : Buckets, id : Id]

ASSUME KeysAssumption == All \notin Type
ASSUME ValidatorAssumption ==
  \A v \in Validator : v.id \in Id /\ v.kind \in Kinds /\ v.bridge \in BOOLEAN
(* ids that start with an underscore are those of the bridges, which are    *)
(* made without sets                                                        *)
ASSUME BridgeAssumption ==
  \A v, w \in Validator : v.bridge => Always \in v.sets /\ (w.id = v.id => w.bridge)
ASSUME ConfigsAssumption ==
  /\ Builtins \in [Kinds -> Seq(Registration)]
  /\ \A k \in Kinds : \A i \in DOMAIN Builtins[k] : Builtins[k][i].val.kind = k
  /\ \A c \in Configs :
       /\ c.imports \in Seq(Registration)
       /\ c.custom \in Seq(Registration)
       /\ \A s \in {c.add, c.drop, c.zadd, c.zdrop} : s \in Seq(Request)
(* The registry of the zones' validators has no types. *)
OfAll(regs) == \A i \in DOMAIN regs : regs[i].val.kind = "zone" => regs[i].key = All
ASSUME ZonesAssumption ==
  /\ OfAll(Builtins["zone"])
  /\ \A c \in Configs :
       /\ OfAll(c.imports) /\ OfAll(c.custom)
       /\ \A i \in DOMAIN c.zadd : c.zadd[i].key = All
ASSUME MaxManagersAssumption == MaxManagers \in Nat

VARIABLES
  available,   \* available[kind]: the registrations in the order of the dicts
  active,      \* active[kind]: the registrations that are active
  configured,  \* configured[kind] for records ("record") and zones ("zone")
  todo,        \* the steps of configuration that the Manager has yet to make
  config,      \* the configuration of the last Manager, {} before the first
  imported,    \* the modules of providers that were imported, as what they register
  managers,    \* how many Managers were made
  raised       \* the last Manager raised while it configured the validators

registry == <<available, active, configured>>
progress == <<config, imported, managers, raised>>
vvars == <<registry, todo, progress>>

-----------------------------------------------------------------------------
(* The dicts: buckets in the order they were made, ids in each bucket *)

HasId(entries, key, id) ==
  \E i \in DOMAIN entries : entries[i].key = key /\ entries[i].val.id = id

(* bucket[validator.id] = validator: replaced in its place, or put last *)
Put(entries, e) ==
  IF HasId(entries, e.key, e.val.id)
    THEN [i \in DOMAIN entries |->
            IF entries[i].key = e.key /\ entries[i].val.id = e.val.id
              THEN e ELSE entries[i]]
    ELSE Append(entries, e)

(* position of a bucket among the buckets *)
BucketAt(entries, key) ==
  CHOOSE i \in DOMAIN entries :
    /\ entries[i].key = key
    /\ \A j \in DOMAIN entries : entries[j].key = key => i <= j

(* the registration that enable() finds: that of the first bucket with the id *)
FirstOf(entries, id) ==
  {entries[i] : i \in {j \in DOMAIN entries :
     /\ entries[j].val.id = id
     /\ \A k \in DOMAIN entries : entries[k].val.id = id =>
          BucketAt(entries, entries[j].key) <= BucketAt(entries, entries[k].key)}}

(* enable() looks through the record validators before the value validators. *)
Found(kinds, id) ==
  LET records == FirstOf(available["record"], id)
  IN  IF kinds = {"zone"} THEN FirstOf(available["zone"], id)
      ELSE IF records # {} THEN records ELSE FirstOf(available["value"], id)

(* the active registrations once e took the place of its id in its bucket *)
Activate(entries, e) ==
  {f \in entries : ~(f.key = e.key /\ f.val.id = e.val.id)} \cup {e}

InSets(v, sets) == Always \in v.sets \/ sets \cap v.sets # {}
Selected(entries, sets) == {e \in ToSet(entries) : InSets(e.val, sets)}

-----------------------------------------------------------------------------
(* The steps of a Manager.  A step is a record with the field op, and a     *)
(* step that raises ends the configuration with what was done before it.    *)

Step(op, kinds, key, id, val, sets) ==
  [op |-> op, kinds |-> kinds, key |-> key, id |-> id, val |-> val, sets |-> sets]

OnRecords == {"record", "value"}
OnZones == {"zone"}

Registers(op, regs) ==
  [i \in DOMAIN regs |-> Step(op, {regs[i].val.kind}, regs[i].key,
                              regs[i].val.id, regs[i].val, {})]
Names(op, kinds, pairs) ==
  [i \in DOMAIN pairs |-> Step(op, kinds, pairs[i].key, pairs[i].id, pairs[i], {})]
Sets(kinds, sets) == <<Step("sets", kinds, All, All, All, sets)>>

(* Mistake: the validators are activated before the providers are imported, *)
(* so that those of the record types that providers bring are not.          *)
StepsEarly(c) ==
  Registers("replace", c.custom)
  \o Sets(OnRecords, c.sets) \o Sets(OnZones, c.sets)
  \o Names("enable", OnRecords, c.add) \o Names("disable", OnRecords, c.drop)
  \o Registers("register", c.imports)

(* what is registered: a module that was imported is not imported again *)
Registering(c) ==
  Registers("register", IF c.imports \in imported THEN << >> ELSE c.imports)
  \o Registers("replace", c.custom)

(* what is activated: _configure_validators *)
Activating(c) ==
  Sets(OnZones, c.sets)
  \o Names("enable", OnRecords, c.add) \o Names("disable", OnRecords, c.drop)
  \o Names("enable", OnZones, c.zadd) \o Names("disable", OnZones, c.zdrop)

Steps(c) == Registering(c) \o (Sets(OnRecords, c.sets) \o Activating(c))

Now == Head(todo)
Doing(op) == todo # << >> /\ Now.op = op
Done == todo' = Tail(todo) /\ UNCHANGED progress
Raise ==
  /\ todo' = << >>
  /\ raised' = TRUE
  /\ UNCHANGED <<registry, config, managers>>

(* a new Manager in the process *)
Make(c) ==
  /\ todo = << >>
  /\ managers < MaxManagers
  /\ managers' = managers + 1
  /\ config' = {c}
  /\ todo' = Steps(c)
  /\ imported' = imported \cup {c.imports}
  /\ raised' = FALSE
  /\ UNCHANGED registry

RegisterNew ==
  /\ Doing("register")
  /\ ~HasId(available[Now.val.kind], Now.key, Now.id)
  /\ available' = [available EXCEPT
       ![Now.val.kind] = Put(@, [key |-> Now.key, val |-> Now.val])]
  /\ UNCHANGED <<active, configured>>
  /\ Done

(* A module whose import raises is imported anew the next time. *)
RegisterTwice ==
  /\ Doing("register")
  /\ HasId(available[Now.val.kind], Now.key, Now.id)
  /\ imported' = {m \in imported : \A c \in config : m # c.imports}
  /\ Raise

(* register(replace=True) leaves what is active as it is. *)
Override ==
  /\ Doing("replace")
  /\ available' = [available EXCEPT
       ![Now.val.kind] = Put(@, [key |-> Now.key, val |-> Now.val])]
  /\ UNCHANGED <<active, configured>>
  /\ Done

(* enable_sets, which starts from nothing *)
WithSets(kinds, sets) ==
  /\ configured' = [k \in {"record", "zone"} |-> configured[k] \/ k \in kinds]
  /\ active' = [k \in Kinds |-> IF k \in kinds THEN Selected(available[k], sets)
                                ELSE active[k]]
  /\ UNCHANGED available

(* Mistake: reset_active is forgotten, and what was active stays. *)
EnableSetsMore ==
  /\ Doing("sets")
  /\ configured' = [k \in {"record", "zone"} |-> configured[k] \/ k \in Now.kinds]
  /\ active' = [k \in Kinds |->
       IF k \in Now.kinds THEN active[k] \cup Selected(available[k], Now.sets)
       ELSE active[k]]
  /\ UNCHANGED available
  /\ Done

EnableSets ==
  /\ Doing("sets")
  /\ WithSets(Now.kinds, Now.sets)
  /\ Done

Enable ==
  /\ Doing("enable")
  /\ \E e \in Found(Now.kinds, Now.id) :
       active' = [active EXCEPT
         ![e.val.kind] = Activate(@, [key |-> Now.key, val |-> e.val])]
  /\ UNCHANGED <<available, configured>>
  /\ Done

EnableUnknown ==
  /\ Doing("enable")
  /\ Found(Now.kinds, Now.id) = {}
  /\ Raise
  /\ UNCHANGED imported

IsBridge(id) == \E v \in Validator : v.id = id /\ v.bridge

(* disable(id, [type]) looks in the bucket of the type alone, and           *)
(* disable(id) in all of them.                                              *)
Disable ==
  /\ Doing("disable")
  /\ ~IsBridge(Now.id)
  /\ active' = [k \in Kinds |->
       IF k \in Now.kinds
         THEN {e \in active[k] : ~(e.val.id = Now.id /\ Now.key \in {All, e.key})}
         ELSE active[k]]
  /\ UNCHANGED <<available, configured>>
  /\ Done

DisableBridge ==
  /\ Doing("disable")
  /\ IsBridge(Now.id)
  /\ Raise
  /\ UNCHANGED imported

Configure ==
  \/ RegisterNew \/ RegisterTwice \/ Override
  \/ EnableSets \/ Enable \/ EnableUnknown
  \/ Disable \/ DisableBridge

-----------------------------------------------------------------------------
(* What runs on a record and on a zone *)

(* The first record, or zone, of a process that configured nothing enables  *)
(* the legacy set.                                                          *)
ActiveNow(kind) ==
  LET group == IF kind = "zone" THEN "zone" ELSE "record"
  IN  IF configured[group] THEN active[kind] ELSE Selected(available[kind], {Legacy})

(* Mistake: what the zone disables for one bucket is skipped in all. *)
RunsSkipAny(kind, type, disabled) ==
  {e.val : e \in {f \in ActiveNow(kind) :
     /\ f.key \in {All, type}
     /\ f.val.bridge \/ \A k \in Buckets : f.val.id \notin disabled[k]}}

(* disabled[key]: the ids that the zone disables for a bucket *)
Runs(kind, type, disabled) ==
  {e.val : e \in {f \in ActiveNow(kind) :
     /\ f.key \in {All, type}
     /\ f.val.bridge \/ f.val.id \notin disabled[f.key]}}

(* The value validators are called by the record validators that are        *)
(* bridges, ValueTypeValidator or ValuesTypeValidator, and by nothing else. *)
RunsOn(type, disabled) ==
  LET records == Runs("record", type, disabled)
  IN  records \cup (IF \E v \in records : v.bridge
                      THEN Runs("value", type, disabled) ELSE {})

ProcessRecord ==
  IF configured["record"] THEN UNCHANGED registry
  ELSE WithSets(OnRecords, {Legacy})

ProcessZone ==
  IF configured["zone"] THEN UNCHANGED registry
  ELSE WithSets(OnZones, {Legacy})

-----------------------------------------------------------------------------
RegistryInit ==
  /\ available = Builtins
  /\ active = [k \in Kinds |-> {}]
  /\ configured = [k \in {"record", "zone"} |-> FALSE]
  /\ todo = << >>
  /\ config = {}
  /\ imported = {}
  /\ managers = 0
  /\ raised = FALSE
=============================================================================
