---------------------------- MODULE Validation ----------------------------
(***************************************************************************)
(* Validating zones: the registries that a Manager configured              *)
(* (Validators) applied to the records that its sources make, one          *)
(* Record.new at a time, and to the zone that they make up, by             *)
(* Zone.validate with the checks of ZoneChecks.                            *)
(*                                                                         *)
(* A record has, besides the fields of ZoneChecks, faults: the validators  *)
(* of records and values that would report it, malformed: whether          *)
(* Record.new itself has something against its name, and dynamic: a set    *)
(* with the dynamic part (DynamicRecords), where it has one.               *)
(***************************************************************************)
EXTENDS Validators, ZoneChecks, DynamicRecords

CONSTANTS
  DynamicId,    \* id of the validator of dynamic parts
  ZoneConfigs   \* configurations of a zone: the records that its sources have
                \* (sources), lenient, and the ids that it disables for each
                \* bucket (records) and for itself (zone)

(* Records are reported by validators of records and of values. *)
ASSUME FaultsAssumption ==
  \A s \in ZoneConfigs : \A r \in s.sources :
    r.type \in Type /\ \A v \in r.faults : v.kind \in OnRecords
(* An alias has one value; policies are told apart by their names.          *)
ASSUME ValuesAssumption ==
  \A s \in ZoneConfigs : \A r \in s.sources :
    /\ IsAlias(r) => \E t \in r.targets : r.targets = {t}
    /\ r.spf \in Seq(STRING) /\ r.dmarc \in Seq(STRING)
ASSUME DynamicsAssumption ==
  \A s \in ZoneConfigs : \A r \in s.sources : \A d \in r.dynamic : IsDynamic(d)

VARIABLES
  zone,      \* the records of the zone that is made
  settings,  \* its configuration
  state      \* "none", "open", or how the work on it ended

zvars == <<zone, settings, state>>
vars == <<vvars, zvars>>

Ready == todo = << >> /\ ~raised

-----------------------------------------------------------------------------
(* A Manager starts with no zone, and makes one after the other. *)
NewManager(c) ==
  /\ Make(c)
  /\ state # "open"
  /\ zone' = {}
  /\ state' = "none"
  /\ UNCHANGED settings

(* Zone.__init__: a zone may not disable a bridge. *)
NewZone(s) ==
  /\ Ready
  /\ state # "open"
  /\ zone' = {}
  /\ settings' = s
  /\ state' = IF \E id \in s.zone \cup UNION {s.records[k] : k \in Buckets} : IsBridge(id)
                THEN "refused" ELSE "open"
  /\ UNCHANGED vvars

(* the types whose classes are registered, each with the bridge that its    *)
(* class brings                                                             *)
Known(type) ==
  \E e \in ToSet(available["record"]) : e.key = type /\ e.val.bridge

(* DynamicValidator runs the value validators on the values of pools. *)
DynamicReported(r) ==
  \E d \in r.dynamic : DynamicFails(d, Runs("value", r.type, settings.records))

Reported(r) ==
  {v \in RunsOn(r.type, settings.records) :
     v \in r.faults \/ (v.id = DynamicId /\ DynamicReported(r))}

(* Record.new for a record of a source, and Zone.add_record with the result *)
AddValid(r) ==
  /\ r.malformed \/ Reported(r) # {} => settings.lenient \/ r.lenient
  /\ zone' = zone \cup {r}
  /\ UNCHANGED state

AddInvalid(r) ==
  /\ r.malformed \/ Reported(r) # {}
  /\ ~settings.lenient /\ ~r.lenient
  /\ state' = "invalid record"
  /\ UNCHANGED zone

AddRecord(r) ==
  /\ Ready
  /\ state = "open"
  /\ Known(r.type)
  /\ ~HasSame(zone, r)
  /\ AddValid(r) \/ AddInvalid(r)
  /\ ProcessRecord
  /\ UNCHANGED <<settings, todo, progress>>

(* data of a type that nobody registered *)
AddUnknown(r) ==
  /\ Ready
  /\ state = "open"
  /\ ~Known(r.type)
  /\ state' = "unknown type"
  /\ UNCHANGED <<vvars, zone, settings>>

(* The order in which sets of records are walked is arbitrary, and only     *)
(* that of the CNAME and ALIAS records can make a difference.               *)
Orders ==
  LET aliases == {r \in zone : IsAlias(r)}
  IN  {p \o SetToSeq(zone \ aliases) : p \in SetToSeqs(aliases)}

ZoneIds == {e.val.id : e \in ActiveNow("zone")} \ settings.zone
Reasons(order) == UNION {ReasonsOf(id, order) : id \in ZoneIds}

(* Mistake: a reason is taken for lenient if one of its records is. *)
PassesWithOne(order) ==
  settings.lenient \/ \A q \in Reasons(order) : \E r \in q.records : r.lenient

Passes(order) ==
  settings.lenient \/ \A q \in Reasons(order) : IsLenient(q)

(* Zone.validate *)
Validate ==
  /\ Ready
  /\ state = "open"
  /\ \E order \in Orders :
       state' = IF Passes(order) THEN "valid" ELSE "invalid zone"
  /\ ProcessZone
  /\ UNCHANGED <<zone, settings, todo, progress>>

-----------------------------------------------------------------------------
Init ==
  /\ RegistryInit
  /\ zone = {}
  /\ settings \in ZoneConfigs
  /\ state = "none"

Next ==
  \/ \E c \in Configs : NewManager(c)
  \/ Configure /\ UNCHANGED zvars
  \/ \E s \in ZoneConfigs : NewZone(s)
  \/ \E r \in settings.sources : AddRecord(r) \/ AddUnknown(r)
  \/ Validate

Spec == Init /\ [][Next]_vars

-----------------------------------------------------------------------------
(* Properties *)

Config == CHOOSE c \in config : TRUE
Pairs(s) == {[key |-> p.key, id |-> p.id] : p \in ToSet(s)}
Drops(s, key, id) ==
  [key |-> key, id |-> id] \in Pairs(s) \/ [key |-> All, id |-> id] \in Pairs(s)

(* The configuration asks for the id in a bucket: its sets or a name in     *)
(* `validators` select it, and `disable_validators` does not name it.       *)
Wanted(kinds, key, id, add, drop) ==
  /\ \/ [key |-> key, id |-> id] \in Pairs(add)
     \/ \E k \in kinds : \E e \in ToSet(available[k]) :
          e.key = key /\ e.val.id = id /\ InSets(e.val, Config.sets)
  /\ ~Drops(drop, key, id)

(* When a Manager has been made, the validators that are active in each     *)
(* bucket are those that its own configuration asks for: nothing is left of *)
(* Managers before it, whether they raised half-way or not, or of the       *)
(* legacy set that records made before it had enabled, and the record types *)
(* that its providers brought are validated like the others.                *)
ActiveAsConfigured ==
  Ready /\ config # {} =>
    /\ \A key \in Buckets, id \in Id :
         (\E k \in OnRecords, e \in active["record"] \cup active["value"] :
            e.key = key /\ e.val.id = id)
         <=> Wanted(OnRecords, key, id, Config.add, Config.drop)
    /\ \A id \in Id :
         (\E e \in active["zone"] : e.val.id = id)
         <=> Wanted(OnZones, All, id, Config.zadd, Config.zdrop)

(* The bridges, which call the value validators, run on every record of a   *)
(* type that has one, whatever was enabled and disabled.                    *)
BridgesRun ==
  Ready /\ configured["record"] =>
    \A e \in ToSet(available["record"]) : e.val.bridge =>
      \E f \in active["record"] : f.key = e.key /\ f.val.id = e.val.id

(* A record that a zone has without being lenient is one that no validator  *)
(* reports which was asked for and which neither the Manager's              *)
(* configuration nor the zone's disables.                                   *)
AdmittedAreValid ==
  Ready /\ config # {} /\ ~settings.lenient =>
    \A r \in zone : ~r.lenient =>
      /\ ~r.malformed
      /\ \A v \in r.faults, key \in {All, r.type} :
           [key |-> key, val |-> v] \in active[v.kind] =>
              v.id \in settings.records[key]

Aliases == {r \in zone : IsAlias(r)}
OneAliasEach == \A r, s \in Aliases : r.name = s.name => r = s

(* The walk reports each loop of CNAME and ALIAS records once and nothing   *)
(* else, in whatever order it meets the records.                            *)
LoopsFound ==
  state = "open" /\ OneAliasEach =>
    \A order \in Orders :
      /\ ToSet(Loops(order)) = {c \in SUBSET Aliases : IsLoop(c)}
      /\ \A i, j \in DOMAIN Loops(order) :
           Loops(order)[i] = Loops(order)[j] => i = j

ZoneNames == UNION {{r.name} \cup r.targets : r \in zone}

(* What a resolver meets at a name: how a lenient alias goes on is its      *)
(* owner's affair.                                                          *)
MetAt(name) ==
  IF ~Owns("A", name) \/ \E r \in OfType(zone, "DNAME") : IsUnder(name, r.name)
    THEN "elsewhere"
  ELSE IF Named(zone, name) = {} THEN "nothing"
  ELSE IF Named(Aliases, name) = {} THEN "data"
  ELSE IF \E r \in Named(Aliases, name) : r.lenient THEN "lenient"
  ELSE "alias"

(* and what it meets when it goes on from there, over at most as many       *)
(* aliases as there are records                                             *)
Meets(name) ==
  LET meets[left \in 0 .. Cardinality(zone)] ==
        [n \in ZoneNames |->
           LET met == MetAt(n)
           IN  IF met # "alias" THEN met
               ELSE IF left = 0 THEN "loop"
               ELSE meets[left - 1][Follow(CHOOSE r \in Named(Aliases, n) : TRUE)]]
  IN  meets[Cardinality(zone)][name]

Accepted(ids) == state = "valid" /\ ids \subseteq ZoneIds /\ ~settings.lenient

ResolverChecks ==
  {"cname-coexistence", "root-cname", "no-cname-loop", "cname-target-not-cname",
   "cname-target-resolvable-in-zone", "dname-coexistence", "glue-for-in-zone-ns",
   "ns-target-not-cname", "srv-target-not-cname", "mx-target-not-cname",
   "srv-target-resolvable-in-zone", "mx-target-resolvable-in-zone"}

(* In a zone that passes the strict and the best-practice checks a resolver *)
(* finds data for each name that an alias, NS, MX or SRV record of the zone *)
(* points at, or is sent to another zone: no target is missing or hidden by *)
(* a DNAME, name servers have addresses, no answer is ambiguous, and there  *)
(* is no loop.  Records that are lenient excuse themselves and not the      *)
(* others they are with.                                                    *)
AcceptedZonesResolve ==
  Accepted(ResolverChecks) =>
    /\ \A r \in {s \in zone : ~s.lenient} :
         /\ \A t \in r.targets : r.type \in {"CNAME", "ALIAS", "NS", "MX", "SRV"} =>
              /\ Meets(t) \in {"data", "elsewhere", "lenient"}
              /\ r.type \in {"NS", "MX", "SRV", "CNAME"} =>
                   Get(zone, t, "CNAME") = {} \/ ~Owns("CNAME", t)
              /\ r.type = "NS" /\ Owns("A", t) =>
                   \E s \in Named(zone, t) : s.type \in {"A", "AAAA"}
         /\ r.type = "CNAME" => r.name # Apex /\ Named(zone, r.name) = {r}
         /\ \A d \in OfType(zone, "DNAME") : ~IsUnder(r.name, d.name)
    /\ OneAliasEach =>
         \A l \in SUBSET Aliases : IsLoop(l) => \A r \in l : r.lenient

(* In a zone that passes the mail check in its default mode, every name     *)
(* with an MX record has one SPF policy, one that lets nobody send if the   *)
(* MX is null, and an apex that has an SPF policy has an MX and DMARC,      *)
(* which rejects if the MX is null.                                         *)
MailAgrees ==
  /\ Accepted({"mail"})
  /\ MailMode = "auto"
  /\ \A r \in zone : ~r.lenient
  =>
    /\ \A m \in OfType(zone, "MX") :
         \E t \in Get(zone, m.name, "TXT") :
           /\ Len(t.spf) = 1
           /\ IF IsNullMx(m) THEN t.spf[1] = "strict" ELSE t.spf[1] # "open"
    /\ \A t \in Get(zone, Apex, "TXT") : t.spf # << >> =>
         \E m \in Get(zone, Apex, "MX"), d \in Get(zone, <<"_dmarc">>, "TXT") :
           /\ Len(d.dmarc) = 1
           /\ IsNullMx(m) => d.dmarc[1] = "reject"

(* the dynamic parts that a zone has and the validator checked *)
CheckedDynamics ==
  IF Ready /\ state = "open" /\ ~settings.lenient
    THEN UNION {r.dynamic : r \in {s \in zone :
           /\ ~s.lenient
           /\ \E v \in RunsOn(s.type, settings.records) : v.id = DynamicId}}
    ELSE {}

(* A dynamic record that was checked serves every client, has no rule that  *)
(* another one hides, no pool that nobody is sent to, and no fallbacks that *)
(* go round in a circle.                                                    *)
DynamicsServe == \A d \in CheckedDynamics : Serves(d)

(* What is left of it for a provider that lacks some support serves every   *)
(* client as well, and it would be accepted if the provider's records were  *)
(* the source of another sync.  (A pool called "default" is not a fallback, *)
(* whatever the data say.)                                                  *)
DynamicsReduce ==
  \A d \in CheckedDynamics :
    Default \notin DOMAIN d.pools =>
      \A supports \in SUBSET {"status", "subnets"} :
        LET left == Supported(Made(d), supports)
        IN  ~DynamicFails(left, {}) /\ Serves(left)

(* docs/configuration.rst:467: "a type string removes it only for that      *)
(* type".                                                                   *)
DisabledForItsType ==
  Ready /\ config # {} =>
    \A p \in Pairs(Config.drop) :
      ~\E v \in RunsOn(p.key, [k \in Buckets |-> {}]) : v.id = p.id
=============================================================================
