--------------------------- MODULE DynamicZones ---------------------------
(***************************************************************************)
(* Which zones a Manager works on: the zones of the configuration, kept in *)
(* a dict by their IDNA names, the dynamic ones among them ("*...") that   *)
(* the first call replaces by the zones that their sources list, and the   *)
(* sub-zones that are computed once.  A call of sync, dump, compare or     *)
(* validate_configs is one action, up to the tasks that it starts: what    *)
(* they do is Sync's and Pipeline's.                                       *)
(*                                                                         *)
(* A zone is the sequence of its labels.  Sources list zones and commands  *)
(* name them by spellings: the IDNA form or a UTF-8 form of the name.      *)
(* In which order the zones of the dict come decides which of several      *)
(* faults a call reports and how many tasks it had started by then; it is  *)
(* left open here.                                                         *)
(***************************************************************************)
EXTENDS Records

CONSTANTS
  Spelling,     \* the names by which zones are written
  IdnaEncode,   \* IdnaEncode[spelling]: the zone that it spells
  Utf8,         \* the spellings that differ from their IDNA form
  ArpaZones,    \* the zones below arpa.
  Source,       \* providers that are configured and can be sources
  Listers,      \* those of them that have list_zones
  Target,       \* providers that are configured and can be targets
  ConfigId,     \* the configurations of zones, dynamic ones included
  Config,       \* Config[id]: see below
  Setups,       \* the configurations of a Manager: explicit zones by their
                \* spelling, dynamic ones in their order, and auto_arpa
  Listings,     \* what the sources may list: functions from Source
  Filters,      \* what sync is restricted to: zones, sources and targets,
                \* each {} for all of them
  None,         \* no configuration, no alias, no such key
  MaxCalls      \* bound: calls of one Manager

(***************************************************************************)
(* The fields of a zone's configuration:                                   *)
(*   alias       the zone that it is an alias of, or None                  *)
(*   sources, targets   names of providers, None where the key is missing  *)
(*   processors  whether all its processors are configured                 *)
(*   matcher     "glob", "regex" or "bad regex", or "all" without either   *)
(*   matches     the spellings that the glob or regex matches              *)
(***************************************************************************)
Zone == {IdnaEncode[s] : s \in Spelling}

ASSUME ListersAssumption == Listers \subseteq Source
ASSUME ListingsAssumption == Listings \subseteq [Source -> SUBSET Spelling]
ASSUME SetupsAssumption ==
  \A s \in Setups :
    /\ DOMAIN s.zones \subseteq Spelling
    /\ \A n \in DOMAIN s.zones : s.zones[n] \in ConfigId
    /\ s.dynamic \in Seq(ConfigId)
    /\ s.auto_arpa \in BOOLEAN
(* Each dynamic zone has a dict of its own to pop its glob from.            *)
ASSUME OwnConfigAssumption ==
  \A s \in Setups : \A i, j \in DOMAIN s.dynamic : s.dynamic[i] = s.dynamic[j] => i = j
ASSUME NamesAssumption == IdnaEncode \in [Spelling -> Zone] /\ None \notin ConfigId
ASSUME FiltersAssumption == \A f \in Filters : f.zones \subseteq Zone
ASSUME MaxCallsAssumption == MaxCalls \in Nat

VARIABLES
  setup,     \* the configuration of the Manager
  zones,     \* config['zones'] without the dynamic ones: zone -> id or None
  dynamic,   \* the dynamic configurations that are left, in their order
  popped,    \* those whose glob or regex was taken out of them
  subs,      \* _configured_sub_zones: {} or the one function computed
  listed,    \* what list_zones of each source returns
  calls,     \* how many calls were made
  compared,  \* compare was called
  tasks,     \* what the last call started or wrote
  outcome    \* how the last call ended

config_vars == <<zones, dynamic, popped>>
vars == <<setup, config_vars, subs, listed, calls, compared, tasks, outcome>>

Configured(zs) == {z \in Zone : zs[z] # None}

-----------------------------------------------------------------------------
(* Manager._config_zones *)

SpelledTwice(s) ==
  \E m, n \in DOMAIN s.zones : m # n /\ IdnaEncode[m] = IdnaEncode[n]

AsDict(s) ==
  [z \in Zone |->
     IF \E n \in DOMAIN s.zones : IdnaEncode[n] = z
       THEN s.zones[CHOOSE n \in DOMAIN s.zones : IdnaEncode[n] = z]
       ELSE None]

-----------------------------------------------------------------------------
(* Manager._preprocess_zones, one dynamic configuration after the other *)

IsEligible(names, eligible) == eligible = {} \/ names \cap eligible # {}

(* _get_sources raises, or returns None, which its callers here run into *)
LacksSources(c, eligible) ==
  \/ Config[c].sources = None
  \/ ~IsEligible(Config[c].sources, eligible)
  \/ ~(Config[c].sources \subseteq Source)

(* Mistake: only the zones that are configured explicitly are taken out, *)
(* and not those that an earlier dynamic configuration claimed.          *)
TakenExplicitly(zs, spellings) ==
  {s \in spellings \ Utf8 : AsDict(setup)[IdnaEncode[s]] # None}

(* The spellings that are taken out of the candidates: the keys of the dict *)
TakenBy(zs, spellings) ==
  {s \in spellings \ Utf8 : zs[IdnaEncode[s]] # None}

Matching(c, taken, candidates) ==
  IF Config[c].matcher = "all" \/ c \in taken THEN candidates
  ELSE candidates \cap Config[c].matches

Expanded(st, c, found) ==
  LET spellings == UNION {listed[s] : s \in found}
      candidates == spellings \ TakenBy(st.zones, spellings)
      matches == {IdnaEncode[s] : s \in Matching(c, st.popped, candidates)}
  IN  [st EXCEPT
         !.zones = [z \in Zone |-> IF z \in matches THEN c ELSE @[z]],
         !.dynamic = Tail(@),
         !.popped = @ \cup {c}]

(* The next dynamic configuration.  A regular expression that does not      *)
(* compile raises when it has been taken out of its configuration.          *)
Expand(st, c, given, eligible) ==
  LET found == IF given # {} THEN given ELSE Config[c].sources
  IN  IF st.raised THEN st
      ELSE IF given = {} /\ LacksSources(c, eligible) THEN [st EXCEPT !.raised = TRUE]
      ELSE IF ~(found \subseteq Listers) THEN [st EXCEPT !.raised = TRUE]
      ELSE IF Config[c].matcher = "bad regex" /\ c \notin st.popped
        THEN [st EXCEPT !.raised = TRUE, !.popped = @ \cup {c}]
      ELSE Expanded(st, c, found)

Preprocess(given, eligible) ==
  LET after[i \in 0 .. Len(dynamic)] ==
        IF i = 0
          THEN [zones |-> zones, dynamic |-> dynamic, popped |-> popped, raised |-> FALSE]
          ELSE Expand(after[i - 1], dynamic[i], given, eligible)
  IN  after[Len(dynamic)]

Preprocessed(p) ==
  /\ zones' = p.zones
  /\ dynamic' = p.dynamic
  /\ popped' = p.popped

-----------------------------------------------------------------------------
(* Manager.configured_sub_zones and get_zone *)

(* Mistake: only a sub-zone one label down is found. *)
ChildrenOf(zs, zone) ==
  {s \in Configured(zs) : IsUnder(s, zone) /\ Len(s) = Len(zone) + 1}

SubZonesOf(zs, zone) == {s \in Configured(zs) : IsUnder(s, zone)}

(* They are computed when they are first asked for, and of the zones that   *)
(* are configured by then.                                                  *)
Computed(zs) ==
  [z \in Zone |-> IF z \in Configured(zs) THEN SubZonesOf(zs, z) ELSE {}]
Cached(zs) == IF subs # {} THEN subs ELSE {Computed(zs)}
SubZones(zs, zone) == UNION {f[zone] : f \in Cached(zs)}

Task(zs, zone, targets) ==
  [zone |-> zone, config |-> zs[zone], targets |-> targets,
   subs |-> SubZones(zs, zone)]

-----------------------------------------------------------------------------
(* Manager.sync *)

Targets(c, eligible) ==
  IF eligible = {} THEN Config[c].targets ELSE Config[c].targets \cap eligible

(* zones that the loop goes through without an alias, and gives a task *)
IsPlanned(c, es, et) ==
  /\ IsEligible(Config[c].sources, es)
  /\ Config[c].sources # {}
  /\ Targets(c, et) # {}

AliasFaults(zs, c) ==
  LET source == Config[c].alias
  IN  zs[source] = None \/ Config[zs[source]].alias # None

Faults(zs, zone, es, et) ==
  LET c == zs[zone]
  IN  \/ c = None
      \/ IF Config[c].alias # None THEN AliasFaults(zs, c)
         ELSE \/ Config[c].sources = None
              \/ IsEligible(Config[c].sources, es) /\ ~(Config[c].sources \subseteq Source)
              \/ Config[c].targets = None
              \/ ~Config[c].processors
              \/ IsPlanned(c, es, et) /\ ~(Targets(c, et) \subseteq Target)

(* sync's filters and AutoArpa do not go together *)
PartialArpa(requested, ez, es, et) ==
  /\ setup.auto_arpa
  /\ requested \cap ArpaZones # {}
  /\ ez \cap ArpaZones # {} \/ es # {} \/ et # {}

PlannedTasks(zs, requested, es, et) ==
  {Task(zs, z, Targets(zs[z], et)) : z \in {y \in requested :
     /\ Config[zs[y]].alias = None
     /\ IsPlanned(zs[y], es, et)}}

AliasTasks(zs, requested) ==
  {Task(zs, z, Config[zs[Config[zs[z]].alias]].targets) :
     z \in {y \in requested : Config[zs[y]].alias # None}}

(* An alias needs the desired zone that its source was planned with; arpa   *)
(* zones that are held back have none yet.                                  *)
Orphans(zs, requested, planned) ==
  {z \in requested :
     /\ Config[zs[z]].alias # None
     /\ ~\E t \in planned : /\ t.zone = Config[zs[z]].alias
                            /\ ~(setup.auto_arpa /\ t.zone \in ArpaZones)}

Ends(how, started, zs) ==
  /\ outcome' = how
  /\ tasks' = started
  /\ subs' = IF started = {} THEN subs ELSE Cached(zs)

(* A call that raises in its loop had started any of the tasks before. *)
EndsEarly(some, zs) == \E started \in some : Ends("raised", started, zs)

Called(name) ==
  /\ outcome # "new" /\ outcome # "refused"
  /\ calls < MaxCalls
  /\ calls' = calls + 1
  /\ compared' = (compared \/ name = "compare")
  /\ UNCHANGED <<setup, listed>>

Sync(ez, es, et) ==
  LET p == Preprocess({}, es)
      requested == IF ez = {} THEN Configured(p.zones) ELSE ez
      fine == {z \in requested : ~Faults(p.zones, z, es, et)}
      planned == PlannedTasks(p.zones, fine, es, et)
  IN  /\ Called("sync")
      /\ Preprocessed(p)
      /\ IF p.raised \/ PartialArpa(requested, ez, es, et)
           THEN Ends("raised", {}, p.zones)
         ELSE IF fine # requested
           THEN EndsEarly(SUBSET planned, p.zones)
         ELSE IF Orphans(p.zones, requested, planned) # {}
           THEN EndsEarly({planned}, p.zones)
         ELSE Ends("done", planned \cup AliasTasks(p.zones, requested), p.zones)

-----------------------------------------------------------------------------
(* The other calls *)

(* dump: what is asked for is one zone, or {} for all of them.  Zones are   *)
(* written from the given sources, whatever their own are, one by one.      *)
Dump(ez, given) ==
  LET p == Preprocess(given, {})
      requested == IF ez = {} THEN Configured(p.zones) ELSE ez
      fine == {z \in requested : p.zones[z] # None /\ Config[p.zones[z]].processors}
      written(zs) == {Task(p.zones, z, {}) : z \in zs}
  IN  /\ Called("dump")
      /\ IF given \subseteq Source
           THEN /\ Preprocessed(p)
                /\ IF p.raised THEN Ends("raised", {}, p.zones)
                   ELSE IF fine # requested
                     THEN EndsEarly({written(zs) : zs \in SUBSET fine}, p.zones)
                   ELSE Ends("done", written(requested), p.zones)
           ELSE Ends("raised", {}, zones) /\ UNCHANGED config_vars

(* validate_configs makes each zone first and looks at its configuration    *)
(* then: nothing is planned, but the sub-zones are computed.                *)
ValidateConfigs ==
  LET p == Preprocess({}, {})
      invalid == {z \in Configured(p.zones) :
        LET c == p.zones[z]
        IN  IF Config[c].alias # None THEN AliasFaults(p.zones, c)
            ELSE \/ Config[c].sources = None
                 \/ ~(Config[c].sources \subseteq Source)
                 \/ ~Config[c].processors}
  IN  /\ Called("validate")
      /\ Preprocessed(p)
      /\ tasks' = {}
      /\ outcome' = IF p.raised \/ invalid # {} THEN "raised" ELSE "done"
      /\ subs' = IF p.raised \/ Configured(p.zones) = {} THEN subs ELSE Cached(p.zones)

(* compare does not expand the dynamic configurations. *)
Compare(zone, a, b) ==
  /\ Called("compare")
  /\ IF a \cup b \subseteq Source /\ zones[zone] # None
       THEN Ends("done", {Task(zones, zone, {})}, zones)
       ELSE Ends("raised", {}, zones)
  /\ UNCHANGED config_vars

-----------------------------------------------------------------------------
(* Manager.__init__ *)
MakeManager ==
  /\ outcome = "new"
  /\ outcome' = IF SpelledTwice(setup) THEN "refused" ELSE "ready"
  /\ zones' = AsDict(setup)
  /\ dynamic' = setup.dynamic
  /\ UNCHANGED <<setup, popped, subs, listed, calls, compared, tasks>>

(* files are added to and removed from a source *)
EditListing ==
  /\ outcome # "new"
  /\ calls < MaxCalls
  /\ listed' \in Listings
  /\ UNCHANGED <<setup, config_vars, subs, calls, compared, tasks, outcome>>

Init ==
  /\ setup \in Setups
  /\ zones = [z \in Zone |-> None]
  /\ dynamic = << >>
  /\ popped = {}
  /\ subs = {}
  /\ listed \in Listings
  /\ calls = 0
  /\ compared = FALSE
  /\ tasks = {}
  /\ outcome = "new"

Next ==
  \/ MakeManager
  \/ \E f \in Filters : Sync(f.zones, f.sources, f.targets)
  \/ \E ez \in {{}} \cup {{z} : z \in Zone}, given \in SUBSET Source : Dump(ez, given)
  \/ ValidateConfigs
  \/ \E z \in Zone, a, b \in Source : Compare(z, {a}, {b})
  \/ EditListing

Spec == Init /\ [][Next]_vars

-----------------------------------------------------------------------------
(* Properties *)

(* A zone that some source lists in UTF-8 only is not counted: see          *)
(* ClaimsStand.                                                             *)
ListedInUtf8(zone) ==
  \E s \in Source : \E n \in listed[s] \cap Utf8 : IdnaEncode[n] = zone

(* the dynamic configurations that could have a zone: those of whose        *)
(* sources one lists it, under a name that the configuration matches        *)
Claimants(zone, given) ==
  {i \in DOMAIN dynamic :
     \E s \in IF given = {} THEN Config[dynamic[i]].sources ELSE given :
     \E n \in listed[s] : IdnaEncode[n] = zone /\ n \in Matching(dynamic[i], popped, {n})}

(* Whichever call expands the dynamic configurations: a zone that was       *)
(* configured keeps its configuration, and one that is listed has that of   *)
(* the first in order which matches it, and no other zone is made.          *)
FirstClaims ==
  \A given \in SUBSET Listers :
    LET p == Preprocess(given, {})
    IN  ~p.raised =>
          \A z \in Zone : ~ListedInUtf8(z) =>
            p.zones[z] =
              IF zones[z] # None \/ Claimants(z, given) = {} THEN zones[z]
              ELSE dynamic[CHOOSE i \in Claimants(z, given) :
                             \A j \in Claimants(z, given) : i <= j]

(* the zone that a name belongs to: the deepest one that is configured *)
IsHome(zone, name) ==
  /\ name = zone \/ IsUnder(name, zone)
  /\ ~\E z \in Configured(zones) :
        (name = z \/ IsUnder(name, z)) /\ IsUnder(z, zone)

(* Each name is open to the records of one zone at most, its home, whichever *)
(* calls were made before: a zone's sub-zones are those of the whole         *)
(* configuration, also when the run is for few of them and when zones were   *)
(* listed by sources.  Not so after a compare, which computes the sub-zones  *)
(* before the dynamic configurations are expanded.                           *)
NamesHaveOneHome ==
  ~compared =>
    \A t \in tasks, name \in Zone :
      name = t.zone \/ IsUnder(name, t.zone) =>
        (IsHome(t.zone, name) <=>
           ~\E s \in t.subs : name = s \/ IsUnder(name, s))

(* docs/dynamic_zone_config.rst:80: "once claimed a zone is no longer        *)
(* available for matching", and explicit zones are not matched at all        *)
(* (manager.py:887).                                                         *)
ClaimsStand ==
  [][\A z \in Zone : zones[z] # None => zones'[z] = zones[z]]_vars
=============================================================================
