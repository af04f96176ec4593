---------------------------- MODULE DynamicRecords ----------------------------
(***************************************************************************)
(* The dynamic part of a record (octodns.record.dynamic): pools of values, *)
(* each with a fallback, and rules that send clients to pools by their     *)
(* address and their location.  What DynamicValidator accepts, what the    *)
(* record makes of it, and what BaseProvider leaves of it for a provider   *)
(* that does not support all of it.                                        *)
(*                                                                         *)
(* A dynamic part has the fields                                           *)
(*   pools  a function from names to pools, with the fields fallback (a    *)
(*          set of at most one name) and values: a sequence of [weight,    *)
(*          status, faults], faults the validators of values that report   *)
(*          it; a pool may lack the field, as the data may lack the key    *)
(*   rules  a sequence of rules, with the fields pool (a set of at most    *)
(*          one name), subnets and geos (sequences)                        *)
(*   geo    whether the record also has the older geo part                 *)
(* Subnets and geo codes are paths: an IP version and the bits of the      *)
(* prefix, or a continent, a country and a province.                       *)
(***************************************************************************)
EXTENDS Naturals, FiniteSets, SequencesExt

CONSTANTS
  Subnet,    \* the subnets that Subnets.parse can parse
  Geo,       \* the geo codes that geo_data knows
  Obey,      \* the status of a value where none is given
  Default    \* a name of a pool that the code takes for none in a fallback

(* A path begins with an IP version or a continent. *)
ASSUME PathsAssumption ==
  (\A p \in Subnet : Len(p) \in Nat \ {0}) /\ (\A p \in Geo : Len(p) \in Nat \ {0})

Statuses == {"up", "down", Obey}

(* data that DynamicValidator can be given *)
AtMostOne(names) == \A a, b \in names : a = b
IsList(s) == Len(s) \in Nat /\ s = [i \in 1 .. Len(s) |-> s[i]]
HasValues(pool) == "values" \in DOMAIN pool
IsPool(pool) ==
  /\ AtMostOne(pool.fallback)
  /\ HasValues(pool) =>
       /\ IsList(pool.values)
       /\ \A v \in ToSet(pool.values) :
            v = [weight |-> v.weight, status |-> v.status, faults |-> v.faults]
IsRule(rule) ==
  /\ rule = [pool |-> rule.pool, subnets |-> rule.subnets, geos |-> rule.geos]
  /\ AtMostOne(rule.pool) /\ IsList(rule.subnets) /\ IsList(rule.geos)
IsDynamic(d) ==
  /\ d = [pools |-> d.pools, rules |-> d.rules, geo |-> d.geo]
  /\ IsFiniteSet(DOMAIN d.pools) /\ \A id \in DOMAIN d.pools : IsPool(d.pools[id])
  /\ IsList(d.rules) /\ \A i \in DOMAIN d.rules : IsRule(d.rules[i])

-----------------------------------------------------------------------------
(* DynamicValidator: the pools *)

(* The value validators that run on the values of pools are given: running. *)
ValueFault(pool, running) ==
  \E i \in DOMAIN pool.values :
    \/ pool.values[i].weight \notin 1 .. 100
    \/ pool.values[i].status \notin Statuses
    \/ pool.values[i].faults \cap running # {}

LoneWeight(pool) == Len(pool.values) = 1 /\ pool.values[1].weight # 1

(* pools.get(fallback, {}).get('fallback') for a fallback that there is *)
NextPool(pools, ids) == UNION {pools[id].fallback : id \in ids \cap DOMAIN pools}

(* the names that the loop over the fallbacks meets, one set for each turn *)
Trail(pools, id) ==
  LET trail[n \in 0 .. Cardinality(DOMAIN pools) + 1] ==
        IF n = 0 THEN {id} ELSE NextPool(pools, trail[n - 1])
  IN  trail

(* Mistake: a fallback is only compared with the pool that the walk began   *)
(* at and its fallback.                                                     *)
LoopsAtOnce(pools, id) ==
  LET trail == Trail(pools, id)
  IN  \E n \in DOMAIN trail : n >= 2 /\ trail[n] # {} /\ trail[n] = trail[n - 2]

LoopsBack(pools, id) ==
  LET trail == Trail(pools, id)
  IN  \E m, n \in DOMAIN trail : m < n /\ n >= 2 /\ trail[n] # {} /\ trail[m] = trail[n]

PoolsFail(pools, running) ==
  \/ DOMAIN pools = {}
  \/ \E id \in DOMAIN pools :
       \/ ~HasValues(pools[id])
       \/ ValueFault(pools[id], running)
       \/ LoneWeight(pools[id])
       \/ ~(pools[id].fallback \subseteq DOMAIN pools)
       \/ LoopsBack(pools, id)

(* pools that neither a rule nor a fallback names *)
UnusedPools(d) ==
  DOMAIN d.pools \ ((UNION {d.rules[i].pool : i \in DOMAIN d.rules}) \cup
                    (UNION {d.pools[id].fallback : id \in DOMAIN d.pools}))

-----------------------------------------------------------------------------
(* DynamicValidator: the rules *)

Targets(rule) == rule.subnets # << >> \/ rule.geos # << >>
GeoOnly(rule) == rule.subnets = << >> /\ rule.geos # << >>

(* a rule without a pool, with one that there is not, or one with targets   *)
(* and the pool of an earlier rule                                          *)
BadPool(d, i) ==
  LET pool == d.rules[i].pool
  IN  \/ pool = {}
      \/ ~(pool \subseteq DOMAIN d.pools)
      \/ Targets(d.rules[i]) /\ \E j \in 1 .. i - 1 : d.rules[j].pool = pool

(* Rules with subnets only come first, then those with subnets and geos,    *)
(* then those with geos only; each rule is compared with the one before.    *)
OutOfOrder(rules, i) ==
  /\ i > 1
  /\ rules[i].subnets # << >>
  /\ IF rules[i].geos # << >> THEN GeoOnly(rules[i - 1]) ELSE rules[i - 1].geos # << >>

SecondDefault(rules, i) ==
  ~Targets(rules[i]) /\ \E j \in 1 .. i - 1 : ~Targets(rules[j])

(* Mistake: what a rule repeats of another is found only if it is the same. *)
SeenOnce(paths) ==
  \E i, j \in DOMAIN paths : j <= i /\
    \E k \in DOMAIN paths[i], l \in DOMAIN paths[j] :
      <<i, k>> # <<j, l>> /\ paths[j][l] = paths[i][k]

(* A subnet or geo that is part of one of an earlier rule, or of the same   *)
(* rule, whose own are sorted so that the broader ones come first.          *)
Seen(paths) ==
  \E i, j \in DOMAIN paths : j <= i /\
    \E k \in DOMAIN paths[i], l \in DOMAIN paths[j] :
      <<i, k>> # <<j, l>> /\ IsPrefix(paths[j][l], paths[i][k])

SubnetsOf(rules) == [i \in DOMAIN rules |-> rules[i].subnets]
GeosOf(rules) == [i \in DOMAIN rules |-> rules[i].geos]

RulesFail(d) ==
  \/ d.rules = << >>
  \/ \E i \in DOMAIN d.rules :
       \/ BadPool(d, i)
       \/ OutOfOrder(d.rules, i)
       \/ SecondDefault(d.rules, i)
       \/ ~(ToSet(d.rules[i].subnets) \subseteq Subnet)
       \/ ~(ToSet(d.rules[i].geos) \subseteq Geo)
  \/ Seen(SubnetsOf(d.rules))
  \/ Seen(GeosOf(d.rules))
  \/ Targets(Last(d.rules))

(* DynamicValidator.validate has a reason to report *)
DynamicFails(d, running) ==
  d.geo \/ PoolsFail(d.pools, running) \/ RulesFail(d) \/ UnusedPools(d) # {}

-----------------------------------------------------------------------------
(* _DynamicMixin.__init__ : a single value has the weight 1, and a fallback *)
(* to the default is none.                                                  *)
Made(d) ==
  [d EXCEPT !.pools = [id \in DOMAIN d.pools |->
     [fallback |-> d.pools[id].fallback \ {Default},
      values |-> IF Len(d.pools[id].values) = 1
                   THEN <<[d.pools[id].values[1] EXCEPT !.weight = 1]>>
                   ELSE d.pools[id].values]]]

-----------------------------------------------------------------------------
(* BaseProvider._process_desired_zone, for a record that was made *)

WithoutStatus(d) ==
  [d EXCEPT !.pools = [id \in DOMAIN d.pools |->
     [d.pools[id] EXCEPT !.values =
        [i \in DOMAIN @ |-> [@[i] EXCEPT !.status = Obey]]]]]

(* A rule with subnets only is skipped. *)
RulesWithoutSubnets(rules) ==
  LET left[i \in 0 .. Len(rules)] ==
        IF i = 0 THEN << >>
        ELSE IF rules[i].subnets # << >> /\ rules[i].geos = << >> THEN left[i - 1]
        ELSE Append(left[i - 1], [rules[i] EXCEPT !.subnets = << >>])
  IN  left[Len(rules)]

(* Mistake: the pools that the rules name are kept and not their fallbacks. *)
PoolsSeenByRules(d) == UNION {d.rules[i].pool : i \in DOMAIN d.rules}

(* the pools of the rules, and all that they fall back to *)
PoolsSeen(d) ==
  UNION {UNION {Trail(d.pools, id)[n] : n \in DOMAIN Trail(d.pools, id)} :
         id \in UNION {d.rules[i].pool : i \in DOMAIN d.rules}}

OnlyPools(d, ids) ==
  [d EXCEPT !.pools = [id \in DOMAIN d.pools \cap ids |-> d.pools[id]]]

WithoutSubnets(d) ==
  IF \E i \in DOMAIN d.rules : d.rules[i].subnets # << >>
    THEN LET less == [d EXCEPT !.rules = RulesWithoutSubnets(@)]
         IN  OnlyPools(less, PoolsSeen(less))
    ELSE d

(* what a provider supports, of "status" and "subnets" *)
Supported(d, supports) ==
  LET flags == IF "status" \in supports THEN d ELSE WithoutStatus(d)
  IN  IF "subnets" \in supports THEN flags ELSE WithoutSubnets(flags)
-----------------------------------------------------------------------------
(* What a dynamic part is for, by which its validation is judged *)

Paths(seqs) == {<< >>} \cup UNION {ToSet(seqs[i]) : i \in DOMAIN seqs}

(* The clients that the rules can tell apart: those in a subnet and at a    *)
(* location that some rule names, and in no narrower one that a rule names. *)
Clients(d) ==
  [net : Paths(SubnetsOf(d.rules)), loc : Paths(GeosOf(d.rules))]
Within(paths, path) == paths = << >> \/ \E p \in ToSet(paths) : IsPrefix(p, path)
Matching(rule, client) ==
  Within(rule.subnets, client.net) /\ Within(rule.geos, client.loc)

(* Each client meets a rule, each rule is the first that some client meets, *)
(* and from the pool of a rule the fallbacks lead to an end, through pools  *)
(* that there are; no pool is left over.                                    *)
Serves(d) ==
  LET rules == d.rules
      sees(i) == LET trail == Trail(d.pools, CHOOSE id \in rules[i].pool : TRUE)
                 IN  {trail[n] : n \in DOMAIN trail}
  IN  /\ \A c \in Clients(d) : \E i \in DOMAIN rules : Matching(rules[i], c)
      /\ \A i \in DOMAIN rules :
           /\ \E c \in Clients(d) :
                /\ Matching(rules[i], c)
                /\ \A j \in 1 .. i - 1 : ~Matching(rules[j], c)
           /\ {} \in sees(i)
           /\ UNION sees(i) \subseteq DOMAIN d.pools
      /\ DOMAIN d.pools = UNION UNION {sees(i) : i \in DOMAIN rules}
=============================================================================
