---------------------------- MODULE Processors ----------------------------
(***************************************************************************)
(* What the processors of octodns.processor do to zones and plans.         *)
(*                                                                         *)
(* A processor is a record of its class and its options; a chain is the    *)
(* sequence of the processors that a zone is configured with.  The value   *)
(* of a record of Changes is the set of its values here, each a pair of a  *)
(* key and a text: the meta record's values have keys, others are "text".  *)
(* Where a processor looks closer a key says what the text is:             *)
(*   "ttl"       the record's TTL, which is compared as its values are     *)
(*   "open"      a name that lacks its final dot                           *)
(*   "template", "open template"   a text with parameters, the latter to   *)
(*               be a name and without a final dot                         *)
(*   "spf"       a policy, the text its name in SpfTerms                   *)
(***************************************************************************)
EXTENDS Changes

CONSTANTS
  Rendered,     \* what templates (pairs) become with the parameters there are;
                \* one with a parameter that is not defined is not in its domain
  ValidText(_), \* the validators have nothing against a rendered value
  SpfTerms,     \* the terms of a policy: records of a kind ("lookup", which "all"
                \* without a sign is for its first letter, "include",
                \* "ptr" or "other") and a domain
  Published,    \* the policies that the domains that exist have published
  LookupLimit   \* how many lookups a policy may cost: 10

ASSUME SpfAssumption ==
  /\ LookupLimit \in Nat
  /\ SpfTerms = [p \in DOMAIN SpfTerms |-> SpfTerms[p]]
  /\ \A p \in DOMAIN SpfTerms :
       /\ Len(SpfTerms[p]) \in Nat \ {0}
       /\ \A i \in 1 .. Len(SpfTerms[p]) :
            SpfTerms[p][i].kind \in {"lookup", "include", "ptr", "other"}
  /\ \A d \in DOMAIN Published : Published[d] \in SUBSET DOMAIN SpfTerms

ASSUME RenderedAssumption == \A v \in DOMAIN Rendered : v[1] \in {"template", "open template"}

Text(t) == <<"text", t>>
Plain(name, type, value) ==
  [name |-> name, type |-> type, value |-> value,
   ignored |-> FALSE, included |-> {}, excluded |-> {}, lenient |-> FALSE]

-----------------------------------------------------------------------------
(* Filters: by type, name, value or network.  `list` is the set of types,   *)
(* of names that match or of values that match.                             *)

MatchesType(p, r) == p.by = "type" /\ r.type \in p.list
MatchesName(p, r) == p.by = "name" /\ r.name \in p.list
MatchesValue(p, r) == p.by \in {"value", "network"} /\ r.value \cap p.list # {}

(* The network filters see addresses only. *)
PassesNetwork(p, r) == p.by = "network" /\ r.type \notin {"A", "AAAA"}

(* AllowsMixin and RejectsMixin *)
Keeps(p, r) ==
  LET matches == MatchesType(p, r) \/ MatchesName(p, r) \/ MatchesValue(p, r)
  IN  PassesNetwork(p, r) \/ matches = p.allow

Filtered(p, zone) == {r \in zone : Keeps(p, r)}

-----------------------------------------------------------------------------
(* OwnershipProcessor: a TXT record at _owner.<type>.<name> marks a record  *)

OwnerValue == {Text("octodns")}
Relabelled(name, from, to) ==
  [i \in DOMAIN name |-> IF name[i] = from THEN to ELSE name[i]]

MarkerName(r) == <<"_owner", r.type>> \o Relabelled(r.name, "*", "_wildcard")
Marker(r) == Plain(MarkerName(r), "TXT", OwnerValue)

IsOwnershipName(r) == r.type = "TXT" /\ r.name # Apex /\ r.name[1] = "_owner"
IsOwnership(r) == IsOwnershipName(r) /\ r.value = OwnerValue

(* _decode_ownership_name: the name and type that a marker is about *)
Decoded(r) ==
  [name |-> Relabelled(SubSeq(r.name, 3, Len(r.name)), "_wildcard", "*"),
   type |-> r.name[2]]

Markers(zone) == {Marker(r) : r \in {r \in zone : ~IsOwnership(r)}}
MarksTwice(p, zone) ==
  ~p.should_replace /\ \E m \in Markers(zone) : HasSame(zone, m)
Marked(zone) == {r \in zone : ~HasSame(Markers(zone), r)} \cup Markers(zone)

(* Mistake: no marker is anybody else's. *)
NeverTakesOver(p, existing, desired) == FALSE

Owned(existing, desired) ==
  {Decoded(m) : m \in {m \in existing \cup desired : IsOwnership(m)}}
TakesOver(p, existing, desired) ==
  /\ ~p.allow_takeover
  /\ \E m \in existing :
        /\ IsOwnershipName(m) /\ ~IsOwnership(m)
        /\ Decoded(m) \in Owned(existing, desired)

(* Mistake: a record is ours if one of its name is. *)
OwnedNames(existing, desired, changes) ==
  {c \in changes :
     \/ IsOwnership(c.record)
     \/ \E o \in Owned(existing, desired) : o.name = c.record.name}

OwnedChanges(existing, desired, changes) ==
  {c \in changes :
     \/ IsOwnership(c.record)
     \/ HasSame(Owned(existing, desired), c.record)
     \/ c.record.name = <<"octodns-meta">>}

-----------------------------------------------------------------------------
(* AcmeManagingProcessor: its own challenges carry a value that says so     *)

Managing == Text("octoDNS")
IsChallenge(r) ==
  r.type = "TXT" /\ r.name # Apex /\ r.name[1] = "_acme-challenge"
WithManaging(zone) ==
  {IF IsChallenge(r) THEN [r EXCEPT !.value = @ \cup {Managing}] ELSE r : r \in zone}

(* Mistake: the target's challenges are not looked at. *)
KeepsAnyChallenge(r, owned) == TRUE

(* What the target keeps of its challenges; owned holds the records that    *)
(* the processor has seen as sources, of whatever zone.                     *)
KeepsChallenge(r, owned) ==
  IsChallenge(r) => Managing \in r.value \/ HasSame(owned, r)

-----------------------------------------------------------------------------
(* MetaProcessor *)

MetaRecord(p, values) == Plain(p.record_name, "TXT", values)
Keys(values) == {v[1] : v \in values}

(* Mistake: the values are compared, not their keys. *)
IsSameMeta(p, c, existing, values) ==
  /\ c.record.type = "TXT" /\ c.record.name = p.record_name
  /\ \E r \in existing : SameRecord(r, c.record) /\ r.value = values

IsUpToDateMeta(p, c, existing, values) ==
  /\ c.record.type = "TXT" /\ c.record.name = p.record_name
  /\ \E r \in existing : SameRecord(r, c.record) /\ Keys(r.value) = Keys(values)

-----------------------------------------------------------------------------
(* TTLs: TtlClampProcessor and TtlRestrictionFilter *)

Ttls(r) == {v[2] : v \in {v \in r.value : v[1] = "ttl"}}

Clamp(p, ttl) ==
  CASE ttl < p.min_ttl -> p.min_ttl [] ttl > p.max_ttl -> p.max_ttl [] OTHER -> ttl
Clamped(p, zone) ==
  {[r EXCEPT !.value =
      {IF v[1] = "ttl" THEN <<"ttl", Clamp(p, v[2])>> ELSE v : v \in @}] : r \in zone}

(* The bounds hold for the TTLs of allowed_ttls too. *)
Restricted(p, r) ==
  ~r.lenient /\ \E t \in Ttls(r) :
    (p.allowed_ttls # {} /\ t \notin p.allowed_ttls) \/ t < p.min_ttl \/ t > p.max_ttl

-----------------------------------------------------------------------------
(* EnsureTrailingDots and Templating *)

DottedTypes == {"ALIAS", "CNAME", "DNAME", "NS", "PTR", "MX", "SRV"}
Dotted(v) ==
  CASE v[1] = "open" -> Text(v[2])
    [] v[1] = "open template" -> <<"template", v[2]>>
    [] OTHER -> v
WithDots(zone) ==
  {IF r.type \in DottedTypes THEN [r EXCEPT !.value = {Dotted(v) : v \in @}] ELSE r : r \in zone}

IsTemplate(v) == v[1] \in {"template", "open template"}
Filled(v) == IF v \in DOMAIN Rendered THEN Rendered[v] ELSE v
WithTemplates(zone) == {[r EXCEPT !.value = {Filled(v) : v \in @}] : r \in zone}

(* The record that is made of the rendered values is validated. *)
FailsToFill(r) ==
  \E v \in r.value :
    IsTemplate(v) /\ (v \in DOMAIN Rendered => ~r.lenient /\ ~ValidText(Rendered[v]))

-----------------------------------------------------------------------------
(* SpfDnsLookupProcessor: the lookups that a policy costs, counted term by  *)
(* term, and Objection from where it objects.  The limit is looked at when  *)
(* a term begins.                                                           *)

Objection == LookupLimit + 2

(* Mistake: one lookup more. *)
TooManyLate(spent) == spent > LookupLimit + 1
TooMany(spent) == spent > LookupLimit

(* What was spent after the policies of a record: it is to have one at most.*)
Ambiguous(policies) == \E p, q \in policies : p # q
AfterPolicies(policies, spent, counts) ==
  IF policies = {} THEN spent
  ELSE IF Ambiguous(policies) THEN Objection
  ELSE counts[CHOOSE p \in policies : TRUE][spent]

AfterTerm(spent, term, counts) ==
  IF TooMany(spent) \/ term.kind = "ptr" THEN Objection
  ELSE IF term.kind = "lookup" THEN spent + 1
  ELSE IF term.kind # "include" THEN spent
  ELSE IF term.domain \notin DOMAIN Published THEN Objection
  ELSE AfterPolicies(Published[term.domain], spent + 1, counts)

AfterTerms(terms, lookups, counts) ==
  LET spent[i \in 0 .. Len(terms)] ==
        IF i = 0 THEN lookups ELSE AfterTerm(spent[i - 1], terms[i], counts)
  IN  spent[Len(terms)]

(* _check_dns_lookups, by the number of includes that may still be within   *)
(* each other, the policy and the lookups it begins with.  An include costs *)
(* a lookup, so that at the last of these levels every term is too many.    *)
Counts ==
  LET counts[depth \in 0 .. Objection] ==
        [p \in DOMAIN SpfTerms |-> [lookups \in 0 .. Objection |->
           IF depth = 0 THEN Objection
           ELSE AfterTerms(SpfTerms[p], lookups, counts[depth - 1])]]
  IN  counts

Policies(r) == {v[2] : v \in {v \in r.value : v[1] = "spf"}}
SpfObjects(r) ==
  /\ r.type = "TXT" /\ ~r.lenient
  /\ AfterPolicies(Policies(r), 0, Counts[Objection]) = Objection

-----------------------------------------------------------------------------
(* The hooks, one processor at a time *)

SourceRaises(p, zone) ==
  \/ p.class = "filter" /\ p.error /\ Filtered(p, zone) # zone
  \/ p.class = "ownership" /\ MarksTwice(p, zone)
  \/ p.class = "restrict" /\ \E r \in zone : Restricted(p, r)
  \/ p.class = "spf" /\ \E r \in zone : SpfObjects(r)

(* process_source_zone *)
SourceZone(p, zone) ==
  CASE p.class = "filter" -> Filtered(p, zone)
    [] p.class = "ignore_root_ns" -> zone \ RootNsIn(zone)
    [] p.class = "ownership" -> Marked(zone)
    [] p.class = "acme" -> WithManaging(zone)
    [] p.class = "clamp" -> Clamped(p, zone)
    [] p.class = "dots" -> WithDots(zone)
    [] OTHER -> zone

(* Mistake: include_target turned round. *)
TargetZoneAlone(p, owned, zone) ==
  CASE p.class = "filter" /\ ~p.include_target -> Filtered(p, zone)
    [] p.class = "ignore_root_ns" -> zone \ RootNsIn(zone)
    [] p.class = "acme" -> {r \in zone : KeepsChallenge(r, owned)}
    [] OTHER -> zone

(* process_target_zone *)
TargetRaises(p, zone) ==
  p.class = "filter" /\ p.error /\ p.include_target /\ Filtered(p, zone) # zone
TargetZone(p, owned, zone) ==
  CASE p.class = "filter" /\ p.include_target -> Filtered(p, zone)
    [] p.class = "ignore_root_ns" -> zone \ RootNsIn(zone)
    [] p.class = "acme" -> {r \in zone : KeepsChallenge(r, owned)}
    [] OTHER -> zone

(* process_source_and_target_zones: the meta record is added to desired,    *)
(* and templates are filled in.                                             *)
BothRaise(p, desired) ==
  \/ p.class = "meta" /\ \E r \in desired : r.type = "TXT" /\ r.name = p.record_name
  \/ p.class = "templating" /\ \E r \in desired : FailsToFill(r)
BothZones(p, values, desired) ==
  CASE p.class = "meta" -> desired \cup {MetaRecord(p, values)}
    [] p.class = "templating" -> WithTemplates(desired)
    [] OTHER -> desired

(* process_plan, on the changes of the plan.  BaseProvider.plan makes none  *)
(* without changes, and `planned` says that there still is one.             *)
PlanRaises(p, planned, existing, desired, changes) ==
  \/ /\ p.class = "exclude_root_ns_changes" /\ p.error
     /\ \E c \in changes : IsRootNs(c.record)
  \/ /\ p.class = "ownership" /\ planned
     /\ TakesOver(p, existing, desired)
ProcessPlan(p, values, existing, desired, changes) ==
  CASE p.class = "exclude_root_ns_changes" -> {c \in changes : ~IsRootNs(c.record)}
    [] p.class = "ownership" -> OwnedChanges(existing, desired, changes)
    [] p.class = "meta" /\ \E c \in changes :
         changes = {c} /\ IsUpToDateMeta(p, c, existing, values) -> {}
    [] OTHER -> changes

-----------------------------------------------------------------------------
(* The hooks of a chain, in order: what the processors up to the i-th have  *)
(* made.  A chain raises if a processor does on what those before it left.  *)

SourceStages(chain, zone) ==
  LET at[i \in 0 .. Len(chain)] ==
        IF i = 0 THEN zone ELSE SourceZone(chain[i], at[i - 1])
  IN  at
TargetStages(chain, owned, zone) ==
  LET at[i \in 0 .. Len(chain)] ==
        IF i = 0 THEN zone ELSE TargetZone(chain[i], owned, at[i - 1])
  IN  at
BothStages(chain, values, desired) ==
  LET at[i \in 0 .. Len(chain)] ==
        IF i = 0 THEN desired ELSE BothZones(chain[i], values, at[i - 1])
  IN  at
PlanStages(chain, values, existing, desired, changes) ==
  LET at[i \in 0 .. Len(chain)] ==
        IF i = 0 THEN changes
        ELSE ProcessPlan(chain[i], values, existing, desired, at[i - 1])
  IN  at

SourceChain(chain, zone) == SourceStages(chain, zone)[Len(chain)]
TargetChain(chain, owned, zone) == TargetStages(chain, owned, zone)[Len(chain)]
BothChain(chain, values, desired) == BothStages(chain, values, desired)[Len(chain)]
PlanChain(chain, values, existing, desired, changes) ==
  PlanStages(chain, values, existing, desired, changes)[Len(chain)]

(* The challenges that the AcmeManagingProcessor of a chain remembers. *)
Seen(chain, zone) ==
  UNION {{r \in SourceStages(chain, zone)[i - 1] : IsChallenge(r)} :
           i \in {i \in DOMAIN chain : chain[i].class = "acme"}}

SourceChainRaises(chain, zone) ==
  \E i \in DOMAIN chain : SourceRaises(chain[i], SourceStages(chain, zone)[i - 1])
TargetChainRaises(chain, owned, zone) ==
  \E i \in DOMAIN chain :
     TargetRaises(chain[i], TargetStages(chain, owned, zone)[i - 1])
BothChainRaises(chain, values, desired) ==
  \E i \in DOMAIN chain :
     BothRaise(chain[i], BothStages(chain, values, desired)[i - 1])

(* After the i-th processor there is a plan if it has changes, and also if  *)
(* exclude_root_ns_changes has taken out the last of them: the object stays *)
(* until an ownership processor finds it empty.                             *)
HasPlan(chain, at, i) ==
  \/ at[i] # {}
  \/ \E k \in 1 .. i :
       /\ chain[k].class = "exclude_root_ns_changes" /\ at[k - 1] # {} /\ at[k] = {}
       /\ \A j \in (k + 1) .. i : chain[j].class # "ownership"

PlanChainRaises(chain, values, existing, desired, changes) ==
  LET at == PlanStages(chain, values, existing, desired, changes)
  IN  \E i \in DOMAIN chain :
        PlanRaises(chain[i], HasPlan(chain, at, i - 1), existing, desired, at[i - 1])
=============================================================================
