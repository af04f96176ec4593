------------------------------ MODULE AutoArpa ------------------------------
(***************************************************************************)
(* AutoArpa: PTR records from the addresses of all other zones of a run.   *)
(*                                                                         *)
(* As a processor it looks at every desired zone and collects, for every   *)
(* address, who has it; as a source it makes the records of the arpa       *)
(* zones, which Manager.sync holds back until all other zones, and those   *)
(* that are aliases of them, are done.  The tasks share the one AutoArpa   *)
(* object: their records are collected in any order.                       *)
(*                                                                         *)
(* Simplified: addresses are numbers, and so is where a name stands in the *)
(* order of texts; arpa zones have no addresses of their own.              *)
(***************************************************************************)
EXTENDS Integers, FiniteSets, Sequences

CONSTANTS
  Forward,        \* the zones with sources
  AliasOf,        \* a function from the alias zones to zones of Forward
  Arpa,           \* the arpa zones with AutoArpa among their sources
  SubZones(_),    \* SubZones(a): the configured zones below arpa zone a
  At(_),          \* At(a): the addresses whose reverse name is that of zone a
  Under(_),       \* Under(a): those whose reverse name is below it
  Static(_),      \* Static(a): those that another source has a PTR record for
  Sources(_),     \* Sources(z): the sets of address records z may have
  Fqdn(_, _),     \* Fqdn(z, name): the place of that name in the order of texts
  Options,        \* the options of AutoArpa and of the arpa zones
  None            \* no wildcard_replacement

(* Of two zones with a name in common below them one is below the other. *)
ASSUME NestingAssumption ==
  \A a, b \in Arpa :
    a # b /\ Under(a) \cap Under(b) # {} => a \in SubZones(b) \/ b \in SubZones(a)

(* Alias zones have no sources of their own. *)
ASSUME AliasAssumption ==
  /\ AliasOf = [z \in DOMAIN AliasOf |-> AliasOf[z]]
  /\ \A z \in DOMAIN AliasOf : z \notin Forward /\ AliasOf[z] \in Forward

ASSUME MaxAssumption == \A o \in Options : o.max_auto_arpa \in Nat \ {0}

(* Priorities, TTLs and addresses are numbers, and names have places. *)
ASSUME EntryAssumption ==
  /\ \A z \in Forward : \A rs \in Sources(z) : \A r \in rs :
       /\ r \in [name : {r.name}, priority : Int, ttl : Int,
                 values : Seq(Int), geo : Seq(Int), pools : Seq(Int)]
       /\ \A y \in Forward \cup DOMAIN AliasOf : Fqdn(y, r.name) \in Int
  /\ \A o \in Options :
       /\ o.ttl \in Int
       /\ o.wildcard_replacement # None =>
            \A y \in Forward \cup DOMAIN AliasOf : Fqdn(y, o.wildcard_replacement) \in Int

VARIABLES
  opts,       \* the options of this run
  source,     \* source[z]: the address records that the sources of z yield
  todo,       \* todo[z]: the records of z that process_source_zone has yet to see
  desired,    \* desired[z]: those it has seen, as the targets will see them
  aliased,    \* the alias zones have been submitted
  collected,  \* AutoArpa._records: the entries of every address
  arpa        \* arpa[a]: the PTR records made in zone a

vars == <<opts, source, todo, desired, aliased, collected, arpa>>

Addresses == UNION {Under(a) \cup At(a) : a \in Arpa}
Waiting == [status |-> "waiting", ptrs |-> {}]
Raised == [status |-> "raised", ptrs |-> {}]
Populated(ptrs) == [status |-> "populated", ptrs |-> ptrs]

-----------------------------------------------------------------------------
(* Python's sorted, which keeps items that are alike in their order: the    *)
(* item that gets the n-th place is the one with n - 1 items ahead.         *)
Ahead(s, Less(_, _)) ==
  {p \in (DOMAIN s) \X (DOMAIN s) :
     Less(s[p[1]], s[p[2]]) \/ (~Less(s[p[2]], s[p[1]]) /\ p[1] < p[2])}
Nth(items, ahead, n) ==
  CHOOSE j \in items : Cardinality({i \in items : <<i, j>> \in ahead}) = n - 1
Sorted(s, Less(_, _)) ==
  LET ahead == Ahead(s, Less)
  IN  SubSeq([n \in DOMAIN s |-> s[Nth(DOMAIN s, ahead, n)]], 1, Len(s))

-----------------------------------------------------------------------------
(* process_source_zone *)

Considered(r) == r.name # "*" \/ opts.wildcard_replacement # None

(* The record's values, then those of its geos and pools: one list, which   *)
(* is the record's own.                                                     *)
AllValues(r) == r.values \o r.geo \o r.pools

(* where an address is in that list *)
Mentions(r, ip) == {i \in DOMAIN AllValues(r) : AllValues(r)[i] = ip}

Shown(name) ==
  IF name = "*" /\ opts.wildcard_replacement # None THEN opts.wildcard_replacement ELSE name
Entry(z, r) ==
  [priority |-> r.priority,
   ttl |-> IF opts.inherit_ttl THEN r.ttl ELSE opts.ttl,
   fqdn |-> Fqdn(z, Shown(r.name))]

Collect(z) ==
  \E r \in todo[z] :
     /\ todo' = [todo EXCEPT ![z] = @ \ {r}]
     /\ desired' = [desired EXCEPT ![z] =
          @ \cup {IF Considered(r) THEN [r EXCEPT !.values = AllValues(r)] ELSE r}]
     /\ collected' =
          IF ~Considered(r) THEN collected
          ELSE [ip \in Addresses |->
                  collected[ip] \o
                  [n \in 1 .. Cardinality(Mentions(r, ip)) |-> Entry(z, r)]]
     /\ UNCHANGED <<opts, source, aliased, arpa>>

(* The alias zones get copies of the records of zones that are done: a copy *)
(* sorts its values.                                                        *)
CopyOf(r) == [r EXCEPT !.values = Sorted(@, <)]
SubmitAliases ==
  /\ ~aliased /\ \A z \in Forward : todo[z] = {}
  /\ aliased' = TRUE
  /\ todo' = [z \in DOMAIN todo |->
                IF z \in DOMAIN AliasOf THEN {CopyOf(r) : r \in desired[AliasOf[z]]} ELSE {}]
  /\ UNCHANGED <<opts, source, desired, collected, arpa>>

-----------------------------------------------------------------------------
(* populate *)

Before(e, f) ==
  \/ e.priority < f.priority
  \/ e.priority = f.priority /\ e.ttl < f.ttl
  \/ e.priority = f.priority /\ e.ttl = f.ttl /\ e.fqdn < f.fqdn

(* Mistake: an entry that is there already counts for the limit. *)
OrderAndCut(entries) ==
  LET ordered == Sorted(entries, Before)
  IN  SubSeq(ordered, 1, IF Len(ordered) < opts.max_auto_arpa
                           THEN Len(ordered) ELSE opts.max_auto_arpa)

(* _order_and_unique_fqdns *)
Keep(kept, e) ==
  IF \/ Len(kept) >= opts.max_auto_arpa
     \/ \E i \in DOMAIN kept : kept[i].fqdn = e.fqdn
    THEN kept ELSE Append(kept, e)
OrderAndUnique(entries) ==
  LET ordered == Sorted(entries, Before)
      kept[n \in 0 .. Len(ordered)] ==
        IF n = 0 THEN << >> ELSE Keep(kept[n - 1], ordered[n])
  IN  kept[Len(ordered)]

Ptr(ip) ==
  LET kept == OrderAndUnique(collected[ip])
  IN  [ip |-> ip, ttl |-> kept[1].ttl, values |-> {kept[i].fqdn : i \in DOMAIN kept}]

(* The addresses that populate makes a record for in zone a *)
Matching(a) == {ip \in Under(a) : collected[ip] # <<>>}

(* Mistake: only the record with the very name of a sub-zone is in it. *)
BarredAt(a) == UNION {At(s) : s \in SubZones(a)}

(* What Zone.add_record refuses: the sub-zones are to have it. *)
Barred(a) == IF opts.lenient THEN {} ELSE UNION {At(s) \cup Under(s) : s \in SubZones(a)}

AddRaises(a) ==
  \/ ~opts.ignore_subzone_adds /\ Matching(a) \cap Barred(a) # {}
  \/ ~opts.populate_should_replace /\ (Matching(a) \ Barred(a)) \cap Static(a) # {}

PopulateArpa(a) ==
  /\ aliased /\ \A z \in DOMAIN todo : todo[z] = {}
  /\ arpa[a] = Waiting
  /\ arpa' = [arpa EXCEPT ![a] =
                IF AddRaises(a) THEN Raised
                ELSE Populated({Ptr(ip) : ip \in Matching(a) \ Barred(a)})]
  /\ UNCHANGED <<opts, source, todo, desired, aliased, collected>>

-----------------------------------------------------------------------------
(* The run *)

Init ==
  /\ opts \in Options
  /\ source \in {s \in [Forward -> UNION {Sources(z) : z \in Forward}] :
                   \A z \in Forward : s[z] \in Sources(z)}
  /\ todo = [z \in Forward \cup DOMAIN AliasOf |-> IF z \in Forward THEN source[z] ELSE {}]
  /\ desired = [z \in Forward \cup DOMAIN AliasOf |-> {}]
  /\ aliased = FALSE
  /\ collected = [ip \in Addresses |-> <<>>]
  /\ arpa = [a \in Arpa |-> Waiting]

Next ==
  \/ \E z \in DOMAIN todo : Collect(z)
  \/ SubmitAliases
  \/ \E a \in Arpa : PopulateArpa(a)

Spec == Init /\ [][Next]_vars

-----------------------------------------------------------------------------
(* Properties *)

(* The reference: who has the address, as configured, whatever way it went. *)
Configured(z) == source[IF z \in Forward THEN z ELSE AliasOf[z]]
Holders(ip) ==
  UNION {{Entry(z, r) : r \in {r \in Configured(z) :
            Considered(r) /\ Mentions(r, ip) # {}}} :
          z \in DOMAIN todo}
Preferred(e, ip) == \A f \in Holders(ip) : f.fqdn = e.fqdn => f = e \/ Before(e, f)
FirstEntries(ip) == {e \in Holders(ip) : Preferred(e, ip)}
ReferencePtr(ip) ==
  LET before(e) == {f \in FirstEntries(ip) : Before(f, e)}
  IN  [ip |-> ip,
       ttl |-> (CHOOSE e \in FirstEntries(ip) : before(e) = {}).ttl,
       values |-> {e.fqdn : e \in {e \in FirstEntries(ip) :
                                     Cardinality(before(e)) < opts.max_auto_arpa}}]

(* An arpa zone gets a PTR record for exactly the addresses that some zone  *)
(* has and that are its own, with the names of least priority up to the     *)
(* limit and the TTL of the first, each name once: in whatever order the    *)
(* tasks have run and however often a name was seen.                        *)
PtrsAreReference ==
  \A a \in Arpa : arpa[a].status = "populated" =>
    arpa[a].ptrs = {ReferencePtr(ip) : ip \in {ip \in Under(a) \ Barred(a) : Holders(ip) # {}}}

(* Where one arpa zone is below another, an address gets its PTR record in  *)
(* one of them only, as long as the zones are not lenient.                  *)
EachPtrOnce ==
  ~opts.lenient =>
    \A a, b \in Arpa : \A p \in arpa[a].ptrs, q \in arpa[b].ptrs :
      a # b => p.ip # q.ip

(* What the targets get of a record is what was configured for it: a target *)
(* without dynamic records serves its values and nothing else.              *)
ValuesAsConfigured ==
  \A z \in Forward : \A r \in desired[z] : r \in Configured(z)
=============================================================================
