---------------------------- MODULE ZoneChecks ----------------------------
(***************************************************************************)
(* The validators of whole zones (octodns.zone.cname, dname, srv, ns, caa  *)
(* and mail): what each reports for a zone with a given set of records.    *)
(* A reason is the set of records that it is about, with the validator's   *)
(* id; the texts of the reasons are left out.                              *)
(*                                                                         *)
(* A record has the fields name, type and lenient, and besides             *)
(*   targets  the names its values point at, relative to the zone, or      *)
(*            Outside for one that is not below it (also for the root, ".")*)
(*   size     how many values it has                                       *)
(*   is       what else the checks tell apart in its values, as a set of   *)
(*            marks: "null" and "single_mx" of an MX, "issue" and          *)
(*            "issuewild" of a CAA                                         *)
(*   spf      of a TXT: the SPF policies among its values, in their order  *)
(*   dmarc    of a TXT: the DMARC policies, in their order                 *)
(* Operators that depend on the order in which a set is walked take that   *)
(* order as a sequence.                                                    *)
(***************************************************************************)
EXTENDS Records, SequencesExt

CONSTANTS
  SubZones,     \* names of the configured sub-zones, relative to the zone
  Outside,      \* a target that is not at or below the zone's apex
  MailMode,     \* mode of the mail validator: "auto", "mail" or "no-mail"
  MinMx,        \* how many values it asks an MX record for
  CaaPresence   \* presence of the CAA validator: "optional" or "required"

ASSUME MailModeAssumption == MailMode \in {"auto", "mail", "no-mail"}
ASSUME MinMxAssumption == MinMx \in Nat
ASSUME CaaPresenceAssumption == CaaPresence \in {"optional", "required"}

Reason(id, records) == [id |-> id, records |-> records]

(* ValidationReason.lenient *)
IsLenient(reason) ==
  reason.records # {} /\ \A r \in reason.records : r.lenient

-----------------------------------------------------------------------------
(* Reading a zone *)

OfType(records, type) == {r \in records : r.type = type}
Named(records, name) == {r \in records : r.name = name}

(* Zone.get: the records of a name, of one type *)
Get(records, name, type) == OfType(Named(records, name), type)

(* Zone.owns: a target is the zone's own unless it is delegated. *)
Owns(type, target) ==
  /\ target # Outside
  /\ \/ target = Apex
     \/ IF target \in SubZones THEN type = "NS"
        ELSE ~\E s \in SubZones : IsUnder(target, s)

(* records of some types with a target that is in the zone and is bad there *)
Pointing(records, types, id, Owner, Bad(_)) ==
  {Reason(id, {r}) : r \in {s \in records :
     /\ s.type \in types
     /\ \E t \in s.targets : Owns(Owner, t) /\ Bad(t)}}

-----------------------------------------------------------------------------
(* CNAME, ALIAS and DNAME *)

Nodes(records) == {Named(records, r.name) : r \in records}

CnameCoexistence(records) ==
  {Reason("cname-coexistence", n) : n \in {m \in Nodes(records) :
     /\ Cardinality(m) > 1
     /\ \/ OfType(m, "CNAME") # {}
        \/ /\ OfType(m, "ALIAS") # {}
           /\ OfType(m, "A") \cup OfType(m, "AAAA") # {}}}

RootCname(records) ==
  {Reason("root-cname", {r}) : r \in Get(records, Apex, "CNAME")}

CnameTargetNotCname(records) ==
  Pointing(records, {"CNAME"}, "cname-target-not-cname", "CNAME",
           LAMBDA t : Get(records, t, "CNAME") # {})

CnameTargetResolvable(records) ==
  Pointing(records, {"CNAME", "ALIAS"}, "cname-target-resolvable-in-zone", "A",
           LAMBDA t : Named(records, t) = {})

DnameCoexistence(records) ==
  LET dnames == OfType(records, "DNAME")
      beside(d) == Named(records, d.name)
  IN  {Reason("dname-coexistence", beside(d)) : d \in {e \in dnames :
         \/ OfType(beside(e), "CNAME") # {}
         \/ OfType(beside(e), "NS") # {} /\ e.name # Apex}}
      \cup
      {Reason("dname-coexistence", {r}) : r \in {s \in records :
         \E d \in dnames : IsUnder(s.name, d.name)}}

(***************************************************************************)
(* NoCnameLoopZoneValidator.  targets is a dict by name: where a name has  *)
(* both a CNAME and an ALIAS it keeps the one that comes last in `order`,  *)
(* an arbitrary order of the records.  The names are tried as starts in    *)
(* the order of their first record.                                        *)
(***************************************************************************)
IsAlias(r) == r.type \in {"CNAME", "ALIAS"}

(* the record that targets[name] holds, as a set of at most one *)
Alias(order, name) ==
  LET at == {i \in DOMAIN order : IsAlias(order[i]) /\ order[i].name = name}
  IN  {order[i] : i \in {j \in at : \A k \in at : k <= j}}

Follow(record) == CHOOSE t \in record.targets : TRUE

(* targets[curr] in each turn of the inner loop, were it never to break *)
Chase(order, start) ==
  LET steps[n \in 0 .. Len(order)] ==
        IF n = 0 THEN Alias(order, start)
        ELSE UNION {Alias(order, Follow(r)) : r \in steps[n - 1]}
  IN  steps

(* The inner loop: it ends where it leaves the aliases, comes back to its   *)
(* own path, or reaches a name that an earlier path went through.  Where it *)
(* came back, `loop` is the path from there on.                             *)
Walk(order, start, seen) ==
  LET steps == Chase(order, start)
      ends(n) == \/ steps[n] = {}
                 \/ \E m \in 0 .. n - 1 : steps[m] = steps[n]
                 \/ \E r \in steps[n] : r.name \in seen
      end == CHOOSE n \in DOMAIN steps : ends(n) /\ \A m \in 0 .. n - 1 : ~ends(m)
      looping(k) == \E m \in 0 .. k : steps[end] # {} /\ steps[m] = steps[end]
  IN  [path |-> UNION {steps[k] : k \in 0 .. end - 1},
       loop |-> UNION {steps[k] : k \in {k \in 0 .. end - 1 : looping(k)}}]

(* Mistake: overall_visited is not kept from one start to the next, so that *)
(* a loop is found again from each of its names.                            *)
LoopsAnew(order) ==
  SelectSeq([i \in DOMAIN order |->
               IF IsAlias(order[i]) THEN Walk(order, order[i].name, {}).loop ELSE {}],
            LAMBDA l : l # {})

(* one start *)
Try(order, found, start) ==
  LET walk == Walk(order, start, found.seen)
  IN  [seen |-> found.seen \cup {r.name : r \in walk.path},
       loops |-> IF walk.loop = {} THEN found.loops ELSE Append(found.loops, walk.loop)]

(* the loops in the order in which they are reported *)
Loops(order) ==
  LET found[i \in 0 .. Len(order)] ==
        IF i = 0 THEN [seen |-> {}, loops |-> << >>]
        ELSE IF IsAlias(order[i]) THEN Try(order, found[i - 1], order[i].name)
        ELSE found[i - 1]
  IN  found[Len(order)].loops

NoCnameLoop(order) ==
  {Reason("no-cname-loop", l) : l \in ToSet(Loops(order))}

-----------------------------------------------------------------------------
(* NS, SRV and CAA *)

Glue(records) ==
  Pointing(records, {"NS"}, "glue-for-in-zone-ns", "A",
           LAMBDA t : Get(records, t, "A") \cup Get(records, t, "AAAA") = {})

MultiValueNs(records) ==
  {Reason("multi-value-ns", {r}) :
     r \in {s \in OfType(records, "NS") : s.size < 2}}

(* ns-, srv- and mx-target-not-cname *)
TargetNotCname(records, type, id) ==
  Pointing(records, {type}, id, "CNAME",
           LAMBDA t : Get(records, t, "CNAME") # {})

(* srv- and mx-target-resolvable-in-zone *)
TargetResolvable(records, type, id) ==
  Pointing(records, {type}, id, "A", LAMBDA t : Named(records, t) = {})

CaaPolicy(records) ==
  {Reason("caa-best-practices", {}) :
     missing \in {p \in {CaaPresence} :
        p = "required" /\ Get(records, Apex, "CAA") = {}}}
  \cup
  {Reason("caa-best-practices", {r}) :
     r \in {s \in OfType(records, "CAA") : "issuewild" \notin s.is}}

-----------------------------------------------------------------------------
(* Mail: MX, SPF and DMARC have to agree on whether the zone handles mail *)

IsNullMx(mx) == "null" \in mx.is

(* the first of several SPF values is taken for the record's *)
SpfOf(txts) == UNION {IF t.spf = << >> THEN {} ELSE {t.spf[1]} : t \in txts}
DmarcOf(txts) == UNION {IF t.dmarc = << >> THEN {} ELSE {t.dmarc[1]} : t \in txts}

(* an SPF policy that ends with -all or ~all; "strict" is "v=spf1 -all" *)
Terminates(spf) == spf \in {"strict", "ends"}

(* Mistake: SPF is asked before MX. *)
DetectedModeSpfFirst(mxs, spfs) ==
  IF MailMode # "auto" THEN MailMode
  ELSE IF spfs # {} THEN (IF "strict" \in spfs THEN "no-mail" ELSE "mail")
  ELSE IF mxs # {} THEN (IF \E m \in mxs : IsNullMx(m) THEN "no-mail" ELSE "mail")
  ELSE "auto"

(* mode of a name with this apex MX and SPF; "auto" where nothing tells it *)
DetectedMode(mxs, spfs) ==
  IF MailMode # "auto" THEN MailMode
  ELSE IF mxs # {} THEN (IF \E m \in mxs : IsNullMx(m) THEN "no-mail" ELSE "mail")
  ELSE IF spfs # {} THEN (IF "strict" \in spfs THEN "no-mail" ELSE "mail")
  ELSE "auto"

(* The parts of mail's reasons: sets of records that each is about. *)
Redundancy(records) ==
  {{m} : m \in {x \in OfType(records, "MX") :
      /\ ~IsNullMx(x)
      /\ x.size < MinMx
      /\ ~(x.size = 1 /\ "single_mx" \in x.is)}}

SpfReasons(mode, about, txts) ==
  {t \in {txts} : \E x \in txts : Len(x.spf) > 1}
  \cup {a \in {about} : SpfOf(txts) = {}}
  \cup {t \in {txts} : \E s \in SpfOf(txts) :
          IF mode = "mail" THEN ~Terminates(s) ELSE s # "strict"}

MxReasons(mode, about, mxs) ==
  {a \in {about} : mxs = {}}
  \cup {m \in {mxs} : mode = "no-mail" /\ \E x \in mxs : ~IsNullMx(x)}

DmarcReasons(mode, about, txts) ==
  {a \in {about} : IF mode = "mail" THEN DmarcOf(txts) = {} ELSE txts = {}}
  \cup {t \in {txts} : txts # {} /\
          IF mode = "mail" THEN "no_policy" \in DmarcOf(txts)
                           ELSE DmarcOf(txts) # {"reject"}}

ApexMail(records) ==
  LET mxs == Get(records, Apex, "MX")
      txts == Get(records, Apex, "TXT")
      dmarcs == Get(records, <<"_dmarc">>, "TXT")
      about == mxs \cup txts \cup dmarcs
      mode == DetectedMode(mxs, SpfOf(txts))
  IN  {d \in {dmarcs} : \E x \in dmarcs : Len(x.dmarc) > 1} \cup
      IF mode = "auto" THEN {t \in {txts} : \E x \in txts : Len(x.spf) > 1}
      ELSE MxReasons(mode, about, mxs) \cup SpfReasons(mode, about, txts)
           \cup DmarcReasons(mode, about, dmarcs)

SubdomainMail(records, mx) ==
  LET txts == Get(records, mx.name, "TXT")
      mode == DetectedMode({mx}, {})
  IN  SpfReasons(mode, {mx} \cup txts, txts)
      \cup {m \in {{mx}} : mode = "no-mail" /\ ~IsNullMx(mx)}

Mail(records) ==
  {Reason("mail", about) : about \in
     Redundancy(records) \cup ApexMail(records)
     \cup UNION {SubdomainMail(records, m) :
                   m \in {x \in OfType(records, "MX") : x.name # Apex}}}

-----------------------------------------------------------------------------
(* the reasons of the validator of an id, on a zone walked in some order *)
ReasonsOf(id, order) ==
  LET records == ToSet(order)
  IN  CASE id = "cname-coexistence" -> CnameCoexistence(records)
        [] id = "root-cname" -> RootCname(records)
        [] id = "no-cname-loop" -> NoCnameLoop(order)
        [] id = "cname-target-not-cname" -> CnameTargetNotCname(records)
        [] id = "cname-target-resolvable-in-zone" -> CnameTargetResolvable(records)
        [] id = "dname-coexistence" -> DnameCoexistence(records)
        [] id = "glue-for-in-zone-ns" -> Glue(records)
        [] id = "multi-value-ns" -> MultiValueNs(records)
        [] id = "ns-target-not-cname" -> TargetNotCname(records, "NS", id)
        [] id = "srv-target-not-cname" -> TargetNotCname(records, "SRV", id)
        [] id = "mx-target-not-cname" -> TargetNotCname(records, "MX", id)
        [] id = "srv-target-resolvable-in-zone" -> TargetResolvable(records, "SRV", id)
        [] id = "mx-target-resolvable-in-zone" -> TargetResolvable(records, "MX", id)
        [] id = "caa-best-practices" -> CaaPolicy(records)
        [] id = "mail" -> Mail(records)
        [] OTHER -> {}
-----------------------------------------------------------------------------
(* What the search for loops is for, by which it is judged *)

(* A loop is a set of aliases each of which points at one of them, and none *)
(* of whose parts is such a set itself.                                     *)
Closed(c) == c # {} /\ \A r \in c : \E s \in c : Follow(r) = s.name
IsLoop(c) == Closed(c) /\ \A d \in SUBSET c : Closed(d) => d = c
=============================================================================
