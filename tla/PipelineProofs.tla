-------------------------- MODULE PipelineProofs --------------------------
(***************************************************************************)
(* What the processors protect, in any chain and for any zones, sources,   *)
(* runs and edits by others: records that are not octoDNS's own, records   *)
(* that somebody else has marked, challenges that others answer, and what  *)
(* filters take out of sight.  What the check of SPF policies is worth.    *)
(* And that a run which follows another plans nothing.                     *)
(*                                                                         *)
(* A hook of a chain makes one stage after the other.  Each of these       *)
(* properties follows from what every stage keeps (where a record comes    *)
(* from), what one of them takes care of (a filter, the check of the       *)
(* owner), and what stays true of the target between the plan and the      *)
(* change that is made: a record that is to be deleted is still the one    *)
(* that was seen, unless others may have changed it.                       *)
(***************************************************************************)
EXTENDS Pipeline, SequenceTheorems, WellFoundedInduction, TLAPS

-----------------------------------------------------------------------------
(* Stages: each is made of the one before.  All recursive functions of      *)
(* Processors and Pipeline are runs of steps: k says of which.              *)
Step(k, i, x) ==
  CASE k.of = "source" -> SourceZone(k.chain[i], x)
    [] k.of = "target" -> TargetZone(k.chain[i], k.owned, x)
    [] k.of = "both" -> BothZones(k.chain[i], k.values, x)
    [] k.of = "plan" -> ProcessPlan(k.chain[i], k.values, k.existing, k.desired, x)
    [] k.of = "terms" -> AfterTerm(x, k.terms[i], k.counts)
    [] k.of = "cost" -> x + CostOf(k.terms[i], k.counts)
    [] k.of = "counts" -> [p \in DOMAIN SpfTerms |-> [lookups \in 0 .. Objection |->
                             AfterTerms(SpfTerms[p], lookups, x)]]
    [] k.of = "costs" -> [p \in DOMAIN SpfTerms |-> CostOfAll(SpfTerms[p], x)]

IsRun(f, k, start, n) ==
  f = [i \in 0 .. n |-> IF i = 0 THEN start ELSE Step(k, i, f[i - 1])]

LEMMA Least ==
  ASSUME NEW T, T \subseteq Nat, T # {}
  PROVE  \E x \in T : \A y \in T : x <= y
<1> DEFINE R == OpToRel(<, Nat)
<1>1. R = {ss \in Nat \X Nat : ss[1] < ss[2]}
  BY DEF OpToRel
<1>2. IsWellFoundedOn(R, Nat)
  BY NatLessThanWellFounded
<1> HIDE DEF R
<1>3. PICK x \in T : \A y \in T : ~(<<y, x>> \in R)
  BY <1>2, WFMin
<1>4. ASSUME NEW y \in T PROVE x <= y
  <2>1. x \in Nat /\ y \in Nat
    OBVIOUS
  <2>2. ~(y < x)
    BY <1>1, <1>3, <2>1
  <2> QED  BY <2>1, <2>2
<1> QED  BY <1>3, <1>4

(* A run exists: the shortest one that did not could be made longer by one. *)
LEMMA RunExists ==
  ASSUME NEW k, NEW start, NEW n \in Nat
  PROVE  \E f : IsRun(f, k, start, n)
<1> DEFINE T == {m \in Nat : ~\E f : IsRun(f, k, start, m)}
<1> SUFFICES ASSUME T # {} PROVE FALSE
  OBVIOUS
<1>1. PICK m \in T : \A y \in T : m <= y
  BY Least
<1>2. m # 0
  <2>1. IsRun([i \in 0 .. 0 |-> start], k, start, 0)
    BY DEF IsRun
  <2> QED  BY <2>1
<1>3. PICK f : IsRun(f, k, start, m - 1)
  BY <1>1, <1>2
<1> DEFINE g == [i \in 0 .. m |-> IF i < m THEN f[i] ELSE Step(k, m, f[m - 1])]
<1>4. \A i \in 0 .. m - 1 : g[i] = f[i]
  BY <1>1
<1>5. ASSUME NEW i \in 0 .. m
      PROVE  g[i] = IF i = 0 THEN start ELSE Step(k, i, g[i - 1])
  <2>1. CASE i = 0
    BY <1>1, <1>2, <1>3, <2>1 DEF IsRun
  <2>2. CASE i # 0 /\ i < m
    <3>1. i \in 0 .. m - 1 /\ i - 1 \in 0 .. m - 1
      BY <2>2
    <3>2. f[i] = Step(k, i, f[i - 1])
      BY <1>3, <2>2, <3>1 DEF IsRun
    <3> QED  BY <1>4, <2>2, <3>1, <3>2
  <2>3. CASE i = m
    <3>1. i - 1 \in 0 .. m - 1
      BY <1>2, <2>3
    <3>2. g[i] = Step(k, i, f[i - 1])
      BY <1>1, <2>3
    <3> QED  BY <1>2, <1>4, <2>3, <3>1, <3>2
  <2> QED  BY <2>1, <2>2, <2>3
<1>6. IsRun(g, k, start, m)
  <2>1. g = [i \in 0 .. m |-> g[i]]
    OBVIOUS
  <2> HIDE DEF g
  <2> QED  BY <1>5, <2>1 DEF IsRun
<1> QED  BY <1>1, <1>6

LEMMA SourceStagesAre ==
  ASSUME NEW c, Len(c) \in Nat, NEW zone
  PROVE  /\ SourceStages(c, zone)[0] = zone
         /\ \A i \in 1 .. Len(c) :
              SourceStages(c, zone)[i] = SourceZone(c[i], SourceStages(c, zone)[i - 1])
<1> DEFINE k == [of |-> "source", chain |-> c]
           n == Len(c)
           Is(f) == f = [i \in 0 .. n |-> IF i = 0 THEN zone ELSE SourceZone(c[i], f[i - 1])]
<1>1. \A i, x : Step(k, i, x) = SourceZone(c[i], x)
  BY DEF Step
<1>2. PICK f : IsRun(f, k, zone, n)
  BY RunExists
<1> HIDE DEF k
<1>3. Is(f)
  BY <1>1, <1>2 DEF IsRun
<1>4. SourceStages(c, zone) = CHOOSE g : Is(g)
  BY DEF SourceStages
<1>5. Is(SourceStages(c, zone))
  BY <1>3, <1>4
<1> QED  BY <1>5

LEMMA TargetStagesAre ==
  ASSUME NEW c, Len(c) \in Nat, NEW seen, NEW zone
  PROVE  /\ TargetStages(c, seen, zone)[0] = zone
         /\ \A i \in 1 .. Len(c) :
              TargetStages(c, seen, zone)[i] = TargetZone(c[i], seen, TargetStages(c, seen, zone)[i - 1])
<1> DEFINE k == [of |-> "target", chain |-> c, owned |-> seen]
           n == Len(c)
           Is(f) == f = [i \in 0 .. n |-> IF i = 0 THEN zone ELSE TargetZone(c[i], seen, f[i - 1])]
<1>1. \A i, x : Step(k, i, x) = TargetZone(c[i], seen, x)
  BY DEF Step
<1>2. PICK f : IsRun(f, k, zone, n)
  BY RunExists
<1> HIDE DEF k
<1>3. Is(f)
  BY <1>1, <1>2 DEF IsRun
<1>4. TargetStages(c, seen, zone) = CHOOSE g : Is(g)
  BY DEF TargetStages
<1>5. Is(TargetStages(c, seen, zone))
  BY <1>3, <1>4
<1> QED  BY <1>5

LEMMA BothStagesAre ==
  ASSUME NEW c, Len(c) \in Nat, NEW values, NEW wanted
  PROVE  /\ BothStages(c, values, wanted)[0] = wanted
         /\ \A i \in 1 .. Len(c) :
              BothStages(c, values, wanted)[i] = BothZones(c[i], values, BothStages(c, values, wanted)[i - 1])
<1> DEFINE k == [of |-> "both", chain |-> c, values |-> values]
           n == Len(c)
           Is(f) == f = [i \in 0 .. n |-> IF i = 0 THEN wanted ELSE BothZones(c[i], values, f[i - 1])]
<1>1. \A i, x : Step(k, i, x) = BothZones(c[i], values, x)
  BY DEF Step
<1>2. PICK f : IsRun(f, k, wanted, n)
  BY RunExists
<1> HIDE DEF k
<1>3. Is(f)
  BY <1>1, <1>2 DEF IsRun
<1>4. BothStages(c, values, wanted) = CHOOSE g : Is(g)
  BY DEF BothStages
<1>5. Is(BothStages(c, values, wanted))
  BY <1>3, <1>4
<1> QED  BY <1>5

LEMMA PlanStagesAre ==
  ASSUME NEW c, Len(c) \in Nat, NEW values, NEW found, NEW wanted, NEW changes
  PROVE  /\ PlanStages(c, values, found, wanted, changes)[0] = changes
         /\ \A i \in 1 .. Len(c) :
              PlanStages(c, values, found, wanted, changes)[i] = ProcessPlan(c[i], values, found, wanted, PlanStages(c, values, found, wanted, changes)[i - 1])
<1> DEFINE k == [of |-> "plan", chain |-> c, values |-> values,
                 existing |-> found, desired |-> wanted]
           n == Len(c)
           Is(f) == f = [i \in 0 .. n |-> IF i = 0 THEN changes ELSE ProcessPlan(c[i], values, found, wanted, f[i - 1])]
<1>1. \A i, x : Step(k, i, x) = ProcessPlan(c[i], values, found, wanted, x)
  BY DEF Step
<1>2. PICK f : IsRun(f, k, changes, n)
  BY RunExists
<1> HIDE DEF k
<1>3. Is(f)
  BY <1>1, <1>2 DEF IsRun
<1>4. PlanStages(c, values, found, wanted, changes) = CHOOSE g : Is(g)
  BY DEF PlanStages
<1>5. Is(PlanStages(c, values, found, wanted, changes))
  BY <1>3, <1>4
<1> QED  BY <1>5

LEMMA AfterTermsAre ==
  ASSUME NEW terms, Len(terms) \in Nat, NEW lookups, NEW counts
  PROVE  \E f : /\ f[0] = lookups
                /\ \A i \in 1 .. Len(terms) : f[i] = AfterTerm(f[i - 1], terms[i], counts)
                /\ AfterTerms(terms, lookups, counts) = f[Len(terms)]
<1> DEFINE k == [of |-> "terms", terms |-> terms, counts |-> counts]
           n == Len(terms)
           Is(f) == f = [i \in 0 .. n |->
                           IF i = 0 THEN lookups ELSE AfterTerm(f[i - 1], terms[i], counts)]
<1>1. \A i, x : Step(k, i, x) = AfterTerm(x, terms[i], counts)
  BY DEF Step
<1>2. PICK f : IsRun(f, k, lookups, n)
  BY RunExists
<1> HIDE DEF k
<1>3. Is(f)
  BY <1>1, <1>2 DEF IsRun
<1> DEFINE s == CHOOSE g : Is(g)
<1>4. AfterTerms(terms, lookups, counts) = s[n]
  BY DEF AfterTerms
<1>5. Is(s)
  BY <1>3
<1> HIDE DEF s
<1>6. s[0] = lookups /\ \A i \in 1 .. n : s[i] = AfterTerm(s[i - 1], terms[i], counts)
  BY <1>5
<1> QED  BY <1>4, <1>6

LEMMA CostOfAllIs ==
  ASSUME NEW terms, Len(terms) \in Nat, NEW costs
  PROVE  \E f : /\ f[0] = 0
                /\ \A i \in 1 .. Len(terms) : f[i] = f[i - 1] + CostOf(terms[i], costs)
                /\ CostOfAll(terms, costs) = f[Len(terms)]
<1> DEFINE k == [of |-> "cost", terms |-> terms, counts |-> costs]
           n == Len(terms)
           Is(f) == f = [i \in 0 .. n |->
                           IF i = 0 THEN 0 ELSE f[i - 1] + CostOf(terms[i], costs)]
<1>1. \A i, x : Step(k, i, x) = x + CostOf(terms[i], costs)
  BY DEF Step
<1>2. PICK f : IsRun(f, k, 0, n)
  BY RunExists
<1> HIDE DEF k
<1>3. Is(f)
  BY <1>1, <1>2 DEF IsRun
<1> DEFINE s == CHOOSE g : Is(g)
<1>4. CostOfAll(terms, costs) = s[n]
  BY DEF CostOfAll
<1>5. Is(s)
  BY <1>3
<1> HIDE DEF s
<1>6. s[0] = 0 /\ \A i \in 1 .. n : s[i] = s[i - 1] + CostOf(terms[i], costs)
  BY <1>5
<1> QED  BY <1>4, <1>6

LEMMA CountsAre ==
  \A depth \in 0 .. Objection : \A p \in DOMAIN SpfTerms : \A lookups \in 0 .. Objection :
    Counts[depth][p][lookups] =
      IF depth = 0 THEN Objection
      ELSE AfterTerms(SpfTerms[p], lookups, Counts[depth - 1])
<1> DEFINE k == [of |-> "counts"]
           Level(depth, below) ==
             [p \in DOMAIN SpfTerms |-> [lookups \in 0 .. Objection |->
                IF depth = 0 THEN Objection ELSE AfterTerms(SpfTerms[p], lookups, below)]]
           Is(f) == f = [depth \in 0 .. Objection |->
                           [p \in DOMAIN SpfTerms |-> [lookups \in 0 .. Objection |->
                              IF depth = 0 THEN Objection
                              ELSE AfterTerms(SpfTerms[p], lookups, f[depth - 1])]]]
<1>0. Objection \in Nat
  BY SpfAssumption DEF Objection
<1>1. \A i, x : i # 0 => Step(k, i, x) = Level(i, x)
  BY DEF Step
<1> DEFINE start == Level(0, 0)
<1>2. PICK f : IsRun(f, k, start, Objection)
  BY <1>0, RunExists
<1>3. \A x : start = Level(0, x)
  OBVIOUS
<1> HIDE DEF k, start
<1>4. f = [depth \in 0 .. Objection |-> Level(depth, f[depth - 1])]
  <2> HIDE DEF Level
  <2>1. \A i : (IF i = 0 THEN start ELSE Step(k, i, f[i - 1])) = Level(i, f[i - 1])
    BY <1>1, <1>3
  <2> QED  BY <1>2, <2>1 DEF IsRun
<1>5. Is(f)
  BY <1>4
<1>6. Counts = CHOOSE g : Is(g)
  BY DEF Counts
<1>7. Counts = [depth \in 0 .. Objection |-> Level(depth, Counts[depth - 1])]
  <2>1. Is(Counts)
    <3> HIDE DEF Is
    <3> QED  BY <1>5, <1>6
  <2> QED  BY <2>1
<1>8. \A depth \in 0 .. Objection : Counts[depth] = Level(depth, Counts[depth - 1])
  <2> HIDE DEF Level
  <2> QED  BY <1>7
<1> HIDE DEF Is
<1> SUFFICES ASSUME NEW depth \in 0 .. Objection, NEW p \in DOMAIN SpfTerms,
                    NEW lookups \in 0 .. Objection
             PROVE  Counts[depth][p][lookups] =
                      IF depth = 0 THEN Objection
                      ELSE AfterTerms(SpfTerms[p], lookups, Counts[depth - 1])
  OBVIOUS
<1>9. Counts[depth] = Level(depth, Counts[depth - 1])
  BY <1>8
<1> QED  BY <1>9

LEMMA CostsAre ==
  \A depth \in 0 .. Objection : \A p \in DOMAIN SpfTerms :
    Costs[depth][p] =
      IF depth = 0 THEN Objection ELSE CostOfAll(SpfTerms[p], Costs[depth - 1])
<1> DEFINE k == [of |-> "costs"]
           Level(depth, below) ==
             [p \in DOMAIN SpfTerms |->
                IF depth = 0 THEN Objection ELSE CostOfAll(SpfTerms[p], below)]
           Is(f) == f = [depth \in 0 .. Objection |->
                           [p \in DOMAIN SpfTerms |->
                              IF depth = 0 THEN Objection
                              ELSE CostOfAll(SpfTerms[p], f[depth - 1])]]
<1>0. Objection \in Nat
  BY SpfAssumption DEF Objection
<1>1. \A i, x : i # 0 => Step(k, i, x) = Level(i, x)
  BY DEF Step
<1> DEFINE start == Level(0, 0)
<1>2. PICK f : IsRun(f, k, start, Objection)
  BY <1>0, RunExists
<1>3. \A x : start = Level(0, x)
  OBVIOUS
<1> HIDE DEF k, start
<1>4. f = [depth \in 0 .. Objection |-> Level(depth, f[depth - 1])]
  <2> HIDE DEF Level
  <2>1. \A i : (IF i = 0 THEN start ELSE Step(k, i, f[i - 1])) = Level(i, f[i - 1])
    BY <1>1, <1>3
  <2> QED  BY <1>2, <2>1 DEF IsRun
<1>5. Is(f)
  BY <1>4
<1>6. Costs = CHOOSE g : Is(g)
  BY DEF Costs
<1>7. Costs = [depth \in 0 .. Objection |-> Level(depth, Costs[depth - 1])]
  BY <1>5, <1>6
<1>8. \A depth \in 0 .. Objection : Costs[depth] = Level(depth, Costs[depth - 1])
  <2> HIDE DEF Level
  <2> QED  BY <1>7
<1> QED  BY <1>8

(* What holds of the first stage and is kept by every step holds of all.    *)
LEMMA Stepwise ==
  ASSUME NEW n \in Nat, NEW T, 0 \in T, \A i \in 1 .. n : i - 1 \in T => i \in T
  PROVE  \A i \in 0 .. n : i \in T
<1> DEFINE U == {i \in 0 .. n : i \notin T}
<1> SUFFICES ASSUME U # {} PROVE FALSE
  OBVIOUS
<1>1. PICK m \in U : \A y \in U : m <= y
  <2>1. U \subseteq Nat
    OBVIOUS
  <2> HIDE DEF U
  <2> QED  BY <2>1, Least
<1>2. m # 0 /\ m \in 1 .. n /\ m - 1 \in 0 .. n /\ ~(m <= m - 1)
  BY <1>1
<1> QED  BY <1>1, <1>2

-----------------------------------------------------------------------------
(* SPF policies: where the check does not object, what it has counted is    *)
(* what the policy costs.                                                   *)

(* What it counts for a policy when it begins with so many lookups. *)
IsPriced(counts, costs) ==
  \A p \in DOMAIN SpfTerms :
    /\ costs[p] \in Nat
    /\ \A s \in 0 .. Objection : counts[p][s] # Objection =>
         /\ counts[p][s] = s + costs[p]
         /\ counts[p][s] <= LookupLimit + (IF EndsInLookup(p) THEN 1 ELSE 0)

LEMMA CostIsNat ==
  ASSUME NEW costs, \A p \in DOMAIN SpfTerms : costs[p] \in Nat, NEW term
  PROVE  CostOf(term, costs) \in Nat
<1>1. \A d \in DOMAIN Published : \A p \in Published[d] : 1 + costs[p] \in Nat
  BY SpfAssumption
<1>2. Objection \in Nat
  BY SpfAssumption DEF Objection
<1> QED  BY <1>1, <1>2 DEF CostOf

LEMMA TermPriced ==
  ASSUME NEW counts, NEW costs, IsPriced(counts, costs), NEW spent \in Nat, NEW term,
         term.kind \in {"lookup", "include", "ptr", "other"},
         AfterTerm(spent, term, counts) # Objection
  PROVE  /\ spent <= LookupLimit
         /\ AfterTerm(spent, term, counts) = spent + CostOf(term, costs)
         /\ AfterTerm(spent, term, counts) <= LookupLimit + 1
         /\ term.kind = "other" => AfterTerm(spent, term, counts) <= LookupLimit
<1>0. LookupLimit \in Nat /\ Objection \in Nat /\ spent + 1 \in Nat
  BY SpfAssumption DEF Objection
<1>1. spent <= LookupLimit /\ term.kind # "ptr"
  BY <1>0 DEF AfterTerm, TooMany
<1>2. CASE term.kind \in {"lookup", "other"}
  BY <1>0, <1>1, <1>2 DEF AfterTerm, TooMany, CostOf
<1>3. CASE term.kind = "include"
  <2> DEFINE P == Published[term.domain]
             p == CHOOSE p \in P : TRUE
  <2>1. term.domain \in DOMAIN Published
    BY <1>1, <1>3 DEF AfterTerm, TooMany
  <2>2. AfterTerm(spent, term, counts) = AfterPolicies(P, spent + 1, counts)
    BY <1>0, <1>1, <1>3, <2>1 DEF AfterTerm, TooMany
  <2>3. CASE P = {}
    BY <1>0, <1>1, <1>3, <2>1, <2>2, <2>3 DEF AfterPolicies, CostOf
  <2>4. CASE P # {}
    <3>1. ~Ambiguous(P) /\ AfterTerm(spent, term, counts) = counts[p][spent + 1]
      BY <2>2, <2>4 DEF AfterPolicies
    <3>2. p \in P /\ P = {p}
      BY <2>4, <3>1 DEF Ambiguous
    <3>3. p \in DOMAIN SpfTerms
      BY <2>1, <3>2, SpfAssumption
    <3>4. spent + 1 \in 0 .. Objection
      BY <1>0, <1>1 DEF Objection
    <3>5. /\ costs[p] \in Nat /\ counts[p][spent + 1] = spent + 1 + costs[p]
          /\ counts[p][spent + 1] <= LookupLimit + (IF EndsInLookup(p) THEN 1 ELSE 0)
      BY <3>1, <3>3, <3>4 DEF IsPriced
    <3>6. CostOf(term, costs) = 1 + costs[p]
      BY <1>3, <2>1, <2>4, <3>2 DEF CostOf
    <3> HIDE DEF p
    <3> QED  BY <1>0, <1>1, <1>3, <3>1, <3>5, <3>6
  <2> QED  BY <2>3, <2>4
<1> QED  BY <1>1, <1>2, <1>3

LEMMA TermsPriced ==
  ASSUME NEW counts, NEW costs, IsPriced(counts, costs),
         NEW p \in DOMAIN SpfTerms, NEW s \in 0 .. Objection,
         AfterTerms(SpfTerms[p], s, counts) # Objection
  PROVE  /\ AfterTerms(SpfTerms[p], s, counts) = s + CostOfAll(SpfTerms[p], costs)
         /\ AfterTerms(SpfTerms[p], s, counts)
              <= LookupLimit + (IF EndsInLookup(p) THEN 1 ELSE 0)
<1> DEFINE terms == SpfTerms[p]
           n == Len(terms)
<1>0. /\ n \in Nat \ {0} /\ Objection = LookupLimit + 2 /\ LookupLimit \in Nat
      /\ \A i \in 1 .. n : terms[i].kind \in {"lookup", "include", "ptr", "other"}
  BY SpfAssumption DEF Objection
<1>1. PICK f : /\ f[0] = s /\ \A i \in 1 .. n : f[i] = AfterTerm(f[i - 1], terms[i], counts)
               /\ AfterTerms(terms, s, counts) = f[n]
  BY <1>0, AfterTermsAre
<1>2. PICK g : /\ g[0] = 0 /\ \A i \in 1 .. n : g[i] = g[i - 1] + CostOf(terms[i], costs)
               /\ CostOfAll(terms, costs) = g[n]
  BY <1>0, CostOfAllIs
<1>3. \A i \in 1 .. n : CostOf(terms[i], costs) \in Nat
  BY CostIsNat DEF IsPriced
<1> HIDE DEF terms, n
<1>4. \A i \in 1 .. n : f[i - 1] = Objection => f[i] = Objection
  BY <1>0, <1>1 DEF AfterTerm, TooMany
<1> DEFINE Good(i) == f[i] # Objection => f[i] \in Nat /\ g[i] \in Nat /\ f[i] = s + g[i]
           T == {i \in 0 .. n : Good(i)}
<1>5. 0 \in T
  BY <1>0, <1>1, <1>2
<1>6. ASSUME NEW i \in 1 .. n, i - 1 \in T PROVE i \in T
  <2> SUFFICES ASSUME f[i] # Objection PROVE f[i] \in Nat /\ g[i] \in Nat /\ f[i] = s + g[i]
    OBVIOUS
  <2>1. f[i - 1] \in Nat /\ g[i - 1] \in Nat /\ f[i - 1] = s + g[i - 1]
    BY <1>4, <1>6
  <2>2. f[i] = f[i - 1] + CostOf(terms[i], costs)
    BY <1>0, <1>1, <2>1, TermPriced
  <2>3. g[i] = g[i - 1] + CostOf(terms[i], costs) /\ CostOf(terms[i], costs) \in Nat
    BY <1>2, <1>3
  <2> QED  BY <2>1, <2>2, <2>3
<1>7. n \in T /\ n - 1 \in T
  <2> HIDE DEF T
  <2>1. \A i \in 0 .. n : i \in T
    BY <1>0, <1>5, <1>6, Stepwise
  <2> QED  BY <1>0, <2>1
<1>8. f[n] # Objection /\ f[n - 1] # Objection /\ f[n] = AfterTerm(f[n - 1], terms[n], counts)
  BY <1>0, <1>1, <1>4 DEF terms, n
<1>9. /\ f[n] <= LookupLimit + 1
      /\ terms[n].kind = "other" => f[n] <= LookupLimit
  BY <1>0, <1>7, <1>8, TermPriced
<1>10. ~EndsInLookup(p) => terms[n].kind = "other"
  <2>1. terms[n].kind # "ptr"
    BY <1>8 DEF AfterTerm
  <2> QED  BY <1>0, <2>1 DEF EndsInLookup, terms, n
<1>11. f[n] = s + g[n]
  BY <1>7, <1>8
<1>12. f[n] <= LookupLimit + (IF EndsInLookup(p) THEN 1 ELSE 0)
  BY <1>0, <1>9, <1>10
<1>13. AfterTerms(terms, s, counts) = f[n] /\ CostOfAll(terms, costs) = g[n]
  BY <1>1, <1>2
<1> QED  BY <1>11, <1>12, <1>13 DEF terms

LEMMA CountsPriced ==
  \A depth \in 0 .. Objection : IsPriced(Counts[depth], Costs[depth])
<1> DEFINE T == {depth \in 0 .. Objection : IsPriced(Counts[depth], Costs[depth])}
<1>0. Objection \in Nat
  BY SpfAssumption DEF Objection
<1>1. 0 \in T
  BY <1>0, CountsAre, CostsAre DEF IsPriced
<1>2. ASSUME NEW d \in 1 .. Objection, d - 1 \in T PROVE d \in T
  <2>1. IsPriced(Counts[d - 1], Costs[d - 1])
    BY <1>2
  <2>2. ASSUME NEW p \in DOMAIN SpfTerms
        PROVE  Costs[d][p] \in Nat
    <3>1. Costs[d][p] = CostOfAll(SpfTerms[p], Costs[d - 1])
      BY CostsAre
    <3> DEFINE n == Len(SpfTerms[p])
    <3>2. n \in Nat
      BY SpfAssumption
    <3>3. PICK g : /\ g[0] = 0
                   /\ \A i \in 1 .. n : g[i] = g[i - 1] + CostOf(SpfTerms[p][i], Costs[d - 1])
                   /\ CostOfAll(SpfTerms[p], Costs[d - 1]) = g[n]
      BY <3>2, CostOfAllIs
    <3>4. \A i \in 1 .. n : CostOf(SpfTerms[p][i], Costs[d - 1]) \in Nat
      BY <2>1, CostIsNat DEF IsPriced
    <3> DEFINE U == {i \in 0 .. n : g[i] \in Nat}
    <3> HIDE DEF n
    <3>5. 0 \in U
      BY <3>2, <3>3
    <3>6. ASSUME NEW i \in 1 .. n, i - 1 \in U PROVE i \in U
      BY <3>3, <3>4, <3>6
    <3>7. n \in U
      <4> HIDE DEF U
      <4>1. \A i \in 0 .. n : i \in U
        BY <3>2, <3>5, <3>6, Stepwise
      <4> QED  BY <3>2, <4>1
    <3> QED  BY <3>1, <3>3, <3>7
  <2>3. ASSUME NEW p \in DOMAIN SpfTerms, NEW s \in 0 .. Objection, Counts[d][p][s] # Objection
        PROVE  /\ Counts[d][p][s] = s + Costs[d][p]
               /\ Counts[d][p][s] <= LookupLimit + (IF EndsInLookup(p) THEN 1 ELSE 0)
    <3>1. Counts[d][p][s] = AfterTerms(SpfTerms[p], s, Counts[d - 1])
      BY CountsAre
    <3>2. Costs[d][p] = CostOfAll(SpfTerms[p], Costs[d - 1])
      BY CostsAre
    <3> QED  BY <2>1, <2>3, <3>1, <3>2, TermsPriced
  <2> QED  BY <2>2, <2>3 DEF IsPriced
<1> HIDE DEF T
<1>3. \A i \in 0 .. Objection : i \in T
  BY <1>0, <1>1, <1>2, Stepwise
<1> QED  BY <1>3 DEF T

(* A record that the check lets pass has one policy at most, which is       *)
(* within the limit.                                                        *)
LEMMA PassesPriced ==
  ASSUME NEW P \in SUBSET DOMAIN SpfTerms,
         AfterPolicies(P, 0, Counts[Objection]) # Objection,
         NEW p \in P, NEW q \in P
  PROVE  /\ p = q
         /\ Costs[Objection][p] <= LookupLimit + (IF EndsInLookup(p) THEN 1 ELSE 0)
<1>0. Objection \in Nat
  BY SpfAssumption DEF Objection
<1>1. p = q /\ P = {p}
  <2>1. P # {} /\ ~Ambiguous(P)
    BY DEF AfterPolicies
  <2> QED  BY <2>1 DEF Ambiguous
<1>2. Counts[Objection][p][0] # Objection
  BY <1>1 DEF AfterPolicies
<1>3. IsPriced(Counts[Objection], Costs[Objection])
  BY <1>0, CountsPriced
<1>4. /\ Costs[Objection][p] \in Nat
      /\ Counts[Objection][p][0] = 0 + Costs[Objection][p]
      /\ Counts[Objection][p][0] <= LookupLimit + (IF EndsInLookup(p) THEN 1 ELSE 0)
  BY <1>0, <1>2, <1>3 DEF IsPriced
<1> QED  BY <1>1, <1>4

(* Counts that agree from one lookup more on make no difference to a policy *)
(* that begins here: an include has cost a lookup before it is followed.    *)
Agree(counts, others, from) ==
  \A p \in DOMAIN SpfTerms : \A s \in 0 .. Objection :
    s >= from => counts[p][s] = others[p][s]

LEMMA SameAfterTerm ==
  ASSUME NEW counts, NEW costs, IsPriced(counts, costs), NEW others,
         NEW s \in 0 .. Objection, Agree(counts, others, s + 1),
         NEW spent \in s .. Objection, NEW term
  PROVE  /\ AfterTerm(spent, term, counts) = AfterTerm(spent, term, others)
         /\ AfterTerm(spent, term, counts) \in s .. Objection
<1>0. LookupLimit \in Nat /\ Objection = LookupLimit + 2
  BY SpfAssumption DEF Objection
<1>1. CASE \/ TooMany(spent) \/ term.kind # "include"
           \/ term.domain \notin DOMAIN Published
  BY <1>0, <1>1 DEF AfterTerm, TooMany
<1>2. CASE ~TooMany(spent) /\ term.kind = "include" /\ term.domain \in DOMAIN Published
  <2> DEFINE P == Published[term.domain]
             p == CHOOSE p \in P : TRUE
  <2>1. \A c : AfterTerm(spent, term, c) = AfterPolicies(P, spent + 1, c)
    BY <1>2 DEF AfterTerm
  <2>2. spent + 1 \in s .. Objection /\ spent + 1 \in 0 .. Objection /\ spent + 1 >= s + 1
    BY <1>0, <1>2 DEF TooMany
  <2>3. CASE P = {} \/ Ambiguous(P)
    <3>1. \A c : AfterTerm(spent, term, c) = IF P = {} THEN spent + 1 ELSE Objection
      BY <2>1, <2>3 DEF AfterPolicies
    <3>2. Objection \in s .. Objection
      BY <1>0
    <3> HIDE DEF P
    <3> QED  BY <2>2, <3>1, <3>2
  <2>4. CASE P # {} /\ ~Ambiguous(P)
    <3>1. \A c : AfterTerm(spent, term, c) = c[p][spent + 1]
      BY <2>1, <2>4 DEF AfterPolicies
    <3>2. p \in DOMAIN SpfTerms
      BY <1>2, <2>4, SpfAssumption
    <3>3. counts[p][spent + 1] = others[p][spent + 1]
      BY <2>2, <3>2 DEF Agree
    <3>4. counts[p][spent + 1] \in s .. Objection
      <4> HIDE DEF p
      <4>1. CASE counts[p][spent + 1] = Objection
        BY <1>0, <4>1
      <4>2. CASE counts[p][spent + 1] # Objection
        <5>1. /\ costs[p] \in Nat /\ counts[p][spent + 1] = spent + 1 + costs[p]
              /\ counts[p][spent + 1] <= LookupLimit + (IF EndsInLookup(p) THEN 1 ELSE 0)
          BY <2>2, <3>2, <4>2 DEF IsPriced
        <5>2. counts[p][spent + 1] <= LookupLimit + 1
          BY <1>0, <5>1
        <5> QED  BY <1>0, <2>2, <5>1, <5>2
      <4> QED  BY <4>1, <4>2
    <3> QED  BY <3>1, <3>3, <3>4
  <2> QED  BY <2>3, <2>4
<1> QED  BY <1>1, <1>2

LEMMA SameAfterTerms ==
  ASSUME NEW counts, NEW costs, IsPriced(counts, costs), NEW others,
         NEW s \in 0 .. Objection, Agree(counts, others, s + 1),
         NEW p \in DOMAIN SpfTerms
  PROVE  AfterTerms(SpfTerms[p], s, counts) = AfterTerms(SpfTerms[p], s, others)
<1> DEFINE terms == SpfTerms[p]
           n == Len(terms)
<1>0. n \in Nat /\ Objection \in Nat
  BY SpfAssumption DEF Objection
<1>1. PICK f : /\ f[0] = s /\ \A i \in 1 .. n : f[i] = AfterTerm(f[i - 1], terms[i], counts)
               /\ AfterTerms(terms, s, counts) = f[n]
  BY <1>0, AfterTermsAre
<1>2. PICK g : /\ g[0] = s /\ \A i \in 1 .. n : g[i] = AfterTerm(g[i - 1], terms[i], others)
               /\ AfterTerms(terms, s, others) = g[n]
  BY <1>0, AfterTermsAre
<1> HIDE DEF terms, n
<1> DEFINE T == {i \in 0 .. n : f[i] = g[i] /\ f[i] \in s .. Objection}
<1>3. 0 \in T
  BY <1>0, <1>1, <1>2
<1>4. ASSUME NEW i \in 1 .. n, i - 1 \in T PROVE i \in T
  <2>1. f[i - 1] = g[i - 1] /\ f[i - 1] \in s .. Objection
    BY <1>4
  <2>2. /\ AfterTerm(f[i - 1], terms[i], counts) = AfterTerm(f[i - 1], terms[i], others)
        /\ AfterTerm(f[i - 1], terms[i], counts) \in s .. Objection
    BY <2>1, SameAfterTerm
  <2>3. f[i] = AfterTerm(f[i - 1], terms[i], counts)
    BY <1>1
  <2>4. g[i] = AfterTerm(g[i - 1], terms[i], others)
    BY <1>2
  <2> QED  BY <2>1, <2>2, <2>3, <2>4
<1>5. n \in T
  <2> HIDE DEF T
  <2>1. \A i \in 0 .. n : i \in T
    BY <1>0, <1>3, <1>4, Stepwise
  <2> QED  BY <1>0, <2>1
<1>6. AfterTerms(terms, s, counts) = f[n] /\ AfterTerms(terms, s, others) = g[n]
  BY <1>1, <1>2
<1> QED  BY <1>5, <1>6 DEF terms

LEMMA LevelsAgree ==
  \A d \in 0 .. LookupLimit + 1 : Agree(Counts[d], Counts[d + 1], Objection - d)
<1> DEFINE T == {d \in 0 .. LookupLimit + 1 :
                   Agree(Counts[d], Counts[d + 1], Objection - d)}
<1>0. LookupLimit \in Nat /\ Objection = LookupLimit + 2
  BY SpfAssumption DEF Objection
<1>1. 0 \in T
  <2> SUFFICES ASSUME NEW p \in DOMAIN SpfTerms
               PROVE  Counts[0][p][Objection] = Counts[1][p][Objection]
    BY <1>0 DEF Agree
  <2> DEFINE n == Len(SpfTerms[p])
  <2>1. Counts[0][p][Objection] = Objection
    BY <1>0, CountsAre
  <2>2. Counts[1][p][Objection] = AfterTerms(SpfTerms[p], Objection, Counts[0])
    BY <1>0, CountsAre
  <2>3. n \in Nat
    BY SpfAssumption
  <2>4. PICK f : /\ f[0] = Objection
                 /\ \A i \in 1 .. n : f[i] = AfterTerm(f[i - 1], SpfTerms[p][i], Counts[0])
                 /\ AfterTerms(SpfTerms[p], Objection, Counts[0]) = f[n]
    BY <2>3, AfterTermsAre
  <2> HIDE DEF n
  <2> DEFINE U == {i \in 0 .. n : f[i] = Objection}
  <2>5. 0 \in U
    BY <2>3, <2>4
  <2>6. ASSUME NEW i \in 1 .. n, i - 1 \in U PROVE i \in U
    BY <1>0, <2>4, <2>6 DEF AfterTerm, TooMany
  <2>7. n \in U
    <3> HIDE DEF U
    <3>1. \A i \in 0 .. n : i \in U
      BY <2>3, <2>5, <2>6, Stepwise
    <3> QED  BY <2>3, <3>1
  <2> QED  BY <2>1, <2>2, <2>4, <2>7
<1>2. ASSUME NEW d \in 1 .. LookupLimit + 1, d - 1 \in T PROVE d \in T
  <2>1. Agree(Counts[d - 1], Counts[d], Objection - d + 1)
    <3>1. d - 1 + 1 = d /\ Objection - (d - 1) = Objection - d + 1
      BY <1>0
    <3> QED  BY <1>2, <3>1
  <2>2. ASSUME NEW p \in DOMAIN SpfTerms, NEW s \in 0 .. Objection, s >= Objection - d
        PROVE  Counts[d][p][s] = Counts[d + 1][p][s]
    <3>1. Agree(Counts[d - 1], Counts[d], s + 1)
      BY <1>0, <2>1, <2>2 DEF Agree
    <3>2. IsPriced(Counts[d - 1], Costs[d - 1])
      BY <1>0, CountsPriced
    <3>3. AfterTerms(SpfTerms[p], s, Counts[d - 1]) = AfterTerms(SpfTerms[p], s, Counts[d])
      BY <3>1, <3>2, SameAfterTerms
    <3>4. Counts[d][p][s] = AfterTerms(SpfTerms[p], s, Counts[d - 1])
      BY <1>0, CountsAre
    <3>5. Counts[d + 1][p][s] = AfterTerms(SpfTerms[p], s, Counts[d])
      <4>1. d + 1 \in 0 .. Objection /\ d + 1 # 0 /\ d + 1 - 1 = d
        BY <1>0
      <4> QED  BY <4>1, CountsAre
    <3> QED  BY <3>3, <3>4, <3>5
  <2> QED  BY <2>2 DEF Agree
<1> HIDE DEF T
<1>3. \A d \in 0 .. LookupLimit + 1 : d \in T
  BY <1>0, <1>1, <1>2, Stepwise
<1> QED  BY <1>3 DEF T

(* The depth to which includes are followed takes nothing from the check:   *)
(* what it counts for a policy is what the policy's terms come to, with     *)
(* the same counts for the policies that they include, as _check_dns_lookups*)
(* calls itself until it objects.                                           *)
THEOREM DepthSuffices ==
  \A p \in DOMAIN SpfTerms : \A lookups \in 0 .. Objection :
    Counts[Objection][p][lookups] = AfterTerms(SpfTerms[p], lookups, Counts[Objection])
<1> SUFFICES ASSUME NEW p \in DOMAIN SpfTerms, NEW s \in 0 .. Objection
             PROVE  Counts[Objection][p][s] = AfterTerms(SpfTerms[p], s, Counts[Objection])
  OBVIOUS
<1> DEFINE d == LookupLimit + 1
<1>0. d \in Nat /\ d \in 0 .. Objection /\ d + 1 = Objection /\ Objection - 1 = d
      /\ Objection - d = 1 /\ Objection # 0 /\ Objection \in Nat
  BY SpfAssumption DEF Objection
<1>1. Agree(Counts[d], Counts[Objection], 1)
  BY <1>0, LevelsAgree
<1> HIDE DEF d
<1>2. Agree(Counts[d], Counts[Objection], s + 1)
  BY <1>1 DEF Agree
<1>3. IsPriced(Counts[d], Costs[d])
  BY <1>0, CountsPriced
<1>4. AfterTerms(SpfTerms[p], s, Counts[d]) = AfterTerms(SpfTerms[p], s, Counts[Objection])
  BY <1>2, <1>3, SameAfterTerms
<1>5. Counts[Objection][p][s] = AfterTerms(SpfTerms[p], s, Counts[d])
  <2>1. Counts[Objection][p][s] = AfterTerms(SpfTerms[p], s, Counts[Objection - 1])
    BY <1>0, CountsAre
  <2> QED  BY <1>0, <2>1
<1> QED  BY <1>4, <1>5

-----------------------------------------------------------------------------
(* Records: what a hook may make of one, and marks                          *)

LEMMA NewValue ==
  ASSUME NEW r, IsRecord(r), NEW q, NEW v, q = [r EXCEPT !.value = v]
  PROVE  IsRecord(q) /\ SameRecord(q, r) /\ q.value = v /\ q.lenient = r.lenient
BY DEF IsRecord, SameRecord

LEMMA SequenceIs ==
  ASSUME NEW s, IsSequence(s)
  PROVE  /\ Len(s) \in Nat /\ DOMAIN s = 1 .. Len(s)
         /\ \A S : (\A i \in 1 .. Len(s) : s[i] \in S) => s \in Seq(S)
<1>1. Len(s) \in Nat /\ s \in [1 .. Len(s) -> {s[i] : i \in DOMAIN s}] /\ DOMAIN s = 1 .. Len(s)
  BY LenProperties DEF IsSequence
<1>2. ASSUME NEW S, \A i \in 1 .. Len(s) : s[i] \in S PROVE s \in Seq(S)
  <2>1. s \in [1 .. Len(s) -> S]
    BY <1>1, <1>2
  <2> QED  BY <1>1, <2>1, SeqDef
<1> QED  BY <1>1, <1>2

LEMMA InSequence ==
  ASSUME NEW S, NEW s \in Seq(S)
  PROVE  IsSequence(s)
<1>1. Len(s) \in Nat /\ s \in [1 .. Len(s) -> S] /\ DOMAIN s = 1 .. Len(s)
  BY LenProperties
<1>2. s \in [1 .. Len(s) -> {s[i] : i \in DOMAIN s}]
  BY <1>1
<1> QED  BY <1>1, <1>2, SeqDef DEF IsSequence

LEMMA EqualSequences ==
  ASSUME NEW s, IsSequence(s), NEW t, IsSequence(t), Len(s) = Len(t),
         \A i \in 1 .. Len(s) : s[i] = t[i]
  PROVE  s = t
<1> DEFINE S == {s[i] : i \in DOMAIN s}
<1>1. s \in Seq(S)
  BY DEF IsSequence
<1>2. \A i \in 1 .. Len(t) : t[i] \in S
  BY SequenceIs
<1>3. t \in Seq(S)
  BY <1>2, SequenceIs
<1> HIDE DEF S
<1> QED  BY <1>1, <1>3, SeqEqual

LEMMA RelabelledIs ==
  ASSUME NEW name, IsSequence(name), NEW from, NEW to
  PROVE  /\ IsSequence(Relabelled(name, from, to))
         /\ Len(Relabelled(name, from, to)) = Len(name)
         /\ \A i \in 1 .. Len(name) :
              Relabelled(name, from, to)[i] = IF name[i] = from THEN to ELSE name[i]
<1> DEFINE n == Len(name)
           f == [i \in 1 .. n |-> IF name[i] = from THEN to ELSE name[i]]
           S == {f[i] : i \in 1 .. n}
<1>1. n \in Nat /\ DOMAIN name = 1 .. n
  BY SequenceIs
<1>2. Relabelled(name, from, to) = f
  BY <1>1 DEF Relabelled
<1>3. f \in [1 .. n -> S]
  BY <1>1
<1>4. \A i \in 1 .. n : f[i] = IF name[i] = from THEN to ELSE name[i]
  OBVIOUS
<1> HIDE DEF f, n, S
<1>5. f \in Seq(S)
  BY <1>1, <1>3, SeqDef
<1>6. Len(f) = n
  <2>1. Len(f) \in Nat /\ 1 .. Len(f) = 1 .. n
    BY <1>3, <1>5, LenProperties
  <2> DEFINE m == Len(f)
  <2> HIDE DEF m
  <2>2. ~(m < n)
    <3>1. m < n => n \in 1 .. n /\ n \notin 1 .. m
      BY <1>1, <2>1 DEF m
    <3> QED  BY <2>1, <3>1 DEF m
  <2>3. ~(n < m)
    <3>1. n < m => m \in 1 .. m /\ m \notin 1 .. n
      BY <1>1, <2>1 DEF m
    <3> QED  BY <2>1, <3>1 DEF m
  <2> QED  BY <1>1, <2>1, <2>2, <2>3 DEF m
<1>7. IsSequence(f)
  BY <1>5, InSequence
<1> QED  BY <1>2, <1>4, <1>6, <1>7 DEF n

(* The name of a mark: its labels, and that it can be read again.           *)
LEMMA MarkerNameIs ==
  ASSUME NEW r, IsRecord(r)
  PROVE  /\ IsSequence(MarkerName(r)) /\ MarkerName(r) # Apex
         /\ MarkerName(r)[1] = "_owner" /\ MarkerName(r)[2] = r.type
         /\ SubSeq(MarkerName(r), 3, Len(MarkerName(r))) = Relabelled(r.name, "*", "_wildcard")
<1> DEFINE l == Relabelled(r.name, "*", "_wildcard")
           t == r.type
           S == {"_owner", t} \cup {l[i] : i \in 1 .. Len(l)}
<1>1. IsSequence(l)
  BY RelabelledIs DEF IsRecord
<1>2. MarkerName(r) = <<"_owner", t>> \o l
  BY DEF MarkerName
<1> HIDE DEF l, t
<1>3. l \in Seq(S) /\ Len(l) \in Nat
  BY <1>1, SequenceIs
<1>4. "_owner" \in S /\ t \in S
  OBVIOUS
<1> HIDE DEF S
<1> DEFINE h == <<"_owner", t>>
<1>5. h \in Seq(S) /\ Len(h) = 2 /\ h[1] = "_owner" /\ h[2] = t
  BY <1>4
<1> HIDE DEF h
<1> DEFINE m == h \o l
<1>6. /\ m \in Seq(S) /\ Len(m) = 2 + Len(l) /\ m[1] = "_owner" /\ m[2] = t
      /\ \A i \in 1 .. Len(l) : m[i + 2] = l[i]
  <2>1. /\ m \in Seq(S) /\ Len(m) = 2 + Len(l)
        /\ \A i \in 1 .. 2 + Len(l) : m[i] = IF i <= 2 THEN h[i] ELSE l[i - 2]
    <3>1. /\ m \in Seq(S) /\ Len(m) = Len(h) + Len(l)
          /\ \A i \in 1 .. Len(h) + Len(l) :
               m[i] = IF i <= Len(h) THEN h[i] ELSE l[i - Len(h)]
      BY <1>3, <1>5, ConcatProperties
    <3> HIDE DEF m
    <3> QED  BY <1>5, <3>1
  <2> HIDE DEF m
  <2>2. m[1] = "_owner" /\ m[2] = t
    BY <1>3, <1>5, <2>1
  <2>3. ASSUME NEW i \in 1 .. Len(l) PROVE m[i + 2] = l[i]
    <3>1. i + 2 \in 1 .. 2 + Len(l) /\ ~(i + 2 <= 2) /\ i + 2 - 2 = i
      <4>1. \A k \in Nat : \A x \in 1 .. k :
              x + 2 \in 1 .. 2 + k /\ ~(x + 2 <= 2) /\ x + 2 - 2 = x
        OBVIOUS
      <4> QED  BY <1>3, <4>1
    <3> QED  BY <2>1, <3>1
  <2> QED  BY <2>1, <2>2, <2>3
<1> HIDE DEF m
<1>7. SubSeq(m, 3, Len(m)) = l
  <2> DEFINE u == SubSeq(m, 3, Len(m))
  <2>1. \A i \in 3 .. Len(m) : m[i] \in S
    BY <1>3, <1>6, ElementOfSeq
  <2>2. /\ u \in Seq(S) /\ Len(u) = IF 3 <= Len(m) THEN Len(m) - 3 + 1 ELSE 0
        /\ \A i \in 1 .. Len(m) - 3 + 1 : u[i] = m[3 + i - 1]
    BY <1>3, <1>6, <2>1, SubSeqProperties
  <2> HIDE DEF u
  <2>3. Len(u) = Len(l) /\ \A i \in 1 .. Len(l) : u[i] = l[i]
    BY <1>3, <1>6, <2>2
  <2>4. u = l
    BY <1>3, <2>2, <2>3, SeqEqual
  <2> QED  BY <2>4 DEF u
<1>8. IsSequence(m)
  BY <1>6, InSequence
<1>9. MarkerName(r) = m /\ m # << >>
  BY <1>2, <1>3, <1>6 DEF m, h
<1> QED  BY <1>6, <1>7, <1>8, <1>9 DEF l, t, Apex

LEMMA MarkerIs ==
  ASSUME NEW r, IsRecord(r)
  PROVE  /\ IsRecord(Marker(r)) /\ IsOwnership(Marker(r)) /\ Policies(Marker(r)) = {}
         /\ Marker(r).name = MarkerName(r) /\ Marker(r).type = "TXT"
<1>1. /\ Marker(r).name = MarkerName(r) /\ Marker(r).type = "TXT"
      /\ Marker(r).value = OwnerValue
  BY DEF Marker, Plain
<1>2. IsRecord(Marker(r))
  <2>1. IsSequence(Marker(r).name)
    BY <1>1, MarkerNameIs
  <2> QED  BY <2>1 DEF IsRecord, Marker, Plain
<1>3. IsOwnership(Marker(r))
  BY <1>1, MarkerNameIs DEF IsOwnership, IsOwnershipName
<1>4. Policies(Marker(r)) = {}
  <2>1. \A v \in Marker(r).value : v[1] = "text"
    BY <1>1 DEF OwnerValue, Text
  <2> QED  BY <2>1 DEF Policies
<1> QED  BY <1>1, <1>2, <1>3, <1>4

LEMMA SameMarker ==
  ASSUME NEW r, NEW s, SameRecord(r, s)
  PROVE  Marker(r) = Marker(s)
BY DEF SameRecord, Marker, MarkerName

(* A mark of a name in which no label is "_wildcard" is read as it was made.*)
LEMMA DecodedMarker ==
  ASSUME NEW s, IsRecord(s), \A i \in DOMAIN s.name : s.name[i] # "_wildcard",
         NEW m, SameRecord(m, Marker(s))
  PROVE  Decoded(m) = [name |-> s.name, type |-> s.type]
<1> DEFINE l == Relabelled(s.name, "*", "_wildcard")
           n == Relabelled(l, "_wildcard", "*")
<1>1. m.name = MarkerName(s)
  BY MarkerIs DEF SameRecord
<1>2. Decoded(m) = [name |-> n, type |-> s.type]
  BY <1>1, MarkerNameIs DEF Decoded
<1>3. IsSequence(s.name) /\ Len(s.name) \in Nat /\ DOMAIN s.name = 1 .. Len(s.name)
  BY SequenceIs DEF IsRecord
<1>4. /\ IsSequence(l) /\ Len(l) = Len(s.name)
      /\ \A i \in 1 .. Len(s.name) : l[i] = IF s.name[i] = "*" THEN "_wildcard" ELSE s.name[i]
  BY <1>3, RelabelledIs
<1> HIDE DEF l
<1>5. /\ IsSequence(n) /\ Len(n) = Len(s.name)
      /\ \A i \in 1 .. Len(s.name) : n[i] = IF l[i] = "_wildcard" THEN "*" ELSE l[i]
  BY <1>4, RelabelledIs
<1> HIDE DEF n
<1>6. \A i \in 1 .. Len(s.name) : n[i] = s.name[i]
  BY <1>3, <1>4, <1>5
<1>7. n = s.name
  BY <1>3, <1>5, <1>6, EqualSequences
<1> QED  BY <1>2, <1>7

(* q is the record r of a zone after a hook, which changes its values only. *)
MadeOf(q, r) ==
  /\ IsRecord(q) /\ SameRecord(q, r) /\ q.lenient = r.lenient
  /\ IsOwnership(r) => IsOwnership(q)
SamePolicies(q, r) == r.type = "TXT" => Policies(q) = Policies(r)

LEMMA MadeOfItself == ASSUME NEW r, IsRecord(r) PROVE MadeOf(r, r) /\ SamePolicies(r, r)
BY DEF MadeOf, SamePolicies, SameRecord

LEMMA ValuesMade ==
  ASSUME NEW r, IsRecord(r), NEW V, IsOwnership(r) => V = OwnerValue,
         NEW q, q = [r EXCEPT !.value = V]
  PROVE  MadeOf(q, r)
<1>1. IsRecord(q) /\ SameRecord(q, r) /\ q.value = V /\ q.lenient = r.lenient
  BY NewValue
<1> QED  BY <1>1 DEF MadeOf, IsOwnership, IsOwnershipName, SameRecord

LEMMA PoliciesMade ==
  ASSUME NEW r, IsRecord(r), NEW V, NEW q, q = [r EXCEPT !.value = V],
         \A v : v[1] = "spf" => (v \in V <=> v \in r.value)
  PROVE  Policies(q) = Policies(r)
<1>1. q.value = V
  BY NewValue
<1>2. {v \in q.value : v[1] = "spf"} = {v \in r.value : v[1] = "spf"}
  BY <1>1
<1> QED  BY <1>2 DEF Policies

LEMMA SourceStep ==
  ASSUME NEW p, NEW zone, \A r \in zone : IsRecord(r), NEW q \in SourceZone(p, zone)
  PROVE  \/ \E r \in zone : MadeOf(q, r) /\ SamePolicies(q, r)
         \/ p.class = "ownership" /\ \E r \in zone : ~IsOwnership(r) /\ q = Marker(r)
<1> DEFINE Goal == \E r \in zone : MadeOf(q, r) /\ SamePolicies(q, r)
<1>0. CASE q \in zone
  BY <1>0, MadeOfItself
<1>1. CASE p.class \in {"filter", "ignore_root_ns"}
  BY <1>0, <1>1 DEF SourceZone, Filtered
<1>2. CASE p.class = "ownership"
  BY <1>0, <1>2 DEF SourceZone, Marked, Markers
<1>3. CASE p.class = "acme"
  <2>1. PICK r \in zone :
          q = IF IsChallenge(r) THEN [r EXCEPT !.value = @ \cup {Managing}] ELSE r
    BY <1>3 DEF SourceZone, WithManaging
  <2>2. CASE IsChallenge(r)
    <3>1. ~IsOwnership(r)
      BY <2>2 DEF IsChallenge, IsOwnership, IsOwnershipName
    <3>2. q = [r EXCEPT !.value = r.value \cup {Managing}]
      BY <2>1, <2>2
    <3>3. Managing[1] # "spf"
      BY DEF Managing, Text
    <3>4. Policies(q) = Policies(r)
      BY <3>2, <3>3, PoliciesMade
    <3> QED  BY <3>1, <3>2, <3>4, ValuesMade DEF SamePolicies
  <2> QED  BY <1>0, <2>1, <2>2
<1>4. CASE p.class = "clamp"
  <2> DEFINE F(v) == IF v[1] = "ttl" THEN <<"ttl", Clamp(p, v[2])>> ELSE v
  <2>1. PICK r \in zone : q = [r EXCEPT !.value = {F(v) : v \in r.value}]
    BY <1>4 DEF SourceZone, Clamped
  <2>2. \A v : F(v)[1] = v[1] /\ (v[1] = "spf" => F(v) = v)
    OBVIOUS
  <2>3. IsOwnership(r) => {F(v) : v \in r.value} = OwnerValue
    <3>1. F(Text("octodns")) = Text("octodns")
      BY DEF Text
    <3> QED  BY <3>1 DEF IsOwnership, OwnerValue
  <2> HIDE DEF F
  <2>4. Policies(q) = Policies(r)
    BY <2>1, <2>2, PoliciesMade
  <2> QED  BY <2>1, <2>3, <2>4, ValuesMade DEF SamePolicies
<1>5. CASE p.class = "dots"
  <2>1. PICK r \in zone :
          q = IF r.type \in DottedTypes THEN [r EXCEPT !.value = {Dotted(v) : v \in @}] ELSE r
    BY <1>5 DEF SourceZone, WithDots
  <2>2. CASE r.type \in DottedTypes
    <3>1. r.type # "TXT" /\ ~IsOwnership(r)
      BY <2>2 DEF DottedTypes, IsOwnership, IsOwnershipName
    <3> QED  BY <2>1, <2>2, <3>1, ValuesMade DEF SamePolicies
  <2> QED  BY <1>0, <2>1, <2>2
<1>6. CASE p.class \notin {"filter", "ignore_root_ns", "ownership", "acme", "clamp", "dots"}
  BY <1>0, <1>6 DEF SourceZone
<1> QED  BY <1>1, <1>2, <1>3, <1>4, <1>5, <1>6

LEMMA BothStep ==
  ASSUME NEW p, NEW values, NEW zone, \A r \in zone : IsRecord(r),
         NEW q \in BothZones(p, values, zone)
  PROVE  \/ \E r \in zone : MadeOf(q, r) /\ (PoliciesAreChecked => SamePolicies(q, r))
         \/ p.class = "meta" /\ q = MetaRecord(p, values)
<1>0. CASE q \in zone
  BY <1>0, MadeOfItself
<1>1. CASE p.class = "meta"
  BY <1>0, <1>1 DEF BothZones
<1>2. CASE p.class = "templating"
  <2>1. PICK r \in zone : q = [r EXCEPT !.value = {Filled(v) : v \in r.value}]
    BY <1>2 DEF BothZones, WithTemplates
  <2>2. IsOwnership(r) => {Filled(v) : v \in r.value} = OwnerValue
    <3>1. Filled(Text("octodns")) = Text("octodns")
      BY RenderedAssumption DEF Filled, Text
    <3> QED  BY <3>1 DEF IsOwnership, OwnerValue
  <2>3. ASSUME PoliciesAreChecked PROVE Policies(q) = Policies(r)
    <3>1. \A v : v[1] = "spf" => Filled(v) = v
      BY RenderedAssumption DEF Filled
    <3>2. \A v : Filled(v)[1] = "spf" => Filled(v) = v
      BY <2>3 DEF PoliciesAreChecked, Filled
    <3> QED  BY <2>1, <3>1, <3>2, PoliciesMade
  <2> QED  BY <2>1, <2>2, <2>3, ValuesMade DEF SamePolicies
<1>3. CASE p.class \notin {"meta", "templating"}
  BY <1>0, <1>3 DEF BothZones
<1> QED  BY <1>1, <1>2, <1>3

LEMMA TargetStep ==
  ASSUME NEW p, NEW seen, NEW zone
  PROVE  TargetZone(p, seen, zone) \subseteq zone
BY DEF TargetZone, Filtered

LEMMA PlanStep ==
  ASSUME NEW p, NEW values, NEW found, NEW wanted, NEW changes
  PROVE  ProcessPlan(p, values, found, wanted, changes) \subseteq changes
BY DEF ProcessPlan, OwnedChanges

-----------------------------------------------------------------------------
(* Chains: what all of their stages have in common, and what one of them    *)
(* leaves to the others.                                                    *)

LEMMA ChainIs ==
  ASSUME NEW c \in Chains
  PROVE  Len(c) \in Nat /\ DOMAIN c = 1 .. Len(c)
BY ChainsAssumption

(* Where a record of a desired zone comes from: S is what the sources yield.*)
OfSource(q, S) ==
  /\ IsRecord(q)
  /\ \/ \E s \in S : SameRecord(q, s)
     \/ IsOwnership(q) /\ \E s \in S : SameRecord(q, Marker(s))
IsMeta(c, q) ==
  /\ IsRecord(q) /\ q.type = "TXT"
  /\ \E i \in DOMAIN c : c[i].class = "meta" /\ q.name = c[i].record_name
Ours(c, q, S) == OfSource(q, S) \/ IsMeta(c, q)

LEMMA OursAreRecords == \A c, q, S : Ours(c, q, S) => IsRecord(q)
BY DEF Ours, OfSource, IsMeta

LEMMA SourceRecords ==
  ASSUME NEW c \in Chains, NEW S, \A s \in S : IsRecord(s)
  PROVE  \A i \in 0 .. Len(c) : \A q \in SourceStages(c, S)[i] : OfSource(q, S)
<1> DEFINE at == SourceStages(c, S)
           n == Len(c)
           T == {i \in 0 .. n : \A q \in at[i] : OfSource(q, S)}
<1>1. n \in Nat
  BY ChainIs
<1>2. at[0] = S /\ \A i \in 1 .. n : at[i] = SourceZone(c[i], at[i - 1])
  BY <1>1, SourceStagesAre
<1> HIDE DEF at, n
<1>3. 0 \in T
  BY <1>1, <1>2 DEF OfSource, SameRecord
<1>4. ASSUME NEW i \in 1 .. n, i - 1 \in T PROVE i \in T
  <2> SUFFICES ASSUME NEW q \in at[i] PROVE OfSource(q, S)
    OBVIOUS
  <2>1. \A r \in at[i - 1] : OfSource(r, S)
    BY <1>4
  <2>2. /\ \A r \in at[i - 1] : IsRecord(r)
        /\ q \in SourceZone(c[i], at[i - 1])
    BY <1>2, <2>1 DEF OfSource
  <2>3. CASE \E r \in at[i - 1] : MadeOf(q, r)
    BY <2>1, <2>3 DEF OfSource, MadeOf, SameRecord
  <2>4. CASE \E r \in at[i - 1] : ~IsOwnership(r) /\ q = Marker(r)
    <3>1. PICK r \in at[i - 1] : ~IsOwnership(r) /\ q = Marker(r)
      BY <2>4
    <3>2. PICK s \in S : SameRecord(r, s)
      BY <2>1, <3>1 DEF OfSource
    <3>3. IsRecord(q) /\ IsOwnership(q) /\ q = Marker(s)
      BY <2>2, <3>1, <3>2, MarkerIs, SameMarker
    <3> QED  BY <3>3 DEF OfSource, SameRecord
  <2> QED  BY <2>2, <2>3, <2>4, SourceStep
<1> HIDE DEF T
<1>5. \A i \in 0 .. n : i \in T
  BY <1>1, <1>3, <1>4, Stepwise
<1> QED  BY <1>5 DEF T, n, at

LEMMA BothRecords ==
  ASSUME NEW c \in Chains, NEW S, NEW values, NEW wanted, \A q \in wanted : Ours(c, q, S)
  PROVE  \A i \in 0 .. Len(c) : \A q \in BothStages(c, values, wanted)[i] : Ours(c, q, S)
<1> DEFINE at == BothStages(c, values, wanted)
           n == Len(c)
           T == {i \in 0 .. n : \A q \in at[i] : Ours(c, q, S)}
<1>1. n \in Nat /\ DOMAIN c = 1 .. n
  BY ChainIs
<1>2. at[0] = wanted /\ \A i \in 1 .. n : at[i] = BothZones(c[i], values, at[i - 1])
  BY <1>1, BothStagesAre
<1> HIDE DEF at, n
<1>3. 0 \in T
  BY <1>1, <1>2
<1>4. ASSUME NEW i \in 1 .. n, i - 1 \in T PROVE i \in T
  <2> SUFFICES ASSUME NEW q \in at[i] PROVE Ours(c, q, S)
    OBVIOUS
  <2>1. \A r \in at[i - 1] : Ours(c, r, S)
    BY <1>4
  <2>2. /\ \A r \in at[i - 1] : IsRecord(r)
        /\ q \in BothZones(c[i], values, at[i - 1])
    BY <1>2, <2>1, OursAreRecords
  <2>3. CASE \E r \in at[i - 1] : MadeOf(q, r)
    <3>1. PICK r \in at[i - 1] : MadeOf(q, r)
      BY <2>3
    <3>2. CASE OfSource(r, S)
      BY <3>1, <3>2 DEF Ours, OfSource, MadeOf, SameRecord
    <3>3. CASE IsMeta(c, r)
      BY <3>1, <3>3 DEF Ours, IsMeta, MadeOf, SameRecord
    <3> QED  BY <2>1, <3>2, <3>3 DEF Ours
  <2>4. CASE c[i].class = "meta" /\ q = MetaRecord(c[i], values)
    <3>1. IsSequence(c[i].record_name)
      BY <1>1, <2>4, ChainsAssumption
    <3>2. IsRecord(q) /\ q.type = "TXT" /\ q.name = c[i].record_name
      BY <2>4, <3>1 DEF MetaRecord, Plain, IsRecord
    <3> QED  BY <1>1, <2>4, <3>2 DEF Ours, IsMeta
  <2> QED  BY <2>2, <2>3, <2>4, BothStep
<1> HIDE DEF T
<1>5. \A i \in 0 .. n : i \in T
  BY <1>1, <1>3, <1>4, Stepwise
<1> QED  BY <1>5 DEF T, n, at

LEMMA TargetShrinks ==
  ASSUME NEW c \in Chains, NEW seen, NEW zone, NEW j \in 0 .. Len(c)
  PROVE  \A i \in j .. Len(c) :
           TargetStages(c, seen, zone)[i] \subseteq TargetStages(c, seen, zone)[j]
<1> DEFINE at == TargetStages(c, seen, zone)
           n == Len(c)
           T == {i \in 0 .. n : i >= j => at[i] \subseteq at[j]}
<1>1. n \in Nat
  BY ChainIs
<1>2. \A i \in 1 .. n : at[i] = TargetZone(c[i], seen, at[i - 1])
  BY <1>1, TargetStagesAre
<1> HIDE DEF at, n
<1>3. 0 \in T
  <2>1. 0 >= j => j = 0
    OBVIOUS
  <2> QED  BY <1>1, <2>1
<1>4. ASSUME NEW i \in 1 .. n, i - 1 \in T PROVE i \in T
  <2>1. at[i] \subseteq at[i - 1]
    BY <1>2, TargetStep
  <2>2. i >= j => i = j \/ i - 1 >= j
    OBVIOUS
  <2> QED  BY <1>4, <2>1, <2>2
<1> HIDE DEF T
<1>5. \A i \in 0 .. n : i \in T
  BY <1>1, <1>3, <1>4, Stepwise
<1> QED  BY <1>1, <1>5 DEF T, n, at

LEMMA PlanShrinks ==
  ASSUME NEW c \in Chains, NEW values, NEW found, NEW wanted, NEW changes,
         NEW j \in 0 .. Len(c)
  PROVE  \A i \in j .. Len(c) :
           PlanStages(c, values, found, wanted, changes)[i]
             \subseteq PlanStages(c, values, found, wanted, changes)[j]
<1> DEFINE at == PlanStages(c, values, found, wanted, changes)
           n == Len(c)
           T == {i \in 0 .. n : i >= j => at[i] \subseteq at[j]}
<1>1. n \in Nat
  BY ChainIs
<1>2. \A i \in 1 .. n : at[i] = ProcessPlan(c[i], values, found, wanted, at[i - 1])
  BY <1>1, PlanStagesAre
<1> HIDE DEF at, n
<1>3. 0 \in T
  <2>1. 0 >= j => j = 0
    OBVIOUS
  <2> QED  BY <1>1, <2>1
<1>4. ASSUME NEW i \in 1 .. n, i - 1 \in T PROVE i \in T
  <2>1. at[i] \subseteq at[i - 1]
    BY <1>2, PlanStep
  <2>2. i >= j => i = j \/ i - 1 >= j
    OBVIOUS
  <2> QED  BY <1>4, <2>1, <2>2
<1> HIDE DEF T
<1>5. \A i \in 0 .. n : i \in T
  BY <1>1, <1>3, <1>4, Stepwise
<1> QED  BY <1>1, <1>5 DEF T, n, at

-----------------------------------------------------------------------------
(* Filters: what one of them takes out does not come back.                  *)

TakesOut(p, r) ==
  \/ /\ p.class = "filter" /\ p.include_target
     /\ p.by \in {"type", "name"} /\ ~Keeps(p, r)
  \/ p.class = "ignore_root_ns" /\ IsRootNs(r)

LEMMA TakesOutSame ==
  ASSUME NEW p, NEW r, NEW s, SameRecord(r, s), TakesOut(p, r)
  PROVE  TakesOut(p, s)
<1>1. r.name = s.name /\ r.type = s.type
  BY DEF SameRecord
<1>2. CASE p.class = "ignore_root_ns" /\ IsRootNs(r)
  BY <1>1, <1>2 DEF TakesOut, IsRootNs
<1>3. CASE /\ p.class = "filter" /\ p.include_target
           /\ p.by \in {"type", "name"} /\ ~Keeps(p, r)
  <2>1. ~MatchesValue(p, r) /\ ~MatchesValue(p, s)
        /\ ~PassesNetwork(p, r) /\ ~PassesNetwork(p, s)
    BY <1>3 DEF MatchesValue, PassesNetwork
  <2>2. /\ MatchesType(p, r) <=> MatchesType(p, s)
        /\ MatchesName(p, r) <=> MatchesName(p, s)
    BY <1>1 DEF MatchesType, MatchesName
  <2> DEFINE m(x) == MatchesType(p, x) \/ MatchesName(p, x) \/ MatchesValue(p, x)
  <2>3. m(r) <=> m(s)
    BY <2>1, <2>2
  <2>4. m(r) = m(s)
    <3> HIDE DEF m
    <3>1. m(r) \in BOOLEAN /\ m(s) \in BOOLEAN
      BY DEF m
    <3> QED  BY <2>3, <3>1
  <2>5. ~Keeps(p, s)
    BY <1>3, <2>1, <2>4 DEF Keeps
  <2> QED  BY <1>3, <2>5 DEF TakesOut
<1> QED  BY <1>2, <1>3 DEF TakesOut

LEMMA TakesOutHere ==
  ASSUME NEW p, NEW r, TakesOut(p, r), NEW zone
  PROVE  /\ r \notin SourceZone(p, zone)
         /\ \A seen : r \notin TargetZone(p, seen, zone)
BY DEF TakesOut, SourceZone, TargetZone, Filtered, RootNsIn

LEMMA TakesOutMarks ==
  ASSUME FiltersPass, NEW c \in Chains, NEW z \in ZoneSet, NEW i \in DOMAIN c,
         NEW j \in DOMAIN c, c[j].class = "ownership",
         NEW s \in UNION Sources(c, z), IsRecord(s)
  PROVE  ~TakesOut(c[i], Marker(s))
<1>1. ~IsRootNs(Marker(s))
  BY MarkerIs DEF IsRootNs
<1> QED  BY <1>1 DEF FiltersPass, TakesOut

LEMMA SourceTakesOut ==
  ASSUME FiltersPass, NEW c \in Chains, NEW z \in ZoneSet,
         NEW S \in SUBSET UNION Sources(c, z), NEW j \in DOMAIN c
  PROVE  \A q \in SourceChain(c, S) : ~TakesOut(c[j], q)
<1> DEFINE at == SourceStages(c, S)
           n == Len(c)
           T == {i \in 0 .. n : i >= j => \A q \in at[i] : ~TakesOut(c[j], q)}
<1>1. n \in Nat /\ DOMAIN c = 1 .. n
  BY ChainIs
<1>2. \A i \in 1 .. n : at[i] = SourceZone(c[i], at[i - 1])
  BY <1>1, SourceStagesAre
<1>3. \A s \in S : IsRecord(s)
  BY RecordsAssumption
<1>4. \A i \in 0 .. n : \A r \in at[i] : OfSource(r, S)
  BY <1>3, SourceRecords
<1> HIDE DEF at, n
<1>5. 0 \in T
  BY <1>1
<1>6. ASSUME NEW i \in 1 .. n, i - 1 \in T PROVE i \in T
  <2> SUFFICES ASSUME i >= j, NEW q \in at[i] PROVE ~TakesOut(c[j], q)
    OBVIOUS
  <2>1. CASE i = j
    BY <1>2, <2>1, TakesOutHere
  <2>2. CASE i # j
    <3>1. i - 1 \in 0 .. n /\ i - 1 >= j
      BY <1>1, <2>2
    <3>2. \A r \in at[i - 1] : OfSource(r, S) /\ ~TakesOut(c[j], r)
      BY <1>4, <1>6, <3>1
    <3>3. CASE \E r \in at[i - 1] : MadeOf(q, r)
      BY <3>2, <3>3, TakesOutSame DEF MadeOf
    <3>4. CASE c[i].class = "ownership" /\ \E r \in at[i - 1] : ~IsOwnership(r) /\ q = Marker(r)
      <4>1. PICK r \in at[i - 1] : ~IsOwnership(r) /\ q = Marker(r)
        BY <3>4
      <4>2. PICK s \in S : SameRecord(r, s)
        BY <3>2, <4>1 DEF OfSource
      <4>3. q = Marker(s)
        BY <4>1, <4>2, SameMarker
      <4> QED  BY <1>1, <1>3, <3>4, <4>3, TakesOutMarks
    <3>5. q \in SourceZone(c[i], at[i - 1]) /\ \A r \in at[i - 1] : IsRecord(r)
      BY <1>2, <3>2 DEF OfSource
    <3> QED  BY <3>3, <3>4, <3>5, SourceStep
  <2> QED  BY <2>1, <2>2
<1> HIDE DEF T
<1>7. n \in T
  <2>1. \A i \in 0 .. n : i \in T
    BY <1>1, <1>5, <1>6, Stepwise
  <2> QED  BY <1>1, <2>1
<1>8. SourceChain(c, S) = at[n]
  BY DEF SourceChain, at, n
<1> QED  BY <1>1, <1>7, <1>8 DEF T

LEMMA BothTakesOut ==
  ASSUME FiltersPass, NEW c \in Chains, NEW S, NEW values, NEW j \in DOMAIN c,
         NEW wanted, \A q \in wanted : Ours(c, q, S) /\ ~TakesOut(c[j], q)
  PROVE  \A q \in BothChain(c, values, wanted) : ~TakesOut(c[j], q)
<1> DEFINE at == BothStages(c, values, wanted)
           n == Len(c)
           T == {i \in 0 .. n : \A q \in at[i] : ~TakesOut(c[j], q)}
<1>1. n \in Nat /\ DOMAIN c = 1 .. n
  BY ChainIs
<1>2. at[0] = wanted /\ \A i \in 1 .. n : at[i] = BothZones(c[i], values, at[i - 1])
  BY <1>1, BothStagesAre
<1>3. \A i \in 0 .. n : \A r \in at[i] : IsRecord(r)
  <2>1. \A i \in 0 .. n : \A r \in at[i] : Ours(c, r, S)
    BY BothRecords
  <2> QED  BY <2>1, OursAreRecords
<1> HIDE DEF at, n
<1>4. 0 \in T
  BY <1>1, <1>2
<1>5. ASSUME NEW i \in 1 .. n, i - 1 \in T PROVE i \in T
  <2> SUFFICES ASSUME NEW q \in at[i] PROVE ~TakesOut(c[j], q)
    OBVIOUS
  <2>1. \A r \in at[i - 1] : IsRecord(r) /\ ~TakesOut(c[j], r)
    BY <1>3, <1>5
  <2>2. CASE \E r \in at[i - 1] : MadeOf(q, r)
    BY <2>1, <2>2, TakesOutSame DEF MadeOf
  <2>3. CASE c[i].class = "meta" /\ q = MetaRecord(c[i], values)
    <3>1. SameRecord(q, MetaRecord(c[i], {})) /\ q.type = "TXT"
      BY <2>3 DEF MetaRecord, Plain, SameRecord
    <3>2. ~TakesOut(c[j], MetaRecord(c[i], {}))
      BY <1>1, <2>3, <3>1 DEF FiltersPass, TakesOut, IsRootNs, SameRecord
    <3> QED  BY <3>1, <3>2, TakesOutSame
  <2>4. q \in BothZones(c[i], values, at[i - 1])
    BY <1>2
  <2> QED  BY <2>1, <2>2, <2>3, <2>4, BothStep
<1> HIDE DEF T
<1>6. n \in T
  <2>1. \A i \in 0 .. n : i \in T
    BY <1>1, <1>4, <1>5, Stepwise
  <2> QED  BY <1>1, <2>1
<1> QED  BY <1>6 DEF T, at, n, BothChain

LEMMA TargetTakesOut ==
  ASSUME NEW c \in Chains, NEW seen, NEW zone, NEW j \in DOMAIN c
  PROVE  /\ TargetChain(c, seen, zone) \subseteq zone
         /\ \A q \in TargetChain(c, seen, zone) : ~TakesOut(c[j], q)
<1> DEFINE at == TargetStages(c, seen, zone)
           n == Len(c)
<1>1. n \in Nat /\ DOMAIN c = 1 .. n
  BY ChainIs
<1>2. at[0] = zone /\ at[j] = TargetZone(c[j], seen, at[j - 1])
  BY <1>1, TargetStagesAre
<1>3. at[n] \subseteq at[0] /\ at[n] \subseteq at[j]
  <2>1. 0 \in 0 .. n /\ j \in 0 .. n /\ n \in 0 .. n /\ n \in j .. n
    BY <1>1
  <2> QED  BY <2>1, TargetShrinks
<1> HIDE DEF at, n
<1>4. \A q \in at[j] : ~TakesOut(c[j], q)
  BY <1>2, TakesOutHere
<1> QED  BY <1>2, <1>3, <1>4 DEF TargetChain, at, n

-----------------------------------------------------------------------------
(* Policies: nothing that comes after the check changes one.                *)

KnownPolicies(q) == q.type = "TXT" => Policies(q) \subseteq DOMAIN SpfTerms
PolicyPasses(q) ==
  q.type = "TXT" /\ ~q.lenient =>
    /\ Policies(q) \subseteq DOMAIN SpfTerms
    /\ AfterPolicies(Policies(q), 0, Counts[Objection]) # Objection

LEMMA NoPolicyPasses ==
  ASSUME NEW q, Policies(q) = {}
  PROVE  KnownPolicies(q) /\ PolicyPasses(q)
<1>1. AfterPolicies({}, 0, Counts[Objection]) # Objection
  BY SpfAssumption DEF AfterPolicies, Objection
<1> QED  BY <1>1 DEF KnownPolicies, PolicyPasses

LEMMA SamePolicyPasses ==
  ASSUME NEW q, NEW r, MadeOf(q, r), SamePolicies(q, r)
  PROVE  /\ KnownPolicies(r) => KnownPolicies(q)
         /\ PolicyPasses(r) => PolicyPasses(q)
BY DEF MadeOf, SameRecord, SamePolicies, KnownPolicies, PolicyPasses

LEMMA SourcePasses ==
  ASSUME NEW c \in Chains, NEW z \in ZoneSet, NEW S \in SUBSET UNION Sources(c, z),
         ~SourceChainRaises(c, S), NEW j \in DOMAIN c, c[j].class = "spf"
  PROVE  \A q \in SourceChain(c, S) : PolicyPasses(q)
<1> DEFINE at == SourceStages(c, S)
           n == Len(c)
           Fine(i, q) == KnownPolicies(q) /\ (i >= j => PolicyPasses(q))
           T == {i \in 0 .. n : \A q \in at[i] : Fine(i, q)}
<1>1. n \in Nat /\ DOMAIN c = 1 .. n
  BY ChainIs
<1>2. at[0] = S /\ \A i \in 1 .. n : at[i] = SourceZone(c[i], at[i - 1])
  BY <1>1, SourceStagesAre
<1>3. \A s \in S : IsRecord(s) /\ KnownPolicies(s)
  BY RecordsAssumption DEF KnownPolicies
<1>4. \A i \in 0 .. n : \A r \in at[i] : IsRecord(r)
  BY <1>3, SourceRecords DEF OfSource
<1>5. \A r \in at[j - 1] : ~SpfObjects(r)
  BY DEF SourceChainRaises, SourceRaises
<1>6. at[j] = at[j - 1]
  BY <1>1, <1>2 DEF SourceZone
<1> HIDE DEF at, n
<1>7. 0 \in T
  BY <1>1, <1>2, <1>3
<1>8. ASSUME NEW i \in 1 .. n, i - 1 \in T PROVE i \in T
  <2> SUFFICES ASSUME NEW q \in at[i] PROVE Fine(i, q)
    OBVIOUS
  <2>0. i - 1 \in 0 .. n /\ \A r \in at[i - 1] : Fine(i - 1, r)
    BY <1>1, <1>8
  <2>1. CASE i = j
    <3>1. q \in at[i - 1] /\ KnownPolicies(q) /\ ~SpfObjects(q)
      BY <1>5, <1>6, <2>0, <2>1
    <3> QED  BY <3>1 DEF KnownPolicies, PolicyPasses, SpfObjects
  <2>2. CASE i # j
    <3>1. i >= j => i - 1 >= j
      BY <1>1, <2>2
    <3>2. CASE \E r \in at[i - 1] : MadeOf(q, r) /\ SamePolicies(q, r)
      BY <2>0, <3>1, <3>2, SamePolicyPasses
    <3>3. CASE \E r \in at[i - 1] : q = Marker(r)
      <4>1. Policies(q) = {}
        BY <1>4, <2>0, <3>3, MarkerIs
      <4> QED  BY <4>1, NoPolicyPasses
    <3>4. q \in SourceZone(c[i], at[i - 1]) /\ \A r \in at[i - 1] : IsRecord(r)
      BY <1>2, <1>4, <2>0
    <3> QED  BY <3>2, <3>3, <3>4, SourceStep
  <2> QED  BY <2>1, <2>2
<1> HIDE DEF T
<1>9. n \in T
  <2>1. \A i \in 0 .. n : i \in T
    BY <1>1, <1>7, <1>8, Stepwise
  <2> QED  BY <1>1, <2>1
<1>10. SourceChain(c, S) = at[n]
  BY DEF SourceChain, at, n
<1> QED  BY <1>1, <1>9, <1>10 DEF T

LEMMA BothPasses ==
  ASSUME PoliciesAreChecked, NEW c \in Chains, NEW S, NEW run \in 0 .. MaxRuns,
         NEW wanted, \A q \in wanted : Ours(c, q, S) /\ PolicyPasses(q)
  PROVE  \A q \in BothChain(c, MetaValues(run), wanted) : PolicyPasses(q)
<1> DEFINE values == MetaValues(run)
           at == BothStages(c, values, wanted)
           n == Len(c)
           T == {i \in 0 .. n : \A q \in at[i] : PolicyPasses(q)}
<1>1. n \in Nat /\ DOMAIN c = 1 .. n
  BY ChainIs
<1>2. at[0] = wanted /\ \A i \in 1 .. n : at[i] = BothZones(c[i], values, at[i - 1])
  BY <1>1, BothStagesAre
<1>3. \A i \in 0 .. n : \A r \in at[i] : IsRecord(r)
  <2>1. \A i \in 0 .. n : \A r \in at[i] : Ours(c, r, S)
    BY BothRecords
  <2> QED  BY <2>1, OursAreRecords
<1> HIDE DEF at, n
<1>4. 0 \in T
  BY <1>1, <1>2
<1>5. ASSUME NEW i \in 1 .. n, i - 1 \in T PROVE i \in T
  <2> SUFFICES ASSUME NEW q \in at[i] PROVE PolicyPasses(q)
    OBVIOUS
  <2>1. \A r \in at[i - 1] : IsRecord(r) /\ PolicyPasses(r)
    BY <1>3, <1>5
  <2>2. CASE \E r \in at[i - 1] : MadeOf(q, r) /\ SamePolicies(q, r)
    BY <2>1, <2>2, SamePolicyPasses
  <2>3. CASE q = MetaRecord(c[i], values)
    <3>1. q.value = values
      BY <2>3 DEF MetaRecord, Plain
    <3>2. Policies(q) = {}
      BY <3>1 DEF Policies, PoliciesAreChecked
    <3> QED  BY <3>2, NoPolicyPasses
  <2>4. q \in BothZones(c[i], values, at[i - 1])
    BY <1>2
  <2> QED  BY <2>1, <2>2, <2>3, <2>4, BothStep
<1> HIDE DEF T
<1>6. n \in T
  <2>1. \A i \in 0 .. n : i \in T
    BY <1>1, <1>4, <1>5, Stepwise
  <2> QED  BY <1>1, <2>1
<1> QED  BY <1>6 DEF T, at, n, BothChain

-----------------------------------------------------------------------------
(* The ownership filter: what is left of a plan is octoDNS's, and is about  *)
(* nothing that somebody else has marked.                                   *)
LEMMA PlanOwned ==
  ASSUME NEW c \in Chains, NEW j \in DOMAIN c, c[j].class = "ownership",
         NEW values, NEW found, NEW wanted, NEW changes,
         ~PlanChainRaises(c, values, found, wanted, changes)
  PROVE  /\ PlanChain(c, values, found, wanted, changes)
              \subseteq OwnedChanges(found, wanted, changes)
         /\ PlanChain(c, values, found, wanted, changes) # {} => ~TakesOver(c[j], found, wanted)
<1> DEFINE at == PlanStages(c, values, found, wanted, changes)
           n == Len(c)
<1>1. n \in Nat /\ DOMAIN c = 1 .. n
  BY ChainIs
<1>2. at[0] = changes /\ at[j] = OwnedChanges(found, wanted, at[j - 1])
  <2>1. at[0] = changes /\ at[j] = ProcessPlan(c[j], values, found, wanted, at[j - 1])
    BY <1>1, PlanStagesAre
  <2> HIDE DEF at
  <2> QED  BY <2>1 DEF ProcessPlan
<1>3. at[n] \subseteq at[j] /\ at[j - 1] \subseteq at[0]
  <2>1. 0 \in 0 .. n /\ j \in 0 .. n /\ j - 1 \in 0 .. n /\ n \in j .. n
    BY <1>1
  <2> QED  BY <2>1, PlanShrinks
<1>4. at[j - 1] # {} => ~TakesOver(c[j], found, wanted)
  BY DEF PlanChainRaises, PlanRaises, HasPlan
<1>5. PlanChain(c, values, found, wanted, changes) = at[n]
  BY DEF PlanChain
<1> HIDE DEF at, n
<1>6. OwnedChanges(found, wanted, at[j - 1]) \subseteq at[j - 1]
  BY DEF OwnedChanges
<1>7. OwnedChanges(found, wanted, at[j - 1]) \subseteq OwnedChanges(found, wanted, at[0])
  BY <1>3 DEF OwnedChanges
<1> QED  BY <1>2, <1>3, <1>4, <1>5, <1>6, <1>7

LEMMA PlanWithin ==
  ASSUME NEW c \in Chains, NEW values, NEW found, NEW wanted, NEW changes
  PROVE  PlanChain(c, values, found, wanted, changes) \subseteq changes
<1> DEFINE at == PlanStages(c, values, found, wanted, changes)
           n == Len(c)
<1>1. n \in Nat
  BY ChainIs
<1>2. at[0] = changes
  BY <1>1, PlanStagesAre
<1>3. at[n] \subseteq at[0]
  <2>1. 0 \in 0 .. n /\ n \in 0 .. n
    BY <1>1
  <2> QED  BY <2>1, PlanShrinks
<1> QED  BY <1>2, <1>3 DEF PlanChain

-----------------------------------------------------------------------------
(* The steps of a run                                                       *)

IsMap(f) == f = [z \in ZoneSet |-> f[z]]

(* The variables are maps of zones, and what a run has made is gone when it *)
(* is over.                                                                 *)
Types ==
  /\ chain \in Chains /\ runs \in 0 .. MaxRuns
  /\ IsMap(source) /\ IsMap(live) /\ IsMap(stage) /\ IsMap(desired) /\ IsMap(existing)
  /\ IsMap(todo) /\ IsMap(managed)
  /\ \A z \in ZoneSet :
       /\ source[z] \in SUBSET UNION Sources(chain, z)
       /\ stage[z] \in {"none", "queued"} => desired[z] = {}
       /\ stage[z] # "planned" => todo[z] = {}
  /\ Idle => owned = {}

(* A run that ends, well or not. *)
Ends == End /\ UNCHANGED <<chain, source, live, runs, managed>>

LEMMA StepIs ==
  ASSUME [Next]_vars
  PROVE  \/ StartRun \/ Ends \/ UNCHANGED vars
         \/ \E z \in ZoneSet : ProcessSource(z) \/ PlanZone(z) \/ ApplyNext(z) \/ EditLive(z)
BY DEF Next, Abort, FailApply, Finish, EndEarly, Ends

LEMMA SameChain == ASSUME [Next]_vars PROVE chain' = chain
BY StepIs DEF StartRun, Ends, ProcessSource, PlanZone, ApplyNext, EditLive, vars

(* A zone is processed. *)
LEMMA ProcessIs ==
  ASSUME Types, NEW z \in ZoneSet, ProcessSource(z)
  PROVE  /\ UNCHANGED <<chain, source, live, existing, todo, runs, managed>>
         /\ stage[z] = "queued" /\ \A y \in ZoneSet \ {z} : stage'[y] = stage[y]
         /\ IsMap(stage') /\ IsMap(desired') /\ stage'[z] \in {"failed", "processed"}
         /\ \A y \in ZoneSet \ {z} : desired'[y] = desired[y]
         /\ \/ desired'[z] = desired[z] /\ owned' = owned
            \/ /\ ~SourceChainRaises(chain, source[z])
               /\ desired'[z] = SourceChain(chain, source[z])
               /\ owned' = owned \cup Seen(chain, source[z])
BY DEF ProcessSource, Types, IsMap

(* A zone is planned, or its task fails. *)
LEMMA PlanIs ==
  ASSUME Types, NEW z \in ZoneSet, PlanZone(z)
  PROVE  /\ UNCHANGED <<chain, source, live, owned, runs, managed>>
         /\ stage[z] = "processed" /\ \A y \in ZoneSet \ {z} : stage'[y] = stage[y]
         /\ IsMap(stage') /\ IsMap(desired') /\ IsMap(existing') /\ IsMap(todo')
         /\ \A y \in ZoneSet \ {z} :
              desired'[y] = desired[y] /\ existing'[y] = existing[y] /\ todo'[y] = todo[y]
         /\ \/ stage'[z] = "failed" /\ UNCHANGED <<desired, existing, todo>>
            \/ \E visible \in SUBSET live[z] :
                 LET found == TargetChain(chain, owned, visible)
                     wanted == BothChain(chain, MetaValues(runs), desired[z])
                     changes == ZoneChanges(found, wanted)
                 IN  /\ stage'[z] = "planned"
                     /\ ~PlanChainRaises(chain, MetaValues(runs), found, wanted, changes)
                     /\ desired'[z] = wanted /\ existing'[z] = found
                     /\ todo'[z] = PlanChain(chain, MetaValues(runs), found, wanted, changes)
<1> DEFINE visible == live[z] \ Unconfigured(live[z], desired[z])
           found == TargetChain(chain, owned, visible)
           wanted == BothChain(chain, MetaValues(runs), desired[z])
           changes == ZoneChanges(found, wanted)
           plan == PlanChain(chain, MetaValues(runs), found, wanted, changes)
           raises == \/ TargetChainRaises(chain, owned, visible)
                     \/ BothChainRaises(chain, MetaValues(runs), desired[z])
                     \/ PlanChainRaises(chain, MetaValues(runs), found, wanted, changes)
<1>1. /\ stage[z] = "processed" /\ UNCHANGED <<chain, source, live, owned, runs, managed>>
      /\ \/ stage' = [stage EXCEPT ![z] = "failed"] /\ UNCHANGED <<desired, existing, todo>>
         \/ /\ ~raises /\ stage' = [stage EXCEPT ![z] = "planned"]
            /\ desired' = [desired EXCEPT ![z] = wanted]
            /\ existing' = [existing EXCEPT ![z] = found]
            /\ todo' = [todo EXCEPT ![z] = plan]
  BY DEF PlanZone
<1>2. visible \in SUBSET live[z]
  OBVIOUS
<1> HIDE DEF visible
<1>3. ~raises => ~PlanChainRaises(chain, MetaValues(runs), found, wanted, changes)
  OBVIOUS
<1> HIDE DEF raises
<1>4. CASE stage' = [stage EXCEPT ![z] = "failed"] /\ UNCHANGED <<desired, existing, todo>>
  BY <1>1, <1>4 DEF Types, IsMap
<1>5. CASE /\ ~raises /\ stage' = [stage EXCEPT ![z] = "planned"]
           /\ desired' = [desired EXCEPT ![z] = wanted]
           /\ existing' = [existing EXCEPT ![z] = found]
           /\ todo' = [todo EXCEPT ![z] = plan]
  <2>1. /\ stage'[z] = "planned" /\ ~PlanChainRaises(chain, MetaValues(runs), found, wanted, changes)
        /\ desired'[z] = wanted /\ existing'[z] = found /\ todo'[z] = plan
    <3> HIDE DEF found, wanted, changes, plan
    <3>1. ~PlanChainRaises(chain, MetaValues(runs), found, wanted, changes)
      BY <1>3, <1>5
    <3> QED  BY <1>5, <3>1 DEF Types, IsMap
  <2>2. /\ IsMap(stage') /\ IsMap(desired') /\ IsMap(existing') /\ IsMap(todo')
        /\ \A y \in ZoneSet \ {z} :
             /\ stage'[y] = stage[y]
             /\ desired'[y] = desired[y] /\ existing'[y] = existing[y] /\ todo'[y] = todo[y]
    <3> HIDE DEF found, wanted, changes, plan
    <3> QED  BY <1>5 DEF Types, IsMap
  <2> QED  BY <1>1, <1>2, <2>1, <2>2
<1> QED  BY <1>1, <1>4, <1>5

(* A change is made. *)
LEMMA ApplyIs ==
  ASSUME Types, NEW z \in ZoneSet, ApplyNext(z)
  PROVE  /\ UNCHANGED <<chain, source, stage, desired, existing, owned, runs, managed>>
         /\ IsMap(live') /\ IsMap(todo') /\ \A y \in ZoneSet : stage[y] = "planned"
         /\ \A y \in ZoneSet \ {z} : live'[y] = live[y] /\ todo'[y] = todo[y]
         /\ \E c \in todo[z] :
              live'[z] = ApplyChange(live[z], c) /\ todo'[z] = todo[z] \ {c}
<1>1. PICK c \in Foremost(todo[z]) :
        /\ live' = [live EXCEPT ![z] = ApplyChange(live[z], c)]
        /\ todo' = [todo EXCEPT ![z] = todo[z] \ {c}]
  BY DEF ApplyNext
<1>2. c \in todo[z]
  BY DEF Foremost
<1>3. /\ UNCHANGED <<chain, source, stage, desired, existing, owned, runs, managed>>
      /\ \A y \in ZoneSet : stage[y] = "planned"
  BY DEF ApplyNext, AllPlanned
<1> QED  BY <1>1, <1>2, <1>3 DEF Types, IsMap

LEMMA EditIs ==
  ASSUME Types, NEW z \in ZoneSet, EditLive(z)
  PROVE  /\ UNCHANGED <<chain, source, stage, desired, existing, todo, owned, runs, managed>>
         /\ IsMap(live') /\ \A y \in ZoneSet \ {z} : live'[y] = live[y]
         /\ \E r \in Others(chain, z) :
              \/ ~HasSame(live[z], r) /\ live'[z] = live[z] \cup {r}
              \/ r \in live[z] /\ live'[z] = live[z] \ {r}
BY DEF EditLive, runVars, Types, IsMap

LEMMA StartIs ==
  ASSUME Types, StartRun
  PROVE  /\ UNCHANGED <<chain, live, desired, existing, todo, owned>>
         /\ IsMap(stage') /\ IsMap(source') /\ IsMap(managed') /\ runs' \in 0 .. MaxRuns
         /\ owned = {}
         /\ \A z \in ZoneSet :
              /\ stage'[z] = "queued" /\ desired[z] = {} /\ todo[z] = {}
              /\ source'[z] \in SUBSET UNION Sources(chain, z)
              /\ managed'[z] = managed[z] \cup
                   {[name |-> r.name, type |-> r.type, concerns |-> Concerns(r)] :
                      r \in source'[z]}
<1>1. /\ Idle /\ runs < MaxRuns /\ runs' = runs + 1
      /\ stage' = [z \in ZoneSet |-> "queued"]
      /\ source' \in [ZoneSet -> UNION {Sources(chain, z) : z \in ZoneSet}]
      /\ \A z \in ZoneSet : source'[z] \in Sources(chain, z)
      /\ managed' = [z \in ZoneSet |->
                       managed[z] \cup
                         {[name |-> r.name, type |-> r.type, concerns |-> Concerns(r)] :
                            r \in source'[z]}]
      /\ UNCHANGED <<chain, live, desired, existing, todo, owned>>
  BY DEF StartRun, runVars
<1>2. runs' \in 0 .. MaxRuns
  BY <1>1, RunsAssumption DEF Types
<1>3. \A z \in ZoneSet : desired[z] = {} /\ todo[z] = {}
  BY <1>1 DEF Idle, Types
<1>4. owned = {}
  BY <1>1 DEF Types
<1> QED  BY <1>1, <1>2, <1>3, <1>4 DEF IsMap

LEMMA EndIs ==
  ASSUME Types, Ends
  PROVE  /\ UNCHANGED <<chain, source, live, runs, managed>>
         /\ IsMap(stage') /\ IsMap(desired') /\ IsMap(existing') /\ IsMap(todo') /\ owned' = {}
         /\ \A z \in ZoneSet :
              stage'[z] = "none" /\ desired'[z] = {} /\ existing'[z] = {} /\ todo'[z] = {}
BY DEF Ends, End, IsMap

LEMMA TypesInit == Init => Types
<1> SUFFICES ASSUME Init PROVE Types
  OBVIOUS
<1>1. IsMap(live)
  BY DEF Init, IsMap
<1> QED  BY <1>1, RunsAssumption DEF Init, Types, IsMap

LEMMA TypesStep == Types /\ [Next]_vars => Types'
<1> SUFFICES ASSUME Types, [Next]_vars PROVE Types'
  OBVIOUS
<1>1. CASE StartRun
  <2>1. ~Idle' \/ owned' = {}
    BY <1>1, StartIs
  <2> QED  BY <1>1, <2>1, StartIs DEF Types
<1>2. CASE Ends
  BY <1>2, EndIs DEF Types
<1>3. CASE UNCHANGED vars
  BY <1>3 DEF vars, runVars, Types, Idle, IsMap
<1>4. ASSUME NEW z \in ZoneSet, ProcessSource(z) PROVE Types'
  <2>1. ~Idle'
    BY <1>4, ProcessIs DEF Idle
  <2> QED  BY <1>4, <2>1, ProcessIs DEF Types
<1>5. ASSUME NEW z \in ZoneSet, PlanZone(z) PROVE Types'
  <2>1. ~Idle'
    BY <1>5, PlanIs DEF Idle
  <2>2. \A y \in ZoneSet : stage'[y] \in {"none", "queued"} => desired'[y] = {}
    BY <1>5, PlanIs DEF Types
  <2>3. \A y \in ZoneSet : stage'[y] # "planned" => todo'[y] = {}
    BY <1>5, PlanIs DEF Types
  <2> QED  BY <1>5, <2>1, <2>2, <2>3, PlanIs DEF Types
<1>6. ASSUME NEW z \in ZoneSet, ApplyNext(z) PROVE Types'
  BY <1>6, ApplyIs DEF Types, Idle
<1>7. ASSUME NEW z \in ZoneSet, EditLive(z) PROVE Types'
  BY <1>7, EditIs DEF Types, Idle
<1> QED  BY <1>1, <1>2, <1>3, <1>4, <1>5, <1>6, <1>7, StepIs

-----------------------------------------------------------------------------
(* What a run has made of a zone                                            *)

(* The desired records are the run's, and the changes are those of a plan.  *)
Made ==
  \A z \in ZoneSet :
    /\ \A q \in desired[z] : Ours(chain, q, source[z])
    /\ todo[z] \subseteq ZoneChanges(existing[z], desired[z])

LEMMA DesiredBySource ==
  ASSUME Types, NEW z \in ZoneSet, NEW q \in SourceChain(chain, source[z])
  PROVE  OfSource(q, source[z])
<1>1. chain \in Chains /\ \A s \in source[z] : IsRecord(s)
  BY RecordsAssumption DEF Types
<1>2. Len(chain) \in 0 .. Len(chain)
  BY <1>1, ChainIs
<1> QED  BY <1>1, <1>2, SourceRecords DEF SourceChain

LEMMA DesiredByBoth ==
  ASSUME Types, Made, NEW z \in ZoneSet, NEW values,
         NEW q \in BothChain(chain, values, desired[z])
  PROVE  Ours(chain, q, source[z])
<1>1. chain \in Chains /\ \A r \in desired[z] : Ours(chain, r, source[z])
  BY DEF Types, Made
<1>2. Len(chain) \in 0 .. Len(chain)
  BY <1>1, ChainIs
<1> QED  BY <1>1, <1>2, BothRecords DEF BothChain

LEMMA MadeStep == Types /\ Made /\ [Next]_vars => Made'
<1> SUFFICES ASSUME Types, Made, [Next]_vars, NEW z \in ZoneSet
             PROVE  /\ \A q \in desired'[z] : Ours(chain', q, source'[z])
                    /\ todo'[z] \subseteq ZoneChanges(existing'[z], desired'[z])
  BY DEF Made
<1>0. /\ \A q \in desired[z] : Ours(chain, q, source[z])
      /\ todo[z] \subseteq ZoneChanges(existing[z], desired[z])
  BY DEF Made
<1>1. CASE StartRun
  BY <1>1, StartIs
<1>2. CASE Ends
  BY <1>2, EndIs
<1>3. CASE UNCHANGED <<chain, source, desired, existing, todo>>
  BY <1>0, <1>3
<1>4. ASSUME NEW y \in ZoneSet, ProcessSource(y)
      PROVE  /\ \A q \in desired'[z] : Ours(chain', q, source'[z])
             /\ todo'[z] \subseteq ZoneChanges(existing'[z], desired'[z])
  <2>1. UNCHANGED <<chain, source, existing, todo>>
    BY <1>4, ProcessIs
  <2>2. todo[z] = {} \/ desired'[z] = desired[z]
    BY <1>4, ProcessIs DEF Types
  <2>3. desired'[z] = desired[z] \/ desired'[z] = SourceChain(chain, source[z])
    BY <1>4, ProcessIs
  <2>4. \A q \in desired'[z] : Ours(chain, q, source[z])
    BY <1>0, <2>3, DesiredBySource DEF Ours
  <2>5. todo[z] \subseteq ZoneChanges(existing[z], desired'[z])
    BY <1>0, <2>2
  <2> QED  BY <2>1, <2>4, <2>5
<1>5. ASSUME NEW y \in ZoneSet, PlanZone(y)
      PROVE  /\ \A q \in desired'[z] : Ours(chain', q, source'[z])
             /\ todo'[z] \subseteq ZoneChanges(existing'[z], desired'[z])
  <2>1. UNCHANGED <<chain, source>>
    BY <1>5, PlanIs
  <2>2. CASE UNCHANGED <<desired, existing, todo>> \/ y # z
    <3>1. desired'[z] = desired[z] /\ existing'[z] = existing[z] /\ todo'[z] = todo[z]
      BY <1>5, <2>2, PlanIs
    <3> QED  BY <1>0, <2>1, <3>1
  <2>3. CASE ~UNCHANGED <<desired, existing, todo>> /\ y = z
    <3>1. PICK found, wanted, changes :
            /\ wanted = BothChain(chain, MetaValues(runs), desired[z])
            /\ changes = ZoneChanges(found, wanted)
            /\ desired'[z] = wanted /\ existing'[z] = found
            /\ todo'[z] = PlanChain(chain, MetaValues(runs), found, wanted, changes)
      BY <1>5, <2>3, PlanIs
    <3>2. \A q \in wanted : Ours(chain, q, source[z])
      BY <3>1, DesiredByBoth
    <3>3. todo'[z] \subseteq changes
      BY <3>1, PlanWithin DEF Types
    <3> QED  BY <2>1, <3>1, <3>2, <3>3
  <2> QED  BY <2>2, <2>3
<1>6. ASSUME NEW y \in ZoneSet, ApplyNext(y)
      PROVE  /\ \A q \in desired'[z] : Ours(chain', q, source'[z])
             /\ todo'[z] \subseteq ZoneChanges(existing'[z], desired'[z])
  <2>1. UNCHANGED <<chain, source, desired, existing>> /\ todo'[z] \subseteq todo[z]
    BY <1>6, ApplyIs
  <2> QED  BY <1>0, <2>1
<1>7. ASSUME NEW y \in ZoneSet, EditLive(y)
      PROVE  UNCHANGED <<chain, source, desired, existing, todo>>
  BY <1>7, EditIs
<1> QED  BY <1>1, <1>2, <1>3, <1>4, <1>5, <1>6, <1>7, StepIs DEF vars, runVars

LEMMA MadeInit == Init => Made
BY DEF Init, Made

(* What the target loses in a step is what a change of the plan is about.   *)
LEMMA LossIsChange ==
  ASSUME Types, [Next]_vars, NEW z \in ZoneSet, NEW r \in live[z], Loses(z, r)
  PROVE  \E c \in todo[z] :
           /\ SameRecord(r, c.record)
           /\ UNCHANGED <<chain, source, existing, desired, managed>>
<1>1. todo'[z] # todo[z] /\ stage'[z] = "planned" /\ stage[z] = "planned" /\ r \notin live'[z]
  BY DEF Loses
<1>2. ~StartRun
  BY <1>1, StartIs
<1>3. ~Ends
  BY <1>1, EndIs
<1>4. \A y \in ZoneSet : ~ProcessSource(y)
  BY <1>1, ProcessIs
<1>5. \A y \in ZoneSet : ~PlanZone(y)
  BY <1>1, PlanIs
<1>6. \A y \in ZoneSet : ~EditLive(y)
  BY <1>1, EditIs
<1>7. ~UNCHANGED vars
  BY <1>1 DEF vars, runVars
<1>8. PICK y \in ZoneSet : ApplyNext(y)
  BY <1>2, <1>3, <1>4, <1>5, <1>6, <1>7, StepIs
<1>9. y = z
  BY <1>1, <1>8, ApplyIs
<1>10. PICK c \in todo[z] : live'[z] = ApplyChange(live[z], c)
  BY <1>8, <1>9, ApplyIs
<1>11. SameRecord(r, c.record)
  BY <1>1, <1>10 DEF ApplyChange, WithRecord, Discard, SameRecord
<1> QED  BY <1>8, <1>11, ApplyIs

(* A change of a plan is of a record that is found or wanted.               *)
LEMMA ChangeIs ==
  ASSUME NEW E, NEW D, NEW c \in ZoneChanges(E, D)
  PROVE  \/ c.kind = "Delete" /\ c.record \in E /\ ~HasSame(D, c.record)
         \/ c.kind = "Update" /\ c.record \in D
         \/ c.kind = "Create" /\ c.record \in D /\ ~HasSame(E, c.record)
BY DEF ZoneChanges, Deleted, Updated, Created, Delete, Update, Create

-----------------------------------------------------------------------------
(* Filtered records stay.                                                   *)

Gone ==
  \A z \in ZoneSet : \A j \in DOMAIN chain :
    /\ \A q \in desired[z] : ~TakesOut(chain[j], q)
    /\ \A c \in todo[z] : ~TakesOut(chain[j], c.record)

LEMMA GoneStep == FiltersPass /\ Types /\ Made /\ Gone /\ [Next]_vars => Gone'
<1> SUFFICES ASSUME FiltersPass, Types, Made, Gone, [Next]_vars,
                    NEW z \in ZoneSet, NEW j \in DOMAIN chain
             PROVE  /\ \A q \in desired'[z] : ~TakesOut(chain[j], q)
                    /\ \A c \in todo'[z] : ~TakesOut(chain[j], c.record)
  BY SameChain DEF Gone
<1>0. /\ \A q \in desired[z] : ~TakesOut(chain[j], q)
      /\ \A c \in todo[z] : ~TakesOut(chain[j], c.record)
  BY DEF Gone
<1>a. chain \in Chains /\ source[z] \in SUBSET UNION Sources(chain, z)
  BY DEF Types
<1>1. CASE desired'[z] \in {{}, desired[z]} /\ todo'[z] \subseteq todo[z]
  BY <1>0, <1>1
<1>2. CASE StartRun
  BY <1>1, <1>2, StartIs
<1>3. CASE Ends
  BY <1>1, <1>3, EndIs
<1>4. CASE UNCHANGED vars
  BY <1>1, <1>4 DEF vars, runVars
<1>5. ASSUME NEW y \in ZoneSet, ProcessSource(y), ~(desired'[z] = desired[z])
      PROVE  /\ \A q \in desired'[z] : ~TakesOut(chain[j], q)
             /\ todo' = todo
  <2>1. desired'[z] = SourceChain(chain, source[z]) /\ todo' = todo
    BY <1>5, ProcessIs
  <2> QED  BY <1>a, <2>1, SourceTakesOut
<1>6. ASSUME NEW y \in ZoneSet, PlanZone(y),
             ~(desired'[z] = desired[z] /\ todo'[z] = todo[z])
      PROVE  /\ \A q \in desired'[z] : ~TakesOut(chain[j], q)
             /\ \A c \in todo'[z] : ~TakesOut(chain[j], c.record)
  <2>1. y = z /\ ~UNCHANGED <<desired, existing, todo>>
    BY <1>6, PlanIs
  <2>2. PICK visible \in SUBSET live[z] : \E found, wanted, changes :
          /\ found = TargetChain(chain, owned, visible)
          /\ wanted = BothChain(chain, MetaValues(runs), desired[z])
          /\ changes = ZoneChanges(found, wanted)
          /\ desired'[z] = wanted
          /\ todo'[z] = PlanChain(chain, MetaValues(runs), found, wanted, changes)
    BY <1>6, <2>1, PlanIs
  <2>3. PICK found, wanted, changes :
          /\ found = TargetChain(chain, owned, visible)
          /\ wanted = BothChain(chain, MetaValues(runs), desired[z])
          /\ changes = ZoneChanges(found, wanted)
          /\ desired'[z] = wanted
          /\ todo'[z] = PlanChain(chain, MetaValues(runs), found, wanted, changes)
    BY <2>2
  <2>4. \A q \in found : ~TakesOut(chain[j], q)
    BY <1>a, <2>3, TargetTakesOut
  <2>5. \A q \in wanted : ~TakesOut(chain[j], q)
    <3>1. \A q \in desired[z] : Ours(chain, q, source[z]) /\ ~TakesOut(chain[j], q)
      BY <1>0 DEF Made
    <3> QED  BY <1>a, <2>3, <3>1, BothTakesOut
  <2>6. todo'[z] \subseteq ZoneChanges(found, wanted)
    BY <1>a, <2>3, PlanWithin
  <2> QED  BY <2>3, <2>4, <2>5, <2>6, ChangeIs
<1>7. ASSUME NEW y \in ZoneSet, ApplyNext(y)
      PROVE  desired' = desired /\ todo'[z] \subseteq todo[z]
  BY <1>7, ApplyIs
<1>8. ASSUME NEW y \in ZoneSet, EditLive(y)
      PROVE  desired' = desired /\ todo' = todo
  BY <1>8, EditIs
<1> DEFINE Goal == /\ \A q \in desired'[z] : ~TakesOut(chain[j], q)
                   /\ \A c \in todo'[z] : ~TakesOut(chain[j], c.record)
<1>9. ASSUME NEW y \in ZoneSet, ProcessSource(y) PROVE Goal
  <2>1. todo' = todo
    BY <1>9, ProcessIs
  <2> QED  BY <1>0, <1>5, <1>9, <2>1
<1>10. ASSUME NEW y \in ZoneSet, PlanZone(y) \/ ApplyNext(y) \/ EditLive(y) PROVE Goal
  <2>1. CASE PlanZone(y)
    BY <1>0, <1>6, <2>1
  <2>2. CASE ApplyNext(y) \/ EditLive(y)
    BY <1>0, <1>7, <1>8, <2>2
  <2> QED  BY <1>10, <2>1, <2>2
<1>11. ASSUME StartRun \/ Ends \/ UNCHANGED vars PROVE Goal
  BY <1>2, <1>3, <1>4, <1>11
<1> HIDE DEF Goal
<1>12. Goal
  BY <1>9, <1>10, <1>11, StepIs
<1> QED  BY <1>12 DEF Goal

LEMMA MadeInvariant == Spec => [](Types /\ Made)
BY TypesInit, TypesStep, MadeInit, MadeStep, PTL DEF Spec

(* A record that a filter takes out of the target's zone by its type or its *)
(* name stays at the target as it is, whatever the processors around the    *)
(* filter do: they must only not add what it is there to take out.          *)
THEOREM FilteredStays ==
  ASSUME FiltersPass
  PROVE  Spec => FilteredStay
<1>1. Init => Gone
  BY DEF Init, Gone
<1>2. Types /\ Made /\ Gone /\ [Next]_vars =>
        [\A z \in ZoneSet : \A r \in live[z] : Loses(z, r) => ~FilteredOut(r)]_vars
  <2> SUFFICES ASSUME Types, Made, Gone, [Next]_vars, NEW z \in ZoneSet,
                      NEW r \in live[z], Loses(z, r), FilteredOut(r)
               PROVE  FALSE
    OBVIOUS
  <2>1. PICK c \in todo[z] : SameRecord(r, c.record)
    BY LossIsChange
  <2>2. PICK j \in DOMAIN chain : TakesOut(chain[j], r)
    BY DEF FilteredOut, TakesOut
  <2> QED  BY <2>1, <2>2, TakesOutSame DEF Gone
<1> QED  BY <1>1, <1>2, MadeInvariant, GoneStep, PTL DEF Spec, FilteredStay

-----------------------------------------------------------------------------
(* Policies stay within the limit.                                          *)

AllPass == Has("spf") => \A z \in ZoneSet : \A q \in desired[z] : PolicyPasses(q)

LEMMA AllPassStep ==
  PoliciesAreChecked /\ Types /\ Made /\ AllPass /\ [Next]_vars => AllPass'
<1> SUFFICES ASSUME PoliciesAreChecked, Types, Made, AllPass, [Next]_vars, Has("spf"),
                    NEW z \in ZoneSet
             PROVE  \A q \in desired'[z] : PolicyPasses(q)
  BY SameChain DEF AllPass, Has
<1> DEFINE Goal == \A q \in desired'[z] : PolicyPasses(q)
<1>0. \A q \in desired[z] : PolicyPasses(q)
  BY DEF AllPass
<1>a. chain \in Chains /\ source[z] \in SUBSET UNION Sources(chain, z) /\ runs \in 0 .. MaxRuns
  BY DEF Types
<1>1. ASSUME desired'[z] \in {{}, desired[z]} PROVE Goal
  BY <1>0, <1>1
<1>2. ASSUME NEW y \in ZoneSet, ProcessSource(y) PROVE Goal
  <2>1. CASE desired'[z] = desired[z]
    BY <1>1, <2>1
  <2>2. CASE desired'[z] # desired[z]
    <3>1. /\ ~SourceChainRaises(chain, source[z])
          /\ desired'[z] = SourceChain(chain, source[z])
      BY <1>2, <2>2, ProcessIs
    <3>2. PICK j \in DOMAIN chain : chain[j].class = "spf"
      BY DEF Has
    <3> QED  BY <1>a, <3>1, <3>2, SourcePasses
  <2> QED  BY <2>1, <2>2
<1>3. ASSUME NEW y \in ZoneSet, PlanZone(y) PROVE Goal
  <2>1. CASE desired'[z] = desired[z]
    BY <1>1, <2>1
  <2>2. CASE desired'[z] # desired[z]
    <3>1. desired'[z] = BothChain(chain, MetaValues(runs), desired[z])
      <4>1. y = z /\ ~UNCHANGED <<desired, existing, todo>>
        BY <1>3, <2>2, PlanIs
      <4> QED  BY <1>3, <4>1, PlanIs
    <3>2. \A q \in desired[z] : Ours(chain, q, source[z]) /\ PolicyPasses(q)
      BY <1>0 DEF Made
    <3> QED  BY <1>a, <3>1, <3>2, BothPasses
  <2> QED  BY <2>1, <2>2
<1>4. ASSUME NEW y \in ZoneSet, ApplyNext(y) \/ EditLive(y) PROVE Goal
  <2>1. desired' = desired
    BY <1>4, ApplyIs, EditIs
  <2> QED  BY <1>1, <2>1
<1>5. ASSUME StartRun \/ Ends \/ UNCHANGED vars PROVE Goal
  <2>1. desired'[z] \in {{}, desired[z]}
    BY <1>5, StartIs, EndIs DEF vars, runVars
  <2> QED  BY <1>1, <2>1
<1> HIDE DEF Goal
<1>6. Goal
  BY <1>2, <1>3, <1>4, <1>5, StepIs
<1> QED  BY <1>6 DEF Goal

(* With the SpfDnsLookupProcessor no policy of a desired zone costs more    *)
(* than the limit, counted with those that it includes: but for the lookup  *)
(* of its last term, after which the limit is not looked at.                *)
THEOREM PoliciesStayWithinLimit ==
  ASSUME PoliciesAreChecked
  PROVE  Spec => []PoliciesWithinLimit
<1>1. Init => AllPass
  BY DEF Init, AllPass
<1>2. AllPass => PoliciesWithinLimit
  <2> SUFFICES ASSUME AllPass, Has("spf"), NEW z \in ZoneSet, NEW r \in desired[z],
                      r.type = "TXT", ~r.lenient, NEW p \in Policies(r), NEW q \in Policies(r)
               PROVE  /\ p = q
                      /\ Costs[Objection][p] <= LookupLimit + (IF EndsInLookup(p) THEN 1 ELSE 0)
    BY DEF PoliciesWithinLimit
  <2>1. /\ Policies(r) \subseteq DOMAIN SpfTerms
        /\ AfterPolicies(Policies(r), 0, Counts[Objection]) # Objection
    BY DEF AllPass, PolicyPasses
  <2> QED  BY <2>1, PassesPriced
<1> QED  BY <1>1, <1>2, MadeInvariant, AllPassStep, PTL DEF Spec

-----------------------------------------------------------------------------
(* What the target holds: records of others, and records that a run of      *)
(* these sources has made.  What a plan deletes is still there as it was    *)
(* seen, unless it is somebody else's.                                      *)

ComesFrom(z, r) ==
  /\ IsRecord(r)
  /\ \/ r \in Others(chain, z) \cup UNION Lives(chain, z)
     \/ Ours(chain, r, UNION Sources(chain, z))

(* A mark of octoDNS's is about a record that the sources of a run have had. *)
IsManaged(z, s) == HasSame(managed[z], s)
MarkKnown(z, r) ==
  MarksAreOwn /\ IsOwnership(r) =>
    \E s \in UNION Sources(chain, z) : SameRecord(r, Marker(s)) /\ IsManaged(z, s)

Held ==
  \A z \in ZoneSet :
    /\ IsKeyed(live[z]) /\ IsKeyed(existing[z])
    /\ \A r \in live[z] : ComesFrom(z, r) /\ MarkKnown(z, r)
    /\ \A r \in existing[z] : ComesFrom(z, r) /\ MarkKnown(z, r)
    /\ \A s \in source[z] : IsManaged(z, s)
    /\ \A c \in todo[z] :
         c.kind = "Delete" /\ c.record \notin Others(chain, z) => c.record \in live[z]

LEMMA OtherComesFrom ==
  ASSUME Types, NEW z \in ZoneSet, NEW r \in Others(chain, z) \cup UNION Lives(chain, z)
  PROVE  ComesFrom(z, r) /\ MarkKnown(z, r)
<1>1. IsRecord(r)
  BY RecordsAssumption DEF Types
<1>2. MarksAreOwn => ~IsOwnership(r)
  BY DEF MarksAreOwn, Types
<1> QED  BY <1>1, <1>2 DEF ComesFrom, MarkKnown

(* A record of a desired zone is octoDNS's mark only if it marks a record   *)
(* of the sources.                                                          *)
LEMMA OursMarks ==
  ASSUME Types, NEW z \in ZoneSet, NEW S \in SUBSET UNION Sources(chain, z),
         NEW q, Ours(chain, q, S), MarksAreOwn, IsOwnershipName(q)
  PROVE  IsOwnership(q) /\ \E s \in S : SameRecord(q, Marker(s))
<1>1. CASE OfSource(q, S)
  <2>1. \A s \in S : ~SameRecord(q, s)
    BY DEF MarksAreOwn, Types, SameRecord, IsOwnershipName
  <2> QED  BY <1>1, <2>1 DEF OfSource
<1>2. CASE IsMeta(chain, q)
  <2>1. PICK i \in DOMAIN chain : chain[i].class = "meta" /\ q.name = chain[i].record_name
    BY <1>2 DEF IsMeta
  <2>2. q.name[1] # "_owner"
    BY <2>1, ChainsAssumption DEF Types
  <2> QED  BY <2>2 DEF IsOwnershipName
<1> QED  BY <1>1, <1>2 DEF Ours

LEMMA OursComesFrom ==
  ASSUME Types, Held, NEW z \in ZoneSet, NEW r, Ours(chain, r, source[z])
  PROVE  ComesFrom(z, r) /\ MarkKnown(z, r)
<1>1. source[z] \in SUBSET UNION Sources(chain, z)
  BY DEF Types
<1>2. Ours(chain, r, UNION Sources(chain, z))
  BY <1>1 DEF Ours, OfSource
<1>3. ComesFrom(z, r)
  BY <1>2, OursAreRecords DEF ComesFrom
<1>4. ASSUME MarksAreOwn, IsOwnership(r)
      PROVE  \E s \in UNION Sources(chain, z) : SameRecord(r, Marker(s)) /\ IsManaged(z, s)
  <2>1. PICK s \in source[z] : SameRecord(r, Marker(s))
    BY <1>1, <1>4, OursMarks DEF IsOwnership
  <2>2. IsManaged(z, s)
    BY DEF Held
  <2> QED  BY <1>1, <2>1, <2>2
<1> QED  BY <1>3, <1>4 DEF MarkKnown

LEMMA KeyedChanges ==
  ASSUME NEW E, IsKeyed(E), NEW D, NEW c \in ZoneChanges(E, D), NEW d \in ZoneChanges(E, D),
         d.kind = "Delete", SameRecord(d.record, c.record)
  PROVE  c = d
<1>1. d.record \in E /\ ~HasSame(D, d.record)
  BY ChangeIs
<1>2. c.kind = "Delete" /\ c.record \in E
  BY <1>1, ChangeIs DEF HasSame, SameRecord
<1>3. c.record = d.record
  BY <1>1, <1>2 DEF IsKeyed, SameRecord
<1>4. c = Delete(c.record)
  BY <1>2 DEF ZoneChanges, Delete, Update, Create
<1>5. d = Delete(d.record)
  BY DEF ZoneChanges, Delete, Update, Create
<1> QED  BY <1>3, <1>4, <1>5

LEMMA HeldInit == Init => Held
<1> SUFFICES ASSUME Init, NEW z \in ZoneSet
             PROVE  /\ IsKeyed(live[z]) /\ IsKeyed(existing[z])
                    /\ \A r \in live[z] : ComesFrom(z, r) /\ MarkKnown(z, r)
                    /\ existing[z] = {} /\ source[z] = {} /\ todo[z] = {}
  BY DEF Held
<1>1. Types /\ live[z] \in Lives(chain, z) /\ existing[z] = {} /\ source[z] = {} /\ todo[z] = {}
  BY TypesInit DEF Init
<1>2. IsKeyed(live[z]) /\ IsKeyed(existing[z])
  BY <1>1, KeyedAssumption DEF Types, IsKeyed
<1> QED  BY <1>1, <1>2, OtherComesFrom

LEMMA HeldStep == Types /\ Made /\ Held /\ [Next]_vars => Held'
<1> SUFFICES ASSUME Types, Made, Held, [Next]_vars, NEW z \in ZoneSet
             PROVE  /\ IsKeyed(live'[z]) /\ IsKeyed(existing'[z])
                    /\ \A r \in live'[z] : (ComesFrom(z, r) /\ MarkKnown(z, r))'
                    /\ \A r \in existing'[z] : (ComesFrom(z, r) /\ MarkKnown(z, r))'
                    /\ \A s \in source'[z] : IsManaged(z, s)'
                    /\ \A c \in todo'[z] :
                         c.kind = "Delete" /\ c.record \notin Others(chain', z)
                           => c.record \in live'[z]
  BY DEF Held
<1> DEFINE Goal == /\ IsKeyed(live'[z]) /\ IsKeyed(existing'[z])
                   /\ \A r \in live'[z] : (ComesFrom(z, r) /\ MarkKnown(z, r))'
                   /\ \A r \in existing'[z] : (ComesFrom(z, r) /\ MarkKnown(z, r))'
                   /\ \A s \in source'[z] : IsManaged(z, s)'
                   /\ \A c \in todo'[z] :
                        c.kind = "Delete" /\ c.record \notin Others(chain', z)
                          => c.record \in live'[z]
<1>0. /\ IsKeyed(live[z]) /\ IsKeyed(existing[z])
      /\ \A r \in live[z] : ComesFrom(z, r) /\ MarkKnown(z, r)
      /\ \A r \in existing[z] : ComesFrom(z, r) /\ MarkKnown(z, r)
      /\ \A s \in source[z] : IsManaged(z, s)
      /\ \A c \in todo[z] :
           c.kind = "Delete" /\ c.record \notin Others(chain, z) => c.record \in live[z]
  BY DEF Held
<1>a. /\ chain' = chain /\ \A r : ComesFrom(z, r)' <=> ComesFrom(z, r)
      /\ managed'[z] = managed[z] =>
           \A r : /\ MarkKnown(z, r)' <=> MarkKnown(z, r)
                  /\ IsManaged(z, r)' <=> IsManaged(z, r)
  <2>1. chain' = chain
    BY SameChain
  <2> QED  BY <2>1 DEF ComesFrom, MarkKnown, IsManaged
<1>b. ASSUME live'[z] = live[z], existing'[z] \in {{}, existing[z]}, source'[z] = source[z],
             managed'[z] = managed[z], todo'[z] \in {{}, todo[z]}
      PROVE  Goal
  BY <1>0, <1>a, <1>b DEF IsKeyed
<1>1. ASSUME StartRun PROVE Goal
  <2>1. /\ live' = live /\ existing' = existing /\ todo' = todo
        /\ source'[z] \in SUBSET UNION Sources(chain, z) /\ managed[z] \subseteq managed'[z]
        /\ \A r \in source'[z] :
             [name |-> r.name, type |-> r.type, concerns |-> Concerns(r)] \in managed'[z]
    BY <1>1, StartIs
  <2>2. \A r : IsManaged(z, r) => IsManaged(z, r)'
    BY <2>1 DEF IsManaged, HasSame
  <2>3. \A r : MarkKnown(z, r) => MarkKnown(z, r)'
    BY <1>a, <2>2 DEF MarkKnown
  <2>4. ASSUME NEW s \in source'[z] PROVE IsManaged(z, s)'
    BY <2>1 DEF IsManaged, HasSame, SameRecord
  <2> QED  BY <1>0, <1>a, <2>1, <2>3, <2>4
<1>2. ASSUME Ends PROVE Goal
  BY <1>2, <1>b, EndIs
<1>3. ASSUME UNCHANGED vars PROVE Goal
  BY <1>3, <1>b DEF vars, runVars
<1>4. ASSUME NEW y \in ZoneSet, ProcessSource(y) PROVE Goal
  BY <1>4, <1>b, ProcessIs
<1>5. ASSUME NEW y \in ZoneSet, PlanZone(y) PROVE Goal
  <2>1. live' = live /\ source' = source /\ managed' = managed
    BY <1>5, PlanIs
  <2>2. CASE existing'[z] = existing[z] /\ todo'[z] = todo[z]
    BY <1>b, <2>1, <2>2
  <2>3. CASE ~(existing'[z] = existing[z] /\ todo'[z] = todo[z])
    <3>0. y = z /\ ~UNCHANGED <<desired, existing, todo>>
      BY <1>5, <2>3, PlanIs
    <3>1. PICK visible \in SUBSET live[z] : \E found, wanted, changes :
            /\ found = TargetChain(chain, owned, visible)
            /\ changes = ZoneChanges(found, wanted)
            /\ existing'[z] = found
            /\ todo'[z] = PlanChain(chain, MetaValues(runs), found, wanted, changes)
      BY <1>5, <3>0, PlanIs
    <3>2. PICK found, wanted, changes :
            /\ found = TargetChain(chain, owned, visible)
            /\ changes = ZoneChanges(found, wanted)
            /\ existing'[z] = found
            /\ todo'[z] = PlanChain(chain, MetaValues(runs), found, wanted, changes)
      BY <3>1
    <3>3. found \subseteq live[z]
      <4>1. Len(chain) \in Nat /\ 0 \in 0 .. Len(chain) /\ Len(chain) \in 0 .. Len(chain)
        BY ChainIs DEF Types
      <4>2. TargetStages(chain, owned, visible)[Len(chain)]
              \subseteq TargetStages(chain, owned, visible)[0]
        BY <4>1, TargetShrinks DEF Types
      <4>3. TargetStages(chain, owned, visible)[0] = visible
        BY <4>1, TargetStagesAre
      <4> QED  BY <3>2, <4>2, <4>3 DEF TargetChain
    <3>4. todo'[z] \subseteq ZoneChanges(found, wanted)
      BY <3>2, PlanWithin DEF Types
    <3>5. \A c \in todo'[z] : c.kind = "Delete" => c.record \in live[z]
      BY <3>3, <3>4, ChangeIs
    <3>6. IsKeyed(existing'[z])
      BY <1>0, <3>2, <3>3 DEF IsKeyed
    <3>7. \A r \in existing'[z] : ComesFrom(z, r) /\ MarkKnown(z, r)
      BY <1>0, <3>2, <3>3
    <3> QED  BY <1>0, <1>a, <2>1, <3>5, <3>6, <3>7
  <2> QED  BY <2>2, <2>3
<1>6. ASSUME NEW y \in ZoneSet, ApplyNext(y) PROVE Goal
  <2>1. source' = source /\ managed' = managed /\ existing' = existing
    BY <1>6, ApplyIs
  <2>2. CASE y # z
    BY <1>6, <1>b, <2>1, <2>2, ApplyIs
  <2>3. CASE y = z
    <3>1. PICK c \in todo[z] : live'[z] = ApplyChange(live[z], c) /\ todo'[z] = todo[z] \ {c}
      BY <1>6, <2>3, ApplyIs
    <3>2. todo[z] \subseteq ZoneChanges(existing[z], desired[z])
      BY DEF Made
    <3>3. \/ live'[z] = Discard(live[z], c.record)
          \/ /\ live'[z] = WithRecord(live[z], c.record)
             /\ c.kind # "Delete"
      BY <3>1 DEF ApplyChange
    <3>4. IsKeyed(live'[z])
      BY <1>0, <3>3 DEF IsKeyed, WithRecord, Discard, SameRecord
    <3>5. c.kind # "Delete" => ComesFrom(z, c.record) /\ MarkKnown(z, c.record)
      <4>1. c.kind # "Delete" => c.record \in desired[z]
        BY <3>1, <3>2, ChangeIs
      <4>2. \A q \in desired[z] : Ours(chain, q, source[z])
        BY DEF Made
      <4> QED  BY <4>1, <4>2, OursComesFrom
    <3>6. \A r \in live'[z] : ComesFrom(z, r) /\ MarkKnown(z, r)
      BY <1>0, <3>3, <3>5 DEF WithRecord, Discard
    <3>7. ASSUME NEW d \in todo'[z], d.kind = "Delete", d.record \notin Others(chain, z)
          PROVE  d.record \in live'[z]
      <4>1. d \in todo[z] /\ d # c /\ d.record \in live[z]
        BY <1>0, <3>1, <3>7
      <4>2. ~SameRecord(d.record, c.record)
        BY <1>0, <3>2, <3>7, <4>1, KeyedChanges
      <4> QED  BY <3>3, <4>1, <4>2 DEF WithRecord, Discard
    <3> QED  BY <1>0, <1>a, <2>1, <3>4, <3>6, <3>7
  <2> QED  BY <2>2, <2>3
<1>7. ASSUME NEW y \in ZoneSet, EditLive(y) PROVE Goal
  <2>1. source' = source /\ managed' = managed /\ existing' = existing /\ todo' = todo
    BY <1>7, EditIs
  <2>2. CASE y # z
    BY <1>7, <1>b, <2>1, <2>2, EditIs
  <2>3. CASE y = z
    <3>1. PICK r \in Others(chain, z) :
            \/ ~HasSame(live[z], r) /\ live'[z] = live[z] \cup {r}
            \/ r \in live[z] /\ live'[z] = live[z] \ {r}
      BY <1>7, <2>3, EditIs
    <3>2. IsKeyed(live'[z])
      BY <1>0, <3>1 DEF IsKeyed, HasSame, SameRecord
    <3>3. ComesFrom(z, r) /\ MarkKnown(z, r)
      BY OtherComesFrom
    <3>4. \A c \in todo[z] : c.record \notin Others(chain, z) =>
            (c.record \in live[z] => c.record \in live'[z])
      BY <3>1
    <3>5. \A q \in live'[z] : ComesFrom(z, q) /\ MarkKnown(z, q)
      BY <1>0, <3>1, <3>3
    <3> QED  BY <1>0, <1>a, <2>1, <3>2, <3>4, <3>5
  <2> QED  BY <2>2, <2>3
<1> HIDE DEF Goal
<1>8. Goal
  BY <1>1, <1>2, <1>3, <1>4, <1>5, <1>6, <1>7, StepIs
<1> QED  BY <1>8 DEF Goal

LEMMA HeldInvariant == Spec => [](Types /\ Made /\ Held)
BY TypesInit, TypesStep, MadeInit, MadeStep, HeldInit, HeldStep, PTL DEF Spec

-----------------------------------------------------------------------------
(* What the ownership filter has let pass of a plan.                        *)

IsOwned(c, z) ==
  \/ IsOwnership(c.record)
  \/ HasSame(Owned(existing[z], desired[z]), c.record)
  \/ c.record.name = <<"octodns-meta">>

Checked ==
  \A z \in ZoneSet : \A j \in DOMAIN chain : chain[j].class = "ownership" =>
    /\ \A c \in todo[z] : IsOwned(c, z)
    /\ todo[z] # {} => ~TakesOver(chain[j], existing[z], desired[z])

LEMMA CheckedStep == Types /\ Checked /\ [Next]_vars => Checked'
<1> SUFFICES ASSUME Types, Checked, [Next]_vars, NEW z \in ZoneSet,
                    NEW j \in DOMAIN chain, chain[j].class = "ownership"
             PROVE  /\ \A c \in todo'[z] : IsOwned(c, z)'
                    /\ todo'[z] # {} => ~TakesOver(chain[j], existing'[z], desired'[z])
  BY SameChain DEF Checked
<1> DEFINE Goal == /\ \A c \in todo'[z] : IsOwned(c, z)'
                   /\ todo'[z] # {} => ~TakesOver(chain[j], existing'[z], desired'[z])
<1>0. /\ \A c \in todo[z] : IsOwned(c, z)
      /\ todo[z] # {} => ~TakesOver(chain[j], existing[z], desired[z])
  BY DEF Checked
<1>a. ASSUME todo'[z] = {} PROVE Goal
  BY <1>a
<1>b. ASSUME todo'[z] \subseteq todo[z], existing'[z] = existing[z], desired'[z] = desired[z]
      PROVE  Goal
  BY <1>0, <1>b DEF IsOwned
<1>1. ASSUME StartRun PROVE Goal
  BY <1>1, <1>a, StartIs
<1>2. ASSUME Ends PROVE Goal
  BY <1>2, <1>a, EndIs
<1>3. ASSUME UNCHANGED vars PROVE Goal
  BY <1>3, <1>b DEF vars, runVars
<1>4. ASSUME NEW y \in ZoneSet, ProcessSource(y) PROVE Goal
  <2>1. CASE y = z
    <3>1. todo'[z] = {}
      BY <1>4, <2>1, ProcessIs DEF Types
    <3> QED  BY <1>a, <3>1
  <2>2. CASE y # z
    BY <1>4, <1>b, <2>2, ProcessIs
  <2> QED  BY <2>1, <2>2
<1>5. ASSUME NEW y \in ZoneSet, PlanZone(y) PROVE Goal
  <2>1. CASE UNCHANGED <<desired, existing, todo>> \/ y # z
    <3>1. desired'[z] = desired[z] /\ existing'[z] = existing[z] /\ todo'[z] = todo[z]
      BY <1>5, <2>1, PlanIs
    <3> QED  BY <1>b, <3>1
  <2>2. CASE ~UNCHANGED <<desired, existing, todo>> /\ y = z
    <3>1. PICK found, wanted, changes :
            /\ ~PlanChainRaises(chain, MetaValues(runs), found, wanted, changes)
            /\ desired'[z] = wanted /\ existing'[z] = found
            /\ todo'[z] = PlanChain(chain, MetaValues(runs), found, wanted, changes)
      BY <1>5, <2>2, PlanIs
    <3>2. /\ todo'[z] \subseteq OwnedChanges(found, wanted, changes)
          /\ todo'[z] # {} => ~TakesOver(chain[j], found, wanted)
      BY <3>1, PlanOwned DEF Types
    <3>3. \A c \in todo'[z] : IsOwned(c, z)'
      BY <3>1, <3>2 DEF OwnedChanges, IsOwned
    <3> QED  BY <3>1, <3>2, <3>3
  <2> QED  BY <2>1, <2>2
<1>6. ASSUME NEW y \in ZoneSet, ApplyNext(y) PROVE Goal
  <2>1. UNCHANGED <<desired, existing>> /\ todo'[z] \subseteq todo[z]
    BY <1>6, ApplyIs
  <2> QED  BY <1>b, <2>1
<1>7. ASSUME NEW y \in ZoneSet, EditLive(y) PROVE Goal
  BY <1>7, <1>b, EditIs
<1> HIDE DEF Goal
<1>8. Goal
  BY <1>1, <1>2, <1>3, <1>4, <1>5, <1>6, <1>7, StepIs
<1> QED  BY <1>8 DEF Goal

LEMMA CheckedInvariant == Spec => [](Types /\ Made /\ Held /\ Checked)
<1>1. Init => Checked
  BY DEF Init, Checked
<1> QED  BY <1>1, CheckedStep, TypesStep, HeldInvariant, PTL DEF Spec

LEMMA SourceNames ==
  ASSUME MarksAreOwn, Types, NEW z \in ZoneSet, NEW s \in UNION Sources(chain, z),
         NEW m, SameRecord(m, Marker(s))
  PROVE  IsOwnershipName(m) /\ IsRecord(s) /\ Decoded(m) = [name |-> s.name, type |-> s.type]
<1>1. /\ chain \in Chains /\ IsRecord(s)
      /\ \A i \in DOMAIN s.name : s.name[i] # "_wildcard"
  BY RecordsAssumption DEF Types, MarksAreOwn
<1>2. Decoded(m) = [name |-> s.name, type |-> s.type]
  BY <1>1, DecodedMarker
<1>3. IsOwnershipName(m)
  BY <1>1, MarkerIs DEF IsOwnership, IsOwnershipName, SameRecord
<1> QED  BY <1>1, <1>2, <1>3

(* The change that takes a mark of octoDNS's away, or replaces it.          *)
LEMMA MarkChanged ==
  ASSUME MarksAreOwn, Types, Made, Held, NEW z \in ZoneSet, NEW r \in live[z],
         NEW c \in todo[z], SameRecord(r, c.record), IsOwnership(c.record)
  PROVE  IsOwnership(r) \/ (IsOwnershipName(r) /\ HasSame(source[z], Decoded(r)))
<1>1. CASE c.kind = "Delete"
  <2>1. c.record \notin Others(chain, z)
    BY DEF MarksAreOwn, Types
  <2>2. c.record \in live[z] /\ IsKeyed(live[z])
    BY <1>1, <2>1 DEF Held
  <2>3. r = c.record
    BY <2>2 DEF IsKeyed
  <2> QED  BY <2>3
<1>2. CASE c.kind # "Delete"
  <2>1. c.record \in desired[z]
    BY <1>2, ChangeIs DEF Made
  <2>2. Ours(chain, c.record, source[z]) /\ source[z] \in SUBSET UNION Sources(chain, z)
    BY <2>1 DEF Made, Types
  <2>3. PICK s \in source[z] : SameRecord(c.record, Marker(s))
    BY <2>2, OursMarks DEF IsOwnership
  <2>4. SameRecord(r, Marker(s))
    BY <2>3 DEF SameRecord
  <2>5. IsOwnershipName(r) /\ Decoded(r) = [name |-> s.name, type |-> s.type]
    BY <2>2, <2>4, SourceNames
  <2> QED  BY <2>5 DEF HasSame, SameRecord
<1> QED  BY <1>1, <1>2

(* The mark of octoDNS's that a change rests on, and what it is about.      *)
LEMMA MarkOf ==
  ASSUME MarksAreOwn, Types, Made, Held, NEW z \in ZoneSet,
         NEW r, HasSame(Owned(existing[z], desired[z]), r)
  PROVE  \E s \in UNION Sources(chain, z) :
           /\ SameRecord(s, r)
           /\ s \in source[z] \/ (HasSame(existing[z], Marker(r)) /\ IsManaged(z, s))
<1>1. PICK m \in existing[z] \cup desired[z] : IsOwnership(m) /\ SameRecord(Decoded(m), r)
  BY DEF HasSame, Owned
<1>2. CASE m \in desired[z]
  <2>1. Ours(chain, m, source[z]) /\ source[z] \in SUBSET UNION Sources(chain, z)
    BY <1>2 DEF Made, Types
  <2>2. PICK s \in source[z] : SameRecord(m, Marker(s))
    BY <1>1, <2>1, OursMarks DEF IsOwnership
  <2>3. Decoded(m) = [name |-> s.name, type |-> s.type]
    BY <2>1, <2>2, SourceNames
  <2> QED  BY <1>1, <2>1, <2>2, <2>3 DEF SameRecord
<1>3. CASE m \in existing[z]
  <2>1. PICK s \in UNION Sources(chain, z) : SameRecord(m, Marker(s)) /\ IsManaged(z, s)
    BY <1>1, <1>3 DEF Held, MarkKnown
  <2>2. Decoded(m) = [name |-> s.name, type |-> s.type]
    BY <2>1, SourceNames
  <2>3. SameRecord(s, r) /\ SameRecord(r, s)
    BY <1>1, <2>2 DEF SameRecord
  <2>4. HasSame(existing[z], Marker(r))
    BY <1>3, <2>1, <2>3, SameMarker DEF HasSame
  <2> QED  BY <2>1, <2>3, <2>4
<1> QED  BY <1>1, <1>2, <1>3

LEMMA LostIsManaged ==
  ASSUME MarksAreOwn, Types, Made, Held, NEW z \in ZoneSet,
         NEW r \in live[z], NEW c \in todo[z], SameRecord(r, c.record), IsOwned(c, z)
  PROVE  IsOurs(z, r, managed[z])
<1>1. CASE IsOwnership(c.record)
  BY <1>1, MarkChanged DEF IsOurs
<1>2. CASE HasSame(Owned(existing[z], desired[z]), c.record)
  <2>1. HasSame(Owned(existing[z], desired[z]), r)
    BY <1>2 DEF HasSame, SameRecord
  <2>2. PICK s \in UNION Sources(chain, z) :
          /\ SameRecord(s, r)
          /\ s \in source[z] \/ (HasSame(existing[z], Marker(r)) /\ IsManaged(z, s))
    BY <2>1, MarkOf
  <2>3. CASE s \in source[z]
    BY <2>2, <2>3 DEF IsOurs, HasSame
  <2>4. CASE HasSame(existing[z], Marker(r)) /\ IsManaged(z, s)
    <3>1. HasSame(managed[z], r)
      BY <2>2, <2>4 DEF IsManaged, HasSame, SameRecord
    <3> QED  BY <2>4, <3>1 DEF IsOurs
  <2> QED  BY <2>2, <2>3, <2>4
<1>3. CASE c.record.name = <<"octodns-meta">>
  BY <1>3 DEF IsOurs, SameRecord
<1> QED  BY <1>1, <1>2, <1>3 DEF IsOwned

(* With the OwnershipProcessor the target loses no record but those that    *)
(* the sources of the run have, the markers, and those that a marker was    *)
(* found for and that the sources have had in an earlier run, be it as ones *)
(* that are not for this target: in any chain, and whatever others do to    *)
(* the target meanwhile, as long as the marks are octoDNS's own.            *)
THEOREM OnlyOwnedIsLost ==
  ASSUME MarksAreOwn
  PROVE  Spec => OnlyOwned
<1>1. Types /\ Made /\ Held /\ Checked /\ [Next]_vars =>
        [Has("ownership") =>
           \A z \in ZoneSet : \A r \in live[z] : Loses(z, r) => IsOurs(z, r, managed[z])]_vars
  <2> SUFFICES ASSUME Types, Made, Held, Checked, [Next]_vars, Has("ownership"),
                      NEW z \in ZoneSet, NEW r \in live[z], Loses(z, r)
               PROVE  IsOurs(z, r, managed[z])
    OBVIOUS
  <2>1. PICK c \in todo[z] : SameRecord(r, c.record)
    BY LossIsChange
  <2>2. IsOwned(c, z)
    BY DEF Has, Checked
  <2> QED  BY <2>1, <2>2, LostIsManaged
<1> QED  BY <1>1, CheckedInvariant, PTL DEF Spec, OnlyOwned

-----------------------------------------------------------------------------
(* What somebody else has marked.                                           *)

(* A mark that is not octoDNS's is somebody else's.                         *)
LEMMA ForeignMark ==
  ASSUME MarksAreOwn, MarksOfOthers, Types, Held, NEW z \in ZoneSet, NEW m \in existing[z],
         IsOwnershipName(m), ~IsOwnership(m)
  PROVE  /\ Decoded(m).name # <<"octodns-meta">>
         /\ ~IsOwnershipName([name |-> Decoded(m).name, type |-> Decoded(m).type])
<1>1. chain \in Chains /\ UNION Sources(chain, z) \in SUBSET UNION Sources(chain, z)
  BY DEF Types
<1>2. ~Ours(chain, m, UNION Sources(chain, z))
  BY <1>1, OursMarks
<1>3. m \in Others(chain, z) \cup UNION Lives(chain, z)
  BY <1>2 DEF Held, ComesFrom
<1> QED  BY <1>1, <1>3 DEF MarksOfOthers

LEMMA NotTakenOver ==
  ASSUME MarksOfOthers, Types, Checked, NEW z \in ZoneSet, todo[z] # {}, Has("ownership"),
         NEW m \in existing[z], IsOwnershipName(m), ~IsOwnership(m)
  PROVE  Decoded(m) \notin Owned(existing[z], desired[z])
<1>1. PICK j \in DOMAIN chain : chain[j].class = "ownership"
  BY DEF Has
<1>2. ~chain[j].allow_takeover
  BY <1>1 DEF MarksOfOthers, Types
<1>3. ~TakesOver(chain[j], existing[z], desired[z])
  BY <1>1 DEF Checked
<1> QED  BY <1>2, <1>3 DEF TakesOver

LEMMA LostIsNotForeign ==
  ASSUME MarksAreOwn, MarksOfOthers, Types, Made, Held, Checked, Has("ownership"),
         NEW z \in ZoneSet, NEW r, NEW c \in todo[z], SameRecord(r, c.record),
         NEW m \in existing[z], IsOwnershipName(m), ~IsOwnership(m)
  PROVE  m # r /\ ~SameRecord(Decoded(m), r)
<1> DEFINE D == Decoded(m)
           O == Owned(existing[z], desired[z])
<1>1. IsOwned(c, z)
  BY DEF Checked, Has
<1>2. D \notin O
  BY NotTakenOver
<1>3. D.name # <<"octodns-meta">> /\ ~IsOwnershipName([name |-> D.name, type |-> D.type])
  BY ForeignMark
<1>4. D = [name |-> D.name, type |-> D.type] /\ \A o \in O : o = [name |-> o.name, type |-> o.type]
  BY DEF Decoded, Owned
<1>5. ASSUME SameRecord(D, r) PROVE FALSE
  <2> HIDE DEF D, O
  <2>1. D.name = c.record.name /\ D.type = c.record.type
    BY <1>5 DEF SameRecord
  <2>2. ~IsOwnership(c.record)
    BY <1>3, <2>1 DEF IsOwnership, IsOwnershipName
  <2>3. ~HasSame(O, c.record)
    BY <1>2, <1>4, <2>1 DEF HasSame, SameRecord
  <2> QED  BY <1>1, <1>3, <2>1, <2>2, <2>3 DEF IsOwned, O
<1>6. ASSUME m = r PROVE FALSE
  <2>1. CASE IsOwnership(c.record) /\ c.kind = "Delete"
    <3>1. c.record \in existing[z] /\ IsKeyed(existing[z])
      BY <2>1, ChangeIs DEF Made, Held
    <3>2. m = c.record
      BY <1>6, <3>1 DEF IsKeyed
    <3> QED  BY <2>1, <3>2
  <2>2. CASE IsOwnership(c.record) /\ c.kind # "Delete"
    <3>1. c.record \in desired[z]
      BY <2>2, ChangeIs DEF Made
    <3>2. Decoded(c.record) \in O
      BY <2>2, <3>1 DEF Owned
    <3>3. Decoded(c.record) = D
      BY <1>6 DEF Decoded, SameRecord
    <3> QED  BY <1>2, <3>2, <3>3
  <2>3. CASE HasSame(O, c.record)
    <3>1. HasSame(O, r)
      BY <2>3 DEF HasSame, SameRecord
    <3>2. PICK s \in UNION Sources(chain, z) : SameRecord(s, r)
      BY <3>1, MarkOf
    <3>3. ~IsOwnershipName(s)
      BY DEF MarksAreOwn, Types
    <3> QED  BY <1>6, <3>2, <3>3 DEF SameRecord, IsOwnershipName
  <2>4. CASE c.record.name = <<"octodns-meta">>
    BY <1>6, <2>4 DEF SameRecord, IsOwnershipName
  <2> QED  BY <1>1, <2>1, <2>2, <2>3, <2>4 DEF IsOwned
<1> QED  BY <1>5, <1>6

(* With an OwnershipProcessor that takes nothing over, a record that        *)
(* somebody else has marked as theirs is not touched, nor is the mark.      *)
THEOREM ForeignIsKept ==
  ASSUME MarksAreOwn, MarksOfOthers
  PROVE  Spec => ForeignKept
<1>1. Types /\ Made /\ Held /\ Checked /\ [Next]_vars =>
        [Has("ownership") =>
           \A z \in ZoneSet : \A r \in live[z] : Loses(z, r) => ~IsForeign(z, r)]_vars
  <2> SUFFICES ASSUME Types, Made, Held, Checked, [Next]_vars, Has("ownership"),
                      NEW z \in ZoneSet, NEW r \in live[z], Loses(z, r), IsForeign(z, r)
               PROVE  FALSE
    OBVIOUS
  <2>1. PICK c \in todo[z] : SameRecord(r, c.record)
    BY LossIsChange
  <2>2. PICK m \in existing[z] :
          /\ IsOwnershipName(m) /\ ~IsOwnership(m)
          /\ m = r \/ SameRecord(Decoded(m), r)
    BY DEF IsForeign
  <2> QED  BY <2>1, <2>2, LostIsNotForeign
<1> QED  BY <1>1, CheckedInvariant, PTL DEF Spec, ForeignKept

-----------------------------------------------------------------------------
(* Challenges                                                               *)

LEMMA SameChallenge ==
  ASSUME NEW r, NEW s, SameRecord(r, s), IsChallenge(r)
  PROVE  IsChallenge(s)
BY DEF SameRecord, IsChallenge

(* Neither a mark nor the meta record is a challenge.                       *)
LEMMA OurChallenges ==
  ASSUME NEW c \in Chains, NEW z \in ZoneSet, NEW S \in SUBSET UNION Sources(c, z),
         NEW q, IsChallenge(q)
  PROVE  Ours(c, q, S) => HasSame(S, q)
<1>1. OfSource(q, S) => HasSame(S, q)
  <2>1. "_acme-challenge" # "_owner"
    OBVIOUS
  <2>2. ~IsOwnership(q)
    BY <2>1 DEF IsOwnership, IsOwnershipName, IsChallenge
  <2> QED  BY <2>2 DEF OfSource, HasSame, SameRecord
<1>2. ~IsMeta(c, q)
  BY ChainsAssumption DEF IsMeta, IsChallenge
<1> QED  BY <1>1, <1>2 DEF Ours

(* What the AcmeManagingProcessor remembers is some zone's in this run, and *)
(* what is deleted is octoDNS's by what it says, or of a name of a zone's    *)
(* sources.                                                                 *)
IsAnswered(c) ==
  c.kind = "Delete" /\ IsChallenge(c.record) =>
    Managing \in c.record.value \/ \E y \in ZoneSet : HasSame(source[y], c.record)
Answered ==
  /\ \A o \in owned : IsChallenge(o) /\ \E y \in ZoneSet : HasSame(source[y], o)
  /\ Has("acme") => \A z \in ZoneSet : \A c \in todo[z] : IsAnswered(c)

LEMMA SeenIs ==
  ASSUME Types, NEW z \in ZoneSet, NEW o \in Seen(chain, source[z])
  PROVE  IsChallenge(o) /\ HasSame(source[z], o)
<1>1. /\ chain \in Chains /\ \A s \in source[z] : IsRecord(s)
      /\ source[z] \in SUBSET UNION Sources(chain, z)
  BY RecordsAssumption DEF Types
<1>2. DOMAIN chain = 1 .. Len(chain) /\ Len(chain) \in Nat
  BY <1>1, ChainIs
<1>3. PICK i \in DOMAIN chain :
        o \in SourceStages(chain, source[z])[i - 1] /\ IsChallenge(o)
  BY DEF Seen
<1>4. i - 1 \in 0 .. Len(chain)
  BY <1>2
<1>5. OfSource(o, source[z])
  BY <1>1, <1>3, <1>4, SourceRecords
<1> QED  BY <1>1, <1>3, <1>5, OurChallenges DEF Ours

LEMMA TargetKeeps ==
  ASSUME NEW c \in Chains, NEW j \in DOMAIN c, c[j].class = "acme", NEW seen, NEW zone
  PROVE  \A q \in TargetChain(c, seen, zone) : q \in zone /\ KeepsChallenge(q, seen)
<1> DEFINE at == TargetStages(c, seen, zone)
           n == Len(c)
<1>1. n \in Nat /\ DOMAIN c = 1 .. n
  BY ChainIs
<1>2. at[0] = zone /\ at[j] = TargetZone(c[j], seen, at[j - 1])
  BY <1>1, TargetStagesAre
<1>3. at[n] \subseteq at[j] /\ at[n] \subseteq at[0]
  <2>1. 0 \in 0 .. n /\ j \in 0 .. n /\ n \in j .. n /\ n \in 0 .. n
    BY <1>1
  <2> QED  BY <2>1, TargetShrinks
<1>4. TargetChain(c, seen, zone) = at[n]
  BY DEF TargetChain
<1> HIDE DEF at, n
<1>5. \A q \in at[j] : KeepsChallenge(q, seen)
  BY <1>2 DEF TargetZone
<1> QED  BY <1>2, <1>3, <1>4, <1>5

LEMMA FoundIsAnswered ==
  ASSUME Answered, NEW q, KeepsChallenge(q, owned), IsChallenge(q)
  PROVE  Managing \in q.value \/ \E y \in ZoneSet : HasSame(source[y], q)
<1> SUFFICES ASSUME Managing \notin q.value
             PROVE  \E y \in ZoneSet : HasSame(source[y], q)
  OBVIOUS
<1>1. PICK o \in owned : SameRecord(o, q)
  BY DEF KeepsChallenge, HasSame
<1>2. PICK y \in ZoneSet : HasSame(source[y], o)
  BY DEF Answered
<1> QED  BY <1>1, <1>2 DEF HasSame, SameRecord

LEMMA AnsweredStep == Types /\ Answered /\ [Next]_vars => Answered'
<1> SUFFICES ASSUME Types, Answered, [Next]_vars PROVE Answered'
  OBVIOUS
<1>1. chain' = chain
  BY SameChain
<1>2. ASSUME NEW o \in owned'
      PROVE  IsChallenge(o) /\ \E y \in ZoneSet : HasSame(source'[y], o)
  <2> DEFINE Goal == IsChallenge(o) /\ \E y \in ZoneSet : HasSame(source'[y], o)
  <2>0. ASSUME owned' = owned, source' = source PROVE Goal
    BY <1>2, <2>0 DEF Answered
  <2>1. ASSUME StartRun PROVE Goal
    BY <1>2, <2>1, StartIs
  <2>2. ASSUME Ends PROVE Goal
    BY <1>2, <2>2, EndIs
  <2>3. ASSUME UNCHANGED vars PROVE Goal
    BY <2>0, <2>3 DEF vars, runVars
  <2>4. ASSUME NEW y \in ZoneSet, ProcessSource(y) PROVE Goal
    <3>1. source' = source /\ (o \in owned \/ o \in Seen(chain, source[y]))
      BY <1>2, <2>4, ProcessIs
    <3>2. CASE o \in owned
      BY <3>1, <3>2 DEF Answered
    <3>3. CASE o \in Seen(chain, source[y])
      BY <3>1, <3>3, SeenIs
    <3> QED  BY <3>1, <3>2, <3>3
  <2>5. ASSUME NEW y \in ZoneSet, PlanZone(y) PROVE Goal
    BY <2>0, <2>5, PlanIs
  <2>6. ASSUME NEW y \in ZoneSet, ApplyNext(y) PROVE Goal
    BY <2>0, <2>6, ApplyIs
  <2>7. ASSUME NEW y \in ZoneSet, EditLive(y) PROVE Goal
    BY <2>0, <2>7, EditIs
  <2> HIDE DEF Goal
  <2>8. Goal
    BY <2>1, <2>2, <2>3, <2>4, <2>5, <2>6, <2>7, StepIs
  <2> QED  BY <2>8 DEF Goal
<1>3. ASSUME Has("acme"), NEW z \in ZoneSet PROVE \A c \in todo'[z] : IsAnswered(c)'
  <2> DEFINE Goal == \A c \in todo'[z] : IsAnswered(c)'
  <2>a. ASSUME todo'[z] = {} PROVE Goal
    BY <2>a
  <2>b. ASSUME todo'[z] \subseteq todo[z], source' = source PROVE Goal
    BY <1>3, <2>b DEF Answered, IsAnswered
  <2>1. ASSUME StartRun PROVE Goal
    BY <2>1, <2>a, StartIs
  <2>2. ASSUME Ends PROVE Goal
    BY <2>2, <2>a, EndIs
  <2>3. ASSUME UNCHANGED vars PROVE Goal
    BY <2>3, <2>b DEF vars, runVars
  <2>4. ASSUME NEW y \in ZoneSet, ProcessSource(y) PROVE Goal
    BY <2>4, <2>b, ProcessIs
  <2>5. ASSUME NEW y \in ZoneSet, PlanZone(y) PROVE Goal
    <3>1. CASE UNCHANGED <<desired, existing, todo>> \/ y # z
      <4>1. todo'[z] = todo[z] /\ source' = source
        BY <2>5, <3>1, PlanIs
      <4> QED  BY <2>b, <4>1
    <3>2. CASE ~UNCHANGED <<desired, existing, todo>> /\ y = z
      <4>1. PICK visible \in SUBSET live[z] : \E found, wanted, changes :
              /\ found = TargetChain(chain, owned, visible)
              /\ changes = ZoneChanges(found, wanted)
              /\ todo'[z] = PlanChain(chain, MetaValues(runs), found, wanted, changes)
        BY <2>5, <3>2, PlanIs
      <4>2. PICK found, wanted, changes :
              /\ found = TargetChain(chain, owned, visible)
              /\ changes = ZoneChanges(found, wanted)
              /\ todo'[z] = PlanChain(chain, MetaValues(runs), found, wanted, changes)
        BY <4>1
      <4>3. PICK j \in DOMAIN chain : chain[j].class = "acme"
        BY <1>3 DEF Has
      <4>4. \A q \in found : q \in live[z] /\ KeepsChallenge(q, owned)
        BY <4>2, <4>3, TargetKeeps DEF Types
      <4>5. todo'[z] \subseteq ZoneChanges(found, wanted)
        BY <4>2, PlanWithin DEF Types
      <4>6. \A c \in todo'[z] : c.kind = "Delete" => c.record \in found
        BY <4>5, ChangeIs
      <4>7. source' = source
        BY <2>5, PlanIs
      <4> QED  BY <4>4, <4>6, <4>7, FoundIsAnswered DEF IsAnswered
    <3> QED  BY <3>1, <3>2
  <2>6. ASSUME NEW y \in ZoneSet, ApplyNext(y) PROVE Goal
    <3>1. source' = source /\ todo'[z] \subseteq todo[z]
      BY <2>6, ApplyIs
    <3> QED  BY <2>b, <3>1
  <2>7. ASSUME NEW y \in ZoneSet, EditLive(y) PROVE Goal
    BY <2>7, <2>b, EditIs
  <2> HIDE DEF Goal
  <2>8. Goal
    BY <2>1, <2>2, <2>3, <2>4, <2>5, <2>6, <2>7, StepIs
  <2> QED  BY <2>8 DEF Goal
<1> QED  BY <1>1, <1>2, <1>3 DEF Answered, Has

(* Challenges that others answer are left to them: only one that octoDNS    *)
(* has made itself is removed or changed, or one of a name that the sources *)
(* of some zone of the run have.  All zones of a run share the              *)
(* AcmeManagingProcessor and their tasks are interleaved; two zones may     *)
(* have challenges of the same name.                                        *)
THEOREM ChallengesAreKept ==
  ASSUME ChallengesOfOthers
  PROVE  Spec => ChallengesKept
<1>1. Init => Answered
  BY DEF Init, Answered
<1>2. Types /\ Made /\ Held /\ Answered /\ [Next]_vars =>
        [Has("acme") =>
           \A z \in ZoneSet : \A r \in live[z] : IsChallenge(r) /\ Loses(z, r) =>
             Managing \in r.value \/ \E y \in ZoneSet : HasSame(source[y], r)]_vars
  <2> SUFFICES ASSUME Types, Made, Held, Answered, [Next]_vars, Has("acme"),
                      NEW z \in ZoneSet, NEW r \in live[z], IsChallenge(r), Loses(z, r)
               PROVE  Managing \in r.value \/ \E y \in ZoneSet : HasSame(source[y], r)
    OBVIOUS
  <2>1. PICK c \in todo[z] : SameRecord(r, c.record)
    BY LossIsChange
  <2>2. /\ IsChallenge(c.record)
        /\ \A y \in ZoneSet : HasSame(source[y], c.record) => HasSame(source[y], r)
    BY <2>1, SameChallenge DEF HasSame, SameRecord
  <2>3. CASE c.kind # "Delete"
    <3>1. Ours(chain, c.record, source[z])
      BY <2>3, ChangeIs DEF Made
    <3>2. chain \in Chains /\ source[z] \in SUBSET UNION Sources(chain, z)
      BY DEF Types
    <3> QED  BY <2>2, <3>1, <3>2, OurChallenges
  <2>4. CASE c.kind = "Delete" /\ Managing \in c.record.value
    <3>1. c.record \notin Others(chain, z)
      BY <2>2, <2>4 DEF ChallengesOfOthers, Types
    <3>2. c.record \in live[z] /\ IsKeyed(live[z])
      BY <2>4, <3>1 DEF Held
    <3>3. r = c.record
      BY <2>1, <3>2 DEF IsKeyed
    <3> QED  BY <2>4, <3>3
  <2>5. IsAnswered(c)
    BY DEF Answered
  <2> QED  BY <2>2, <2>3, <2>4, <2>5 DEF IsAnswered
<1> QED  BY <1>1, <1>2, HeldInvariant, AnsweredStep, PTL DEF Spec, ChallengesKept

-----------------------------------------------------------------------------
(* A run that follows another: what there is to plan for a zone when the    *)
(* sources are the same and the target has what was planned for it.         *)

(* The processors see the records of the target one by one.                 *)
LetsPass(p, seen, r) == r \in TargetZone(p, seen, {r})

LEMMA TargetOneByOne ==
  ASSUME NEW c \in Chains, NEW seen, NEW zone
  PROVE  TargetChain(c, seen, zone) = {r \in zone : \A j \in DOMAIN c : LetsPass(c[j], seen, r)}
<1> DEFINE at == TargetStages(c, seen, zone)
           n == Len(c)
           T == {i \in 0 .. n : at[i] = {r \in zone : \A j \in 1 .. i : LetsPass(c[j], seen, r)}}
<1>1. n \in Nat /\ DOMAIN c = 1 .. n
  BY ChainIs
<1>2. at[0] = zone /\ \A i \in 1 .. n : at[i] = TargetZone(c[i], seen, at[i - 1])
  BY <1>1, TargetStagesAre
<1>3. TargetChain(c, seen, zone) = at[n]
  BY DEF TargetChain
<1> HIDE DEF at, n
<1>4. 0 \in T
  BY <1>1, <1>2
<1>5. ASSUME NEW i \in 1 .. n, i - 1 \in T PROVE i \in T
  <2>1. \A r : r \in TargetZone(c[i], seen, at[i - 1]) <=> r \in at[i - 1] /\ LetsPass(c[i], seen, r)
    BY DEF LetsPass, TargetZone, Filtered, RootNsIn
  <2>2. at[i] = {r \in at[i - 1] : LetsPass(c[i], seen, r)}
    BY <1>2, <2>1, TargetStep
  <2>3. at[i - 1] = {r \in zone : \A j \in 1 .. i - 1 : LetsPass(c[j], seen, r)}
    BY <1>5
  <2>4. \A j : j \in 1 .. i <=> j \in 1 .. i - 1 \/ j = i
    BY <1>1
  <2>5. at[i] = {r \in zone : \A j \in 1 .. i : LetsPass(c[j], seen, r)}
    BY <2>2, <2>3, <2>4
  <2> QED  BY <1>1, <2>5
<1> HIDE DEF T
<1>6. n \in T
  <2>1. \A i \in 0 .. n : i \in T
    BY <1>1, <1>4, <1>5, Stepwise
  <2> QED  BY <1>1, <2>1
<1> QED  BY <1>1, <1>3, <1>6 DEF T

(* What a source hook makes of a zone has one record of a name and type.    *)
LEMMA MarkedKeyed ==
  ASSUME NEW S, NEW zone, IsKeyed(zone), \A r \in zone : OfSource(r, S),
         \A s \in S : IsRecord(s) /\ \A i \in DOMAIN s.name : s.name[i] # "_wildcard"
  PROVE  IsKeyed(Marked(zone))
<1>1. ASSUME NEW r \in zone, ~IsOwnership(r), NEW q \in zone, ~IsOwnership(q),
             SameRecord(Marker(r), Marker(q))
      PROVE  Marker(r) = Marker(q)
  <2>1. PICK s \in S : SameRecord(r, s)
    BY <1>1 DEF OfSource
  <2>2. PICK t \in S : SameRecord(q, t)
    BY <1>1 DEF OfSource
  <2>3. Marker(r) = Marker(s) /\ Marker(q) = Marker(t)
    BY <2>1, <2>2, SameMarker
  <2>4. Decoded(Marker(r)) = [name |-> s.name, type |-> s.type]
    BY <2>3, DecodedMarker DEF SameRecord
  <2>5. Decoded(Marker(r)) = [name |-> t.name, type |-> t.type]
    BY <1>1, <2>3, DecodedMarker
  <2>6. SameRecord(s, t)
    BY <2>4, <2>5 DEF SameRecord
  <2> QED  BY <2>3, <2>6, SameMarker
<1>2. \A m, n \in Markers(zone) : SameRecord(m, n) => m = n
  BY <1>1 DEF Markers
<1> QED  BY <1>2 DEF Marked, IsKeyed, HasSame, SameRecord

LEMMA SourceKeyedStep ==
  ASSUME NEW p, NEW zone, IsKeyed(zone), \A r \in zone : IsRecord(r), p.class # "ownership"
  PROVE  IsKeyed(SourceZone(p, zone))
<1>1. CASE p.class = "acme"
  <2> DEFINE Is(q, r) == q = IF IsChallenge(r) THEN [r EXCEPT !.value = r.value \cup {Managing}] ELSE r
  <2>1. \A q \in SourceZone(p, zone) : \E r \in zone : Is(q, r)
    BY <1>1 DEF SourceZone, WithManaging
  <2>2. ASSUME NEW r \in zone, NEW q, Is(q, r) PROVE SameRecord(q, r)
    BY <2>2, NewValue DEF SameRecord
  <2>3. ASSUME NEW r, NEW q, NEW t, Is(q, r), Is(t, r) PROVE q = t
    BY <2>3
  <2> HIDE DEF Is
  <2> QED  BY <2>1, <2>2, <2>3 DEF IsKeyed, SameRecord
<1>2. CASE p.class = "clamp"
  <2> DEFINE Is(q, r) == q = [r EXCEPT !.value =
                 {IF v[1] = "ttl" THEN <<"ttl", Clamp(p, v[2])>> ELSE v : v \in r.value}]
  <2>1. \A q \in SourceZone(p, zone) : \E r \in zone : Is(q, r)
    BY <1>2 DEF SourceZone, Clamped
  <2>2. ASSUME NEW r \in zone, NEW q, Is(q, r) PROVE SameRecord(q, r)
    BY <2>2, NewValue
  <2>3. ASSUME NEW r, NEW q, NEW t, Is(q, r), Is(t, r) PROVE q = t
    BY <2>3
  <2> HIDE DEF Is
  <2> QED  BY <2>1, <2>2, <2>3 DEF IsKeyed, SameRecord
<1>3. CASE p.class = "dots"
  <2> DEFINE Is(q, r) == q = IF r.type \in DottedTypes
                             THEN [r EXCEPT !.value = {Dotted(v) : v \in r.value}] ELSE r
  <2>1. \A q \in SourceZone(p, zone) : \E r \in zone : Is(q, r)
    BY <1>3 DEF SourceZone, WithDots
  <2>2. ASSUME NEW r \in zone, NEW q, Is(q, r) PROVE SameRecord(q, r)
    BY <2>2, NewValue DEF SameRecord
  <2>3. ASSUME NEW r, NEW q, NEW t, Is(q, r), Is(t, r) PROVE q = t
    BY <2>3
  <2> HIDE DEF Is
  <2> QED  BY <2>1, <2>2, <2>3 DEF IsKeyed, SameRecord
<1>4. CASE p.class \notin {"acme", "clamp", "dots"}
  <2>1. SourceZone(p, zone) \subseteq zone
    BY <1>4 DEF SourceZone, Filtered
  <2> QED  BY <2>1 DEF IsKeyed
<1> QED  BY <1>1, <1>2, <1>3, <1>4

LEMMA SourceKeyed ==
  ASSUME MarksAreOwn, NEW c \in Chains, NEW z \in ZoneSet, NEW S \in Sources(c, z)
  PROVE  IsKeyed(SourceChain(c, S))
<1> DEFINE at == SourceStages(c, S)
           n == Len(c)
           T == {i \in 0 .. n : IsKeyed(at[i])}
<1>1. n \in Nat
  BY ChainIs
<1>2. at[0] = S /\ \A i \in 1 .. n : at[i] = SourceZone(c[i], at[i - 1])
  BY <1>1, SourceStagesAre
<1>3. \A s \in S : IsRecord(s) /\ \A i \in DOMAIN s.name : s.name[i] # "_wildcard"
  BY RecordsAssumption DEF MarksAreOwn
<1>4. \A i \in 0 .. n : \A r \in at[i] : OfSource(r, S)
  BY <1>3, SourceRecords
<1>5. SourceChain(c, S) = at[n]
  BY DEF SourceChain
<1> HIDE DEF at, n
<1>6. 0 \in T
  BY <1>1, <1>2, KeyedAssumption
<1>7. ASSUME NEW i \in 1 .. n, i - 1 \in T PROVE i \in T
  <2>1. i - 1 \in 0 .. n /\ IsKeyed(at[i - 1]) /\ \A r \in at[i - 1] : OfSource(r, S)
    BY <1>1, <1>4, <1>7
  <2>2. CASE c[i].class = "ownership"
    <3>1. at[i] = Marked(at[i - 1])
      BY <1>2, <2>2 DEF SourceZone
    <3>2. IsKeyed(Marked(at[i - 1]))
      BY <1>3, <2>1, MarkedKeyed
    <3> QED  BY <3>1, <3>2
  <2>3. CASE c[i].class # "ownership"
    <3>1. IsKeyed(SourceZone(c[i], at[i - 1]))
      BY <2>1, <2>3, SourceKeyedStep DEF OfSource
    <3> QED  BY <1>2, <3>1
  <2> QED  BY <2>2, <2>3
<1> HIDE DEF T
<1>8. n \in T
  <2>1. \A i \in 0 .. n : i \in T
    BY <1>1, <1>6, <1>7, Stepwise
  <2> QED  BY <1>1, <2>1
<1> QED  BY <1>5, <1>8 DEF T

-----------------------------------------------------------------------------
(* The meta record apart, what is wanted is the same in all runs.           *)
LEMMA MetaRecordIs ==
  ASSUME NEW c \in Chains, NEW i \in DOMAIN c, c[i].class = "meta", NEW values
  PROVE  /\ IsMeta(c, MetaRecord(c[i], values)) /\ Concerns(MetaRecord(c[i], values))
         /\ MetaRecord(c[i], values).value = values
         /\ MetaRecord(c[i], values).name = c[i].record_name
         /\ MetaRecord(c[i], values).type = "TXT"
         /\ ~IsOwnership(MetaRecord(c[i], values))
<1>1. /\ IsSequence(c[i].record_name) /\ c[i].record_name[1] \notin {"_owner", "_acme-challenge"}
  BY ChainsAssumption
<1>2. /\ MetaRecord(c[i], values).value = values
      /\ MetaRecord(c[i], values).name = c[i].record_name
      /\ MetaRecord(c[i], values).type = "TXT"
      /\ Concerns(MetaRecord(c[i], values))
  BY DEF MetaRecord, Plain, Concerns
<1>3. IsRecord(MetaRecord(c[i], values))
  BY <1>1 DEF IsRecord, MetaRecord, Plain
<1>4. ~IsOwnership(MetaRecord(c[i], values))
  BY <1>1, <1>2 DEF IsOwnership, IsOwnershipName
<1> QED  BY <1>2, <1>3, <1>4 DEF IsMeta

LEMMA SameMeta ==
  ASSUME NEW c, NEW q, IsMeta(c, q), NEW r, IsRecord(r), SameRecord(q, r)
  PROVE  IsMeta(c, r)
BY DEF IsMeta, SameRecord

LEMMA OthersWanted ==
  ASSUME NEW c \in Chains, NEW S, NEW wanted, \A q \in wanted : Ours(c, q, S),
         NEW values, NEW later, NEW q \in BothChain(c, values, wanted), ~IsMeta(c, q)
  PROVE  q \in BothChain(c, later, wanted)
<1> DEFINE at == BothStages(c, values, wanted)
           then == BothStages(c, later, wanted)
           n == Len(c)
           T == {i \in 0 .. n : \A r \in at[i] : ~IsMeta(c, r) => r \in then[i]}
<1>1. n \in Nat /\ DOMAIN c = 1 .. n
  BY ChainIs
<1>2. at[0] = wanted /\ \A i \in 1 .. n : at[i] = BothZones(c[i], values, at[i - 1])
  BY <1>1, BothStagesAre
<1>3. then[0] = wanted /\ \A i \in 1 .. n : then[i] = BothZones(c[i], later, then[i - 1])
  BY <1>1, BothStagesAre
<1>4. \A i \in 0 .. n : \A r \in at[i] : IsRecord(r)
  <2>1. \A i \in 0 .. n : \A r \in at[i] : Ours(c, r, S)
    BY BothRecords
  <2> QED  BY <2>1, OursAreRecords
<1>5. BothChain(c, values, wanted) = at[n] /\ BothChain(c, later, wanted) = then[n]
  BY DEF BothChain
<1> HIDE DEF at, then, n
<1>6. 0 \in T
  BY <1>1, <1>2, <1>3
<1>7. ASSUME NEW i \in 1 .. n, i - 1 \in T PROVE i \in T
  <2> SUFFICES ASSUME NEW r \in at[i], ~IsMeta(c, r) PROVE r \in then[i]
    BY <1>1
  <2>0. /\ i - 1 \in 0 .. n /\ i \in DOMAIN c
        /\ \A s \in at[i - 1] : IsRecord(s) /\ (~IsMeta(c, s) => s \in then[i - 1])
    BY <1>1, <1>4, <1>7
  <2>1. CASE c[i].class = "meta"
    <3>1. r # MetaRecord(c[i], values)
      BY <2>0, <2>1, MetaRecordIs
    <3>2. r \in at[i - 1]
      BY <1>2, <2>1, <3>1 DEF BothZones
    <3> QED  BY <1>3, <2>0, <2>1, <3>2 DEF BothZones
  <2>2. CASE c[i].class = "templating"
    <3>0. at[i] = {[s EXCEPT !.value = {Filled(v) : v \in s.value}] : s \in at[i - 1]}
      BY <1>2, <2>2 DEF BothZones, WithTemplates
    <3>1. PICK s \in at[i - 1] : r = [s EXCEPT !.value = {Filled(v) : v \in s.value}]
      BY <3>0
    <3>2. IsRecord(r) /\ SameRecord(r, s)
      BY <2>0, <3>1, NewValue
    <3>3. ~IsMeta(c, s)
      BY <3>2, SameMeta DEF SameRecord
    <3>4. s \in then[i - 1]
      BY <2>0, <3>3
    <3> QED  BY <1>3, <2>2, <3>1, <3>4 DEF BothZones, WithTemplates
  <2>3. CASE c[i].class \notin {"meta", "templating"}
    BY <1>2, <1>3, <2>0, <2>3 DEF BothZones
  <2> QED  BY <2>1, <2>2, <2>3
<1> HIDE DEF T
<1>8. n \in T
  <2>1. \A i \in 0 .. n : i \in T
    BY <1>1, <1>6, <1>7, Stepwise
  <2> QED  BY <1>1, <2>1
<1> QED  BY <1>5, <1>8 DEF T

LEMMA NamesWanted ==
  ASSUME NEW c \in Chains, NEW S, NEW values,
         NEW wanted, \A q \in wanted : Ours(c, q, S)
  PROVE  \A q \in BothChain(c, values, wanted) : IsMeta(c, q) \/ HasSame(wanted, q)
<1> DEFINE at == BothStages(c, values, wanted)
           n == Len(c)
           T == {i \in 0 .. n : \A q \in at[i] : IsMeta(c, q) \/ HasSame(wanted, q)}
<1>1. n \in Nat /\ DOMAIN c = 1 .. n
  BY ChainIs
<1>2. at[0] = wanted /\ \A i \in 1 .. n : at[i] = BothZones(c[i], values, at[i - 1])
  BY <1>1, BothStagesAre
<1>3. \A i \in 0 .. n : \A r \in at[i] : IsRecord(r)
  <2>1. \A i \in 0 .. n : \A r \in at[i] : Ours(c, r, S)
    BY BothRecords
  <2> QED  BY <2>1, OursAreRecords
<1>4. BothChain(c, values, wanted) = at[n]
  BY DEF BothChain
<1> HIDE DEF at, n
<1>5. 0 \in T
  BY <1>1, <1>2 DEF HasSame, SameRecord
<1>6. ASSUME NEW i \in 1 .. n, i - 1 \in T PROVE i \in T
  <2> SUFFICES ASSUME NEW q \in at[i] PROVE IsMeta(c, q) \/ HasSame(wanted, q)
    BY <1>1
  <2>0. /\ i - 1 \in 0 .. n /\ i \in 0 .. n
        /\ \A s \in at[i - 1] : IsRecord(s) /\ (IsMeta(c, s) \/ HasSame(wanted, s))
    BY <1>1, <1>3, <1>6
  <2>1. CASE \E r \in at[i - 1] : MadeOf(q, r)
    <3>1. PICK r \in at[i - 1] : IsRecord(q) /\ SameRecord(q, r)
      BY <2>1 DEF MadeOf
    <3>2. CASE IsMeta(c, r)
      BY <3>1, <3>2, SameMeta DEF SameRecord
    <3>3. CASE HasSame(wanted, r)
      BY <3>1, <3>3 DEF HasSame, SameRecord
    <3> QED  BY <2>0, <3>2, <3>3
  <2>2. CASE c[i].class = "meta" /\ q = MetaRecord(c[i], values)
    BY <1>1, <2>2, MetaRecordIs
  <2>3. q \in BothZones(c[i], values, at[i - 1])
    BY <1>2
  <2> QED  BY <2>0, <2>1, <2>2, <2>3, BothStep
<1> HIDE DEF T
<1>7. n \in T
  <2>1. \A i \in 0 .. n : i \in T
    BY <1>1, <1>5, <1>6, Stepwise
  <2> QED  BY <1>1, <2>1
<1> QED  BY <1>4, <1>7 DEF T

LEMMA WantedKeyed ==
  ASSUME NEW c \in Chains, NEW S, NEW values,
         NEW wanted, \A q \in wanted : Ours(c, q, S), IsKeyed(wanted),
         ~BothChainRaises(c, values, wanted)
  PROVE  IsKeyed(BothChain(c, values, wanted))
<1> DEFINE at == BothStages(c, values, wanted)
           n == Len(c)
           T == {i \in 0 .. n : IsKeyed(at[i])}
<1>1. n \in Nat /\ DOMAIN c = 1 .. n
  BY ChainIs
<1>2. at[0] = wanted /\ \A i \in 1 .. n : at[i] = BothZones(c[i], values, at[i - 1])
  BY <1>1, BothStagesAre
<1>3. \A i \in 0 .. n : \A r \in at[i] : IsRecord(r)
  <2>1. \A i \in 0 .. n : \A r \in at[i] : Ours(c, r, S)
    BY BothRecords
  <2> QED  BY <2>1, OursAreRecords
<1>4. BothChain(c, values, wanted) = at[n]
  BY DEF BothChain
<1>5. \A i \in DOMAIN c : ~BothRaise(c[i], at[i - 1])
  BY DEF BothChainRaises
<1> HIDE DEF at, n
<1>6. 0 \in T
  BY <1>1, <1>2
<1>7. ASSUME NEW i \in 1 .. n, i - 1 \in T PROVE i \in T
  <2>0. /\ i - 1 \in 0 .. n /\ i \in DOMAIN c /\ IsKeyed(at[i - 1])
        /\ \A s \in at[i - 1] : IsRecord(s)
    BY <1>1, <1>3, <1>7
  <2>1. CASE c[i].class = "meta"
    <3>1. \A r \in at[i - 1] : ~SameRecord(r, MetaRecord(c[i], values))
      BY <1>5, <2>0, <2>1, MetaRecordIs DEF BothRaise, SameRecord
    <3>2. at[i] = at[i - 1] \cup {MetaRecord(c[i], values)}
      BY <1>2, <2>1 DEF BothZones
    <3> QED  BY <2>0, <3>1, <3>2 DEF IsKeyed, SameRecord
  <2>2. CASE c[i].class = "templating"
    <3> DEFINE Is(q, r) == q = [r EXCEPT !.value = {Filled(v) : v \in r.value}]
    <3>0. at[i] = {[r EXCEPT !.value = {Filled(v) : v \in r.value}] : r \in at[i - 1]}
      BY <1>2, <2>2 DEF BothZones, WithTemplates
    <3>1. \A q \in at[i] : \E r \in at[i - 1] : Is(q, r)
      BY <3>0
    <3>2. ASSUME NEW r \in at[i - 1], NEW q, Is(q, r) PROVE SameRecord(q, r)
      BY <2>0, <3>2, NewValue
    <3>3. ASSUME NEW r, NEW q, NEW t, Is(q, r), Is(t, r) PROVE q = t
      BY <3>3
    <3> HIDE DEF Is
    <3>4. IsKeyed(at[i])
      BY <2>0, <3>1, <3>2, <3>3 DEF IsKeyed, SameRecord
    <3> QED  BY <3>4
  <2>3. CASE c[i].class \notin {"meta", "templating"}
    <3>1. at[i] = at[i - 1]
      BY <1>2, <2>3 DEF BothZones
    <3> QED  BY <2>0, <3>1
  <2> QED  BY <2>1, <2>2, <2>3
<1> HIDE DEF T
<1>8. n \in T
  <2>1. \A i \in 0 .. n : i \in T
    BY <1>1, <1>6, <1>7, Stepwise
  <2> QED  BY <1>1, <2>1
<1> QED  BY <1>4, <1>8 DEF T

(* Of a chain with a MetaProcessor there is one meta record.                *)
LEMMA MetaWanted ==
  ASSUME MetaComesLast, NEW c \in Chains, NEW S, NEW values, \A v \in values : ~IsTemplate(v),
         NEW wanted, \A q \in wanted : Ours(c, q, S),
         ~BothChainRaises(c, values, wanted),
         NEW m \in DOMAIN c, c[m].class = "meta"
  PROVE  /\ MetaRecord(c[m], values) \in BothChain(c, values, wanted)
         /\ \A q \in BothChain(c, values, wanted) : IsMeta(c, q) => q = MetaRecord(c[m], values)
<1> DEFINE at == BothStages(c, values, wanted)
           n == Len(c)
           M == MetaRecord(c[m], values)
           Alone(i) == M \in at[i] /\ \A q \in at[i] : IsMeta(c, q) => q = M
           T == {i \in 0 .. n : i >= m => Alone(i)}
<1>1. n \in Nat /\ DOMAIN c = 1 .. n
  BY ChainIs
<1>2. at[0] = wanted /\ \A i \in 1 .. n : at[i] = BothZones(c[i], values, at[i - 1])
  BY <1>1, BothStagesAre
<1>3. \A i \in 0 .. n : \A r \in at[i] : IsRecord(r)
  <2>1. \A i \in 0 .. n : \A r \in at[i] : Ours(c, r, S)
    BY BothRecords
  <2> QED  BY <2>1, OursAreRecords
<1>4. BothChain(c, values, wanted) = at[n]
  BY DEF BothChain
<1>5. ~BothRaise(c[m], at[m - 1])
  BY DEF BothChainRaises
<1>6. \A i \in DOMAIN c : c[i].class = "meta" => i = m
  <2>1. \A i \in DOMAIN c : c[i].class = "meta" => i <= m /\ m <= i
    BY DEF MetaComesLast
  <2> QED  BY <1>1, <2>1
<1>7. IsMeta(c, M) /\ M.value = values /\ M.name = c[m].record_name /\ M.type = "TXT"
  BY MetaRecordIs
<1>8. [M EXCEPT !.value = {Filled(v) : v \in M.value}] = M
  <2>1. {Filled(v) : v \in values} = values
    <3>1. \A v \in values : Filled(v) = v
      BY RenderedAssumption DEF Filled, IsTemplate
    <3> QED  BY <3>1
  <2>2. [M EXCEPT !.value = values] = M
    <3> HIDE DEF M
    <3> DEFINE N == [M EXCEPT !.value = values]
    <3>1. IsRecord(M) /\ M.value = values
      BY <1>7 DEF IsMeta
    <3>2. /\ M = [f \in DOMAIN M |-> M[f]] /\ N = [f \in DOMAIN M |-> N[f]]
          /\ \A f \in DOMAIN M : N[f] = M[f]
      BY <3>1 DEF IsRecord
    <3> QED  BY <3>2
  <2> QED  BY <1>7, <2>1, <2>2
<1> HIDE DEF at, n, M
<1>9. 0 \in T
  BY <1>1
<1>10. ASSUME NEW i \in 1 .. n, i - 1 \in T PROVE i \in T
  <2> SUFFICES ASSUME i >= m PROVE Alone(i)
    BY <1>1
  <2>0. i - 1 \in 0 .. n /\ i \in DOMAIN c /\ \A s \in at[i - 1] : IsRecord(s)
    BY <1>1, <1>3
  <2>1. CASE i = m
    <3>1. \A q \in at[i - 1] : ~IsMeta(c, q)
      BY <1>5, <1>6, <2>1 DEF IsMeta, BothRaise
    <3>2. at[i] = at[i - 1] \cup {M}
      BY <1>2, <2>1 DEF BothZones, M
    <3> QED  BY <3>1, <3>2
  <2>2. CASE i # m
    <3>1. Alone(i - 1)
      BY <1>1, <1>10, <2>0, <2>2
    <3>2. c[i].class # "meta"
      BY <1>6, <2>0, <2>2
    <3>3. CASE c[i].class = "templating"
      <4>1. at[i] = {[r EXCEPT !.value = {Filled(v) : v \in r.value}] : r \in at[i - 1]}
        BY <1>2, <3>3 DEF BothZones, WithTemplates
      <4>2. ASSUME NEW q \in at[i], IsMeta(c, q) PROVE q = M
        <5>1. PICK r \in at[i - 1] : q = [r EXCEPT !.value = {Filled(v) : v \in r.value}]
          BY <4>1
        <5>2. SameRecord(q, r)
          BY <2>0, <5>1, NewValue
        <5>3. r = M
          BY <2>0, <3>1, <4>2, <5>2, SameMeta
        <5> QED  BY <1>8, <5>1, <5>3
      <4>3. M \in at[i]
        BY <1>8, <3>1, <4>1
      <4> QED  BY <4>2, <4>3
    <3>4. CASE c[i].class # "templating"
      <4>1. at[i] = at[i - 1]
        BY <1>2, <3>2, <3>4 DEF BothZones
      <4> QED  BY <3>1, <4>1
    <3> QED  BY <3>3, <3>4
  <2> QED  BY <2>1, <2>2
<1> HIDE DEF T
<1>11. n \in T
  <2>1. \A i \in 0 .. n : i \in T
    BY <1>1, <1>9, <1>10, Stepwise
  <2> QED  BY <1>1, <2>1
<1> QED  BY <1>1, <1>4, <1>11 DEF T, M

-----------------------------------------------------------------------------
(* What a run looks at of the target, and what it wants and plans: with the *)
(* challenges that the tasks of several zones have made the processor       *)
(* remember, or with those of the zone's own sources alone.                 *)
InSightBy(c, S, seen, r) ==
  /\ RootNsIn(SourceChain(c, S)) = {} => ~IsRootNs(r)
  /\ \A j \in DOMAIN c : LetsPass(c[j], seen, r)
FoundBy(c, S, seen, records) == {r \in records : InSightBy(c, S, seen, r)}
Wanted(c, S, run) == BothChain(c, MetaValues(run), SourceChain(c, S))
PlannedBy(c, S, seen, run, records) ==
  PlanChain(c, MetaValues(run), FoundBy(c, S, seen, records), Wanted(c, S, run),
            ZoneChanges(FoundBy(c, S, seen, records), Wanted(c, S, run)))

InSight(c, S, r) == InSightBy(c, S, Seen(c, S), r)
Found(c, S, records) == FoundBy(c, S, Seen(c, S), records)
PlannedOf(c, S, run, records) == PlannedBy(c, S, Seen(c, S), run, records)

LEMMA ChallengesRemembered ==
  ASSUME NEW c \in Chains, NEW S, \A s \in S : IsRecord(s),
         NEW j \in DOMAIN c, c[j].class = "acme",
         NEW q \in SourceChain(c, S), IsChallenge(q)
  PROVE  HasSame(Seen(c, S), q)
<1> DEFINE at == SourceStages(c, S)
           n == Len(c)
           T == {i \in 0 .. n : i >= j => \A r \in at[i] : IsChallenge(r) => HasSame(at[j - 1], r)}
<1>1. n \in Nat /\ DOMAIN c = 1 .. n
  BY ChainIs
<1>2. \A i \in 1 .. n : at[i] = SourceZone(c[i], at[i - 1])
  BY <1>1, SourceStagesAre
<1>3. \A i \in 0 .. n : \A r \in at[i] : IsRecord(r)
  BY SourceRecords DEF OfSource
<1>4. SourceChain(c, S) = at[n]
  BY DEF SourceChain
<1>5. Seen(c, S) = UNION {{r \in at[i - 1] : IsChallenge(r)} : i \in {i \in DOMAIN c : c[i].class = "acme"}}
  BY DEF Seen
<1> HIDE DEF at, n
<1>6. 0 \in T
  BY <1>1
<1>7. ASSUME NEW i \in 1 .. n, i - 1 \in T PROVE i \in T
  <2> SUFFICES ASSUME i >= j, NEW r \in at[i], IsChallenge(r) PROVE HasSame(at[j - 1], r)
    BY <1>1
  <2>1. i - 1 \in 0 .. n /\ \A s \in at[i - 1] : IsRecord(s)
    BY <1>1, <1>3
  <2>2. \A s \in at[i - 1] : IsChallenge(s) => HasSame(at[j - 1], s)
    <3>1. CASE i = j
      BY <3>1 DEF HasSame, SameRecord
    <3>2. CASE i # j
      BY <1>1, <1>7, <3>2
    <3> QED  BY <3>1, <3>2
  <2>3. CASE \E s \in at[i - 1] : MadeOf(r, s)
    <3>1. PICK s \in at[i - 1] : SameRecord(r, s)
      BY <2>3 DEF MadeOf
    <3>2. HasSame(at[j - 1], s)
      BY <2>2, <3>1, SameChallenge
    <3> QED  BY <3>1, <3>2 DEF HasSame, SameRecord
  <2>4. CASE \E s \in at[i - 1] : r = Marker(s)
    <3>1. r.name[1] = "_owner"
      BY <2>1, <2>4, MarkerIs DEF IsOwnership, IsOwnershipName
    <3> QED  BY <3>1 DEF IsChallenge
  <2>5. r \in SourceZone(c[i], at[i - 1])
    BY <1>2
  <2> QED  BY <2>1, <2>3, <2>4, <2>5, SourceStep
<1> HIDE DEF T
<1>8. n \in T
  <2>1. \A i \in 0 .. n : i \in T
    BY <1>1, <1>6, <1>7, Stepwise
  <2> QED  BY <1>1, <2>1
<1>9. PICK o \in at[j - 1] : SameRecord(o, q)
  BY <1>1, <1>4, <1>8 DEF T, HasSame
<1>10. IsChallenge(o)
  BY <1>9, SameChallenge DEF SameRecord
<1> QED  BY <1>5, <1>9, <1>10 DEF HasSame

LEMMA WantedRemembered ==
  ASSUME NEW c \in Chains, NEW S, \A s \in S : IsRecord(s), NEW run,
         NEW j \in DOMAIN c, c[j].class = "acme",
         NEW q \in Wanted(c, S, run), IsChallenge(q)
  PROVE  HasSame(Seen(c, S), q)
<1> DEFINE D == SourceChain(c, S)
<1>1. \A r \in D : Ours(c, r, S)
  <2>1. Len(c) \in 0 .. Len(c)
    BY ChainIs
  <2> QED  BY <2>1, SourceRecords DEF SourceChain, Ours
<1>2. IsMeta(c, q) \/ HasSame(D, q)
  BY <1>1, NamesWanted DEF Wanted
<1>3. ~IsMeta(c, q)
  BY ChainsAssumption DEF IsMeta, IsChallenge
<1>4. PICK d \in D : SameRecord(d, q)
  BY <1>2, <1>3 DEF HasSame
<1>5. IsChallenge(d)
  BY <1>4, SameChallenge DEF SameRecord
<1>6. HasSame(Seen(c, S), d)
  BY <1>5, ChallengesRemembered
<1> QED  BY <1>4, <1>6 DEF HasSame, SameRecord

(* A task that sees other zones' challenges too sees what it would without  *)
(* them, and nothing more that the run wants something of.                  *)
LEMMA SeesMore ==
  ASSUME NEW c \in Chains, NEW S, \A s \in S : IsRecord(s), NEW run,
         NEW seen, Seen(c, S) \subseteq seen, NEW E
  PROVE  LET F == FoundBy(c, S, seen, E)
         IN  /\ F \subseteq E /\ \A q \in E : InSight(c, S, q) => q \in F
             /\ \A q \in F : HasSame(Wanted(c, S, run), q) => InSight(c, S, q)
<1>1. ASSUME NEW q, NEW j \in DOMAIN c, c[j].class # "acme"
      PROVE  LetsPass(c[j], seen, q) <=> LetsPass(c[j], Seen(c, S), q)
  BY <1>1 DEF LetsPass, TargetZone
<1>2. ASSUME NEW q, NEW j \in DOMAIN c, c[j].class = "acme"
      PROVE  /\ LetsPass(c[j], seen, q) <=> KeepsChallenge(q, seen)
             /\ LetsPass(c[j], Seen(c, S), q) <=> KeepsChallenge(q, Seen(c, S))
  BY <1>2 DEF LetsPass, TargetZone
<1>3. ASSUME NEW q, KeepsChallenge(q, Seen(c, S)) PROVE KeepsChallenge(q, seen)
  BY <1>3 DEF KeepsChallenge, HasSame
<1>4. ASSUME NEW q, NEW j \in DOMAIN c, c[j].class = "acme", HasSame(Wanted(c, S, run), q)
      PROVE  KeepsChallenge(q, Seen(c, S))
  <2> SUFFICES ASSUME IsChallenge(q) PROVE HasSame(Seen(c, S), q)
    BY DEF KeepsChallenge
  <2>1. PICK w \in Wanted(c, S, run) : SameRecord(w, q)
    BY <1>4 DEF HasSame
  <2>2. IsChallenge(w)
    BY <2>1, SameChallenge DEF SameRecord
  <2>3. HasSame(Seen(c, S), w)
    BY <1>4, <2>2, WantedRemembered
  <2> QED  BY <2>1, <2>3 DEF HasSame, SameRecord
<1>5. ASSUME NEW q, InSight(c, S, q) PROVE InSightBy(c, S, seen, q)
  BY <1>1, <1>2, <1>3, <1>5 DEF InSight, InSightBy
<1>6. ASSUME NEW q, InSightBy(c, S, seen, q), HasSame(Wanted(c, S, run), q)
      PROVE  InSight(c, S, q)
  BY <1>1, <1>2, <1>4, <1>6 DEF InSight, InSightBy
<1> QED  BY <1>5, <1>6 DEF FoundBy

(* What a run wants, it sees when it is there.                              *)
LEMMA WantedInSight ==
  ASSUME FiltersPass, FiltersPassValues, NEW c \in Chains, NEW z \in ZoneSet,
         NEW S \in Sources(c, z), NEW run \in 0 .. MaxRuns, NEW q \in Wanted(c, S, run)
  PROVE  InSight(c, S, q)
<1> DEFINE D == SourceChain(c, S)
<1>1. \A s \in S : IsRecord(s)
  BY RecordsAssumption
<1>2. \A r \in D : Ours(c, r, S)
  <2>1. Len(c) \in 0 .. Len(c)
    BY ChainIs
  <2> QED  BY <1>1, <2>1, SourceRecords DEF SourceChain, Ours
<1>3. IsMeta(c, q) \/ HasSame(D, q)
  BY <1>2, NamesWanted DEF Wanted
<1>4. IsRootNs(q) => RootNsIn(D) # {}
  BY <1>3 DEF IsMeta, IsRootNs, RootNsIn, HasSame, SameRecord
<1>5. ASSUME NEW j \in DOMAIN c PROVE LetsPass(c[j], Seen(c, S), q)
  <2>1. ~TakesOut(c[j], q)
    <3>1. S \in SUBSET UNION Sources(c, z)
      OBVIOUS
    <3>2. \A r \in D : Ours(c, r, S) /\ ~TakesOut(c[j], r)
      BY <1>2, <3>1, SourceTakesOut
    <3> HIDE DEF D
    <3> QED  BY <3>2, BothTakesOut DEF Wanted, D
  <2>2. CASE c[j].class = "filter" /\ c[j].include_target
    <3>1. Keeps(c[j], q)
      BY <2>1, <2>2 DEF TakesOut, FiltersPassValues, Wanted
    <3> QED  BY <2>2, <3>1 DEF LetsPass, TargetZone, Filtered
  <2>3. CASE c[j].class = "ignore_root_ns"
    BY <2>1, <2>3 DEF LetsPass, TargetZone, TakesOut, RootNsIn
  <2>4. CASE c[j].class = "acme"
    <3>1. IsChallenge(q) => HasSame(Seen(c, S), q)
      BY <1>1, <2>4, WantedRemembered
    <3> QED  BY <2>4, <3>1 DEF LetsPass, TargetZone, KeepsChallenge
  <2>5. CASE /\ ~(c[j].class = "filter" /\ c[j].include_target)
             /\ c[j].class \notin {"ignore_root_ns", "acme"}
    BY <2>5 DEF LetsPass, TargetZone
  <2> QED  BY <2>2, <2>3, <2>4, <2>5
<1> QED  BY <1>4, <1>5 DEF InSight, InSightBy

(* A plan: what all the processors keep that look at one change at a time,  *)
(* or nothing if that is a meta record that has its keys already.           *)
KeepsChange(p, found, wanted, ch) ==
  CASE p.class = "exclude_root_ns_changes" -> ~IsRootNs(ch.record)
    [] p.class = "ownership" ->
         \/ IsOwnership(ch.record)
         \/ HasSame(Owned(found, wanted), ch.record)
         \/ ch.record.name = <<"octodns-meta">>
    [] OTHER -> TRUE

KeptChanges(c, found, wanted, changes) ==
  {ch \in changes : \A j \in DOMAIN c : KeepsChange(c[j], found, wanted, ch)}
OnlyMeta(c, values, found, kept) ==
  \E m \in DOMAIN c : \E ch \in kept :
    c[m].class = "meta" /\ kept = {ch} /\ IsUpToDateMeta(c[m], ch, found, values)

LEMMA PlanKeeps ==
  ASSUME MetaComesLast, NEW c \in Chains, NEW values, NEW found, NEW wanted, NEW changes
  PROVE  LET kept == KeptChanges(c, found, wanted, changes)
         IN  PlanChain(c, values, found, wanted, changes) =
               IF OnlyMeta(c, values, found, kept) THEN {} ELSE kept
<1> DEFINE at == PlanStages(c, values, found, wanted, changes)
           n == Len(c)
           kept == KeptChanges(c, found, wanted, changes)
           Up(i) == {ch \in changes : \A j \in 1 .. i : KeepsChange(c[j], found, wanted, ch)}
           Told(m) == c[m].class = "meta" /\ \E ch \in kept :
                        kept = {ch} /\ IsUpToDateMeta(c[m], ch, found, values)
           T == {i \in 0 .. n : at[i] = IF \E m \in 1 .. i : Told(m) THEN {} ELSE Up(i)}
<1>1. n \in Nat /\ DOMAIN c = 1 .. n
  BY ChainIs
<1>2. at[0] = changes
      /\ \A i \in 1 .. n : at[i] = ProcessPlan(c[i], values, found, wanted, at[i - 1])
  BY <1>1, PlanStagesAre
<1>3. PlanChain(c, values, found, wanted, changes) = at[n]
  BY DEF PlanChain
<1>4. kept = Up(n)
  BY <1>1 DEF KeptChanges
<1>5. OnlyMeta(c, values, found, kept) <=> \E m \in 1 .. n : Told(m)
  BY <1>1 DEF OnlyMeta
<1>6. \A i, j \in 1 .. n :
        c[i].class = "meta" /\ c[j].class \in {"meta", "ownership", "exclude_root_ns_changes"} => j <= i
  BY <1>1 DEF MetaComesLast
<1> HIDE DEF at, n, kept
<1>7. 0 \in T
  <2>1. \A j : j \notin 1 .. 0
    OBVIOUS
  <2>2. Up(0) = changes
    BY <2>1
  <2> HIDE DEF Up, Told
  <2> QED  BY <1>1, <1>2, <2>1, <2>2
<1>8. ASSUME NEW i \in 1 .. n, i - 1 \in T PROVE i \in T
  <2> DEFINE idle == \E m \in 1 .. i - 1 : Told(m)
  <2>1. at[i - 1] = IF idle THEN {} ELSE Up(i - 1)
    BY <1>8
  <2>2. \A j : j \in 1 .. i <=> j \in 1 .. i - 1 \/ j = i
    BY <1>1
  <2>3. (\E m \in 1 .. i : Told(m)) <=> idle \/ Told(i)
    <3> HIDE DEF Told
    <3> QED  BY <2>2
  <2>4. Up(i) = {ch \in Up(i - 1) : KeepsChange(c[i], found, wanted, ch)}
    BY <2>2
  <2>5. at[i] = ProcessPlan(c[i], values, found, wanted, at[i - 1])
    BY <1>2
  <2>6. at[i] = IF idle \/ Told(i) THEN {} ELSE Up(i)
    <3>1. CASE c[i].class = "meta"
      <4>1. ~idle
        <5>1. \A m \in 1 .. i - 1 : c[m].class # "meta"
          BY <1>1, <1>6, <3>1
        <5> QED  BY <5>1
      <4>2. \A j \in 1 .. n : j \notin 1 .. i - 1 =>
              \A ch : KeepsChange(c[j], found, wanted, ch)
        <5>1. \A j \in 1 .. n : j \notin 1 .. i - 1 =>
                c[j].class \notin {"ownership", "exclude_root_ns_changes"}
          <6>1. ASSUME NEW j \in 1 .. n, c[j].class \in {"ownership", "exclude_root_ns_changes"}
                PROVE  j \in 1 .. i - 1
            <7>1. j <= i
              BY <1>6, <3>1, <6>1
            <7>2. j # i
              BY <3>1, <6>1
            <7> QED  BY <1>1, <7>1, <7>2
          <6> QED  BY <6>1
        <5> QED  BY <5>1 DEF KeepsChange
      <4>3. kept = Up(i - 1) /\ Up(i) = Up(i - 1)
        <5>1. \A j \in 1 .. i - 1 : j \in 1 .. n
          BY <1>1
        <5>2. kept = Up(i - 1)
          BY <1>4, <4>2, <5>1
        <5>3. i \notin 1 .. i - 1
          BY <1>1
        <5>4. Up(i) = Up(i - 1)
          BY <2>4, <4>2, <5>3
        <5> QED  BY <5>2, <5>4
      <4>4. at[i - 1] = kept
        BY <2>1, <4>1, <4>3
      <4> HIDE DEF idle, Up
      <4>5. at[i] = IF \E ch \in kept : kept = {ch} /\ IsUpToDateMeta(c[i], ch, found, values)
                    THEN {} ELSE kept
        BY <2>5, <3>1, <4>4 DEF ProcessPlan
      <4> QED  BY <3>1, <4>1, <4>3, <4>5
    <3>2. CASE c[i].class # "meta"
      <4>1. at[i] = {ch \in at[i - 1] : KeepsChange(c[i], found, wanted, ch)}
        <5>1. CASE c[i].class = "exclude_root_ns_changes"
          BY <2>5, <5>1 DEF ProcessPlan, KeepsChange
        <5>2. CASE c[i].class = "ownership"
          BY <2>5, <5>2 DEF ProcessPlan, KeepsChange, OwnedChanges
        <5>3. CASE c[i].class \notin {"ownership", "exclude_root_ns_changes"}
          BY <2>5, <3>2, <5>3 DEF ProcessPlan, KeepsChange
        <5> QED  BY <5>1, <5>2, <5>3
      <4> HIDE DEF idle, Up
      <4> QED  BY <2>1, <2>4, <3>2, <4>1
    <3> QED  BY <3>1, <3>2
  <2> HIDE DEF idle, Told, Up
  <2> QED  BY <1>1, <2>3, <2>6
<1> HIDE DEF T
<1>9. n \in T
  <2>1. \A i \in 0 .. n : i \in T
    BY <1>1, <1>7, <1>8, Stepwise
  <2> QED  BY <1>1, <2>1
<1>10. at[n] = IF \E m \in 1 .. n : Told(m) THEN {} ELSE Up(n)
  BY <1>9 DEF T
<1> HIDE DEF Told, Up
<1> QED  BY <1>3, <1>4, <1>5, <1>10 DEF kept

(* What two runs want of the same source: the same but for the values of    *)
(* the meta record.                                                         *)
LEMMA SameWanted ==
  ASSUME MarksAreOwn, FiltersPass, FiltersPassValues, MetaComesLast, MetaKeysStay,
         NEW c \in Chains, NEW z \in ZoneSet, NEW S \in Sources(c, z),
         NEW run \in 0 .. MaxRuns, ~BothChainRaises(c, MetaValues(run), SourceChain(c, S)),
         NEW later \in 0 .. MaxRuns, ~BothChainRaises(c, MetaValues(later), SourceChain(c, S))
  PROVE  /\ IsKeyed(Wanted(c, S, run))
         /\ \A q \in Wanted(c, S, run) :
              /\ InSight(c, S, q) /\ IsRecord(q) /\ HasSame(Wanted(c, S, later), q)
              /\ ~IsMeta(c, q) => q \in Wanted(c, S, later)
         /\ \A m \in DOMAIN c : c[m].class = "meta" =>
              /\ MetaRecord(c[m], MetaValues(run)) \in Wanted(c, S, run)
              /\ \A q \in Wanted(c, S, run) : IsMeta(c, q) => q = MetaRecord(c[m], MetaValues(run))
<1> DEFINE D == SourceChain(c, S)
<1>1. \A r \in D : Ours(c, r, S)
  <2>1. Len(c) \in 0 .. Len(c) /\ \A s \in S : IsRecord(s)
    BY RecordsAssumption, ChainIs
  <2> QED  BY <2>1, SourceRecords DEF SourceChain, Ours
<1>2. IsKeyed(D)
  BY SourceKeyed
<1>3. \A r \in 0 .. MaxRuns : Wanted(c, S, r) = BothChain(c, MetaValues(r), D)
  BY DEF Wanted
<1> HIDE DEF D
<1>4. ~BothChainRaises(c, MetaValues(run), D) /\ ~BothChainRaises(c, MetaValues(later), D)
  BY DEF D
<1>5. IsKeyed(Wanted(c, S, run))
  BY <1>1, <1>2, <1>3, <1>4, WantedKeyed
<1>6. ASSUME NEW m \in DOMAIN c, c[m].class = "meta", NEW r \in {run, later}
      PROVE  /\ MetaRecord(c[m], MetaValues(r)) \in Wanted(c, S, r)
             /\ \A q \in Wanted(c, S, r) : IsMeta(c, q) => q = MetaRecord(c[m], MetaValues(r))
  <2>1. r \in 0 .. MaxRuns /\ \A v \in MetaValues(r) : ~IsTemplate(v)
    BY DEF MetaKeysStay
  <2>2. ~BothChainRaises(c, MetaValues(r), D)
    BY <1>4
  <2>3. Wanted(c, S, r) = BothChain(c, MetaValues(r), D)
    BY <1>3, <2>1
  <2>4. /\ MetaRecord(c[m], MetaValues(r)) \in BothChain(c, MetaValues(r), D)
        /\ \A q \in BothChain(c, MetaValues(r), D) :
             IsMeta(c, q) => q = MetaRecord(c[m], MetaValues(r))
    BY <1>1, <1>6, <2>1, <2>2, MetaWanted
  <2> QED  BY <2>3, <2>4
<1>7. ASSUME NEW q \in Wanted(c, S, run)
      PROVE  /\ InSight(c, S, q) /\ IsRecord(q) /\ HasSame(Wanted(c, S, later), q)
             /\ ~IsMeta(c, q) => q \in Wanted(c, S, later)
  <2>1. InSight(c, S, q)
    BY WantedInSight
  <2>2. IsRecord(q)
    <3>1. Len(c) \in 0 .. Len(c)
      BY ChainIs
    <3>2. \A i \in 0 .. Len(c) : \A r \in BothStages(c, MetaValues(run), D)[i] : Ours(c, r, S)
      BY <1>1, BothRecords
    <3>3. q \in BothStages(c, MetaValues(run), D)[Len(c)]
      BY <1>3 DEF BothChain
    <3> QED  BY <3>1, <3>2, <3>3, OursAreRecords
  <2>3. ~IsMeta(c, q) => q \in Wanted(c, S, later)
    BY <1>1, <1>3, OthersWanted
  <2>4. CASE IsMeta(c, q)
    <3>1. PICK m \in DOMAIN c : c[m].class = "meta" /\ q.name = c[m].record_name /\ q.type = "TXT"
      BY <2>4 DEF IsMeta
    <3>2. MetaRecord(c[m], MetaValues(later)) \in Wanted(c, S, later)
      BY <1>6, <3>1
    <3>3. SameRecord(MetaRecord(c[m], MetaValues(later)), q)
      BY <3>1, MetaRecordIs DEF SameRecord
    <3> QED  BY <2>1, <2>2, <2>4, <3>2, <3>3 DEF HasSame
  <2>5. CASE ~IsMeta(c, q)
    BY <2>1, <2>2, <2>3, <2>5 DEF HasSame, SameRecord
  <2> QED  BY <2>4, <2>5
<1> QED  BY <1>5, <1>6, <1>7

(* A meta record that nobody but others and the runs have written.          *)
MetaKnown(c, z, r) ==
  IsMeta(c, r) =>
    \/ r \in Others(c, z) \cup UNION Lives(c, z)
    \/ \E run \in 0 .. MaxRuns : r.value = MetaValues(run)

LEMMA KeysRead ==
  ASSUME MetaKeysStay, NEW c \in Chains, NEW z \in ZoneSet, NEW r, MetaKnown(c, z, r), IsMeta(c, r),
         NEW run \in 0 .. MaxRuns, Reads(r.value) = Reads(MetaValues(run))
  PROVE  Keys(r.value) = Keys(MetaValues(run))
BY DEF MetaKnown, MetaKeysStay

(* What the target has when the changes of a plan are made.                 *)
LEMMA AppliedIs ==
  ASSUME NEW E, NEW F, NEW W, NEW T \in SUBSET ZoneChanges(F, W)
  PROVE  /\ \A r \in ApplyChanges(E, T) :
              \/ r \in E /\ \A ch \in T : ~SameRecord(r, ch.record)
              \/ r \in W /\ \E ch \in T : SameRecord(ch.record, r)
         /\ \A r \in E : (\A ch \in T : ~SameRecord(r, ch.record)) => r \in ApplyChanges(E, T)
         /\ \A r : Create(r) \in T \/ Update(r) \in T => r \in ApplyChanges(E, T)
         /\ \A r : Delete(r) \in T => r \notin ApplyChanges(E, T) \/ r \in W
<1>1. \A ch \in T : ch.kind # "Delete" => ch.record \in W
  BY ChangeIs
<1>2. \A ch \in T \ OfKind(T, "Delete") : ch.record \in W
  BY <1>1 DEF OfKind
<1>3. \A r \in ApplyChanges(E, T) :
        \/ r \in E /\ \A ch \in T : ~SameRecord(r, ch.record)
        \/ r \in W /\ \E ch \in T : SameRecord(ch.record, r)
  BY <1>2 DEF ApplyChanges, SameRecord
<1>4. \A r \in E : (\A ch \in T : ~SameRecord(r, ch.record)) => r \in ApplyChanges(E, T)
  BY DEF ApplyChanges
<1>5. \A r : Create(r) \in T \/ Update(r) \in T => r \in ApplyChanges(E, T)
  BY DEF ApplyChanges, OfKind, Create, Update
<1>6. \A r : Delete(r) \in T => r \notin ApplyChanges(E, T) \/ r \in W
  <2> SUFFICES ASSUME NEW r, Delete(r) \in T, r \in ApplyChanges(E, T) PROVE r \in W
    OBVIOUS
  <2>1. SameRecord(r, Delete(r).record)
    BY DEF Delete, SameRecord
  <2> QED  BY <1>3, <2>1
<1> QED  BY <1>3, <1>4, <1>5, <1>6

LEMMA ChangesAre ==
  ASSUME NEW E, NEW D, NEW ch \in ZoneChanges(E, D)
  PROVE  \/ /\ ch = Delete(ch.record) /\ ch.record \in E /\ ~HasSame(D, ch.record)
            /\ Concerns(ch.record) /\ Supports(ch.record)
         \/ /\ ch = Create(ch.record) /\ ch.record \in D /\ ~HasSame(E, ch.record)
            /\ Concerns(ch.record) /\ Supports(ch.record)
         \/ /\ ch = Update(ch.record) /\ ch.record \in D /\ Concerns(ch.record)
            /\ \E s \in E : SameRecord(s, ch.record) /\ Concerns(s) /\ Differs(s, ch.record)
BY DEF ZoneChanges, Deleted, Updated, Created, Delete, Update, Create

(* Of what is not the meta record, a plan that follows another has no       *)
(* change but those that the other has had and that were taken out of it.   *)
LEMMA ChangesRepeat ==
  ASSUME NEW E, IsKeyed(E), NEW c, NEW S, NEW W, NEW then, IsKeyed(W),
         \A q \in W : InSight(c, S, q) /\ HasSame(then, q),
         \A q \in then : HasSame(W, q) /\ (~IsMeta(c, q) => q \in W),
         NEW F \in SUBSET E, \A q \in E : InSight(c, S, q) => q \in F,
         \A q \in F : HasSame(W, q) => InSight(c, S, q),
         NEW T \in SUBSET ZoneChanges(F, W),
         NEW ch \in ZoneChanges(Found(c, S, ApplyChanges(E, T)), then), ~IsMeta(c, ch.record)
  PROVE  ch \in ZoneChanges(F, W) /\ ch \notin T
<1> DEFINE L == ApplyChanges(E, T)
           G == Found(c, S, L)
           r == ch.record
<1>1. /\ \A q \in L : \/ q \in E /\ \A x \in T : ~SameRecord(q, x.record)
                      \/ q \in W /\ \E x \in T : SameRecord(x.record, q)
      /\ \A q \in E : (\A x \in T : ~SameRecord(q, x.record)) => q \in L
      /\ \A q : Create(q) \in T \/ Update(q) \in T => q \in L
      /\ \A q : Delete(q) \in T => q \notin L \/ q \in W
  BY AppliedIs
<1>2. /\ \A q \in F : q \in E /\ (HasSame(W, q) => InSight(c, S, q))
      /\ \A q \in E : InSight(c, S, q) => q \in F
      /\ \A q : q \in G <=> q \in L /\ InSight(c, S, q)
  BY DEF Found, FoundBy, InSight
<1>3. \/ /\ ch = Delete(r) /\ r \in G /\ ~HasSame(then, r) /\ Concerns(r) /\ Supports(r)
      \/ /\ ch = Create(r) /\ r \in then /\ ~HasSame(G, r) /\ Concerns(r) /\ Supports(r)
      \/ /\ ch = Update(r) /\ r \in then /\ Concerns(r)
         /\ \E s \in G : SameRecord(s, r) /\ Concerns(s) /\ Differs(s, r)
  BY ChangesAre
<1>4. ~IsMeta(c, r)
  OBVIOUS
<1>5. \A x \in T : x \in ZoneChanges(F, W)
  OBVIOUS
<1> HIDE DEF L, G, r
<1>6. CASE ch = Delete(r) /\ r \in G /\ ~HasSame(then, r) /\ Concerns(r) /\ Supports(r)
  <2>1. r \notin W
    BY <1>6
  <2>2. r \in E /\ r \in F
    BY <1>1, <1>2, <1>6, <2>1
  <2>3. ~HasSame(W, r)
    BY <1>6 DEF HasSame, SameRecord
  <2>4. Delete(r) \in ZoneChanges(F, W)
    BY <1>6, <2>2, <2>3 DEF ZoneChanges, Deleted
  <2>5. Delete(r) \notin T
    BY <1>1, <1>2, <1>6, <2>1
  <2> QED  BY <1>6, <2>4, <2>5
<1>7. CASE ch = Create(r) /\ r \in then /\ ~HasSame(G, r) /\ Concerns(r) /\ Supports(r)
  <2>1. r \in W /\ InSight(c, S, r)
    BY <1>4, <1>7
  <2>2. r \notin L
    BY <1>2, <1>7, <2>1 DEF HasSame, SameRecord
  <2>3. ASSUME NEW q \in F, SameRecord(q, r) PROVE FALSE
    <3>1. q \notin L
      <4>1. InSight(c, S, q)
        BY <1>2, <2>1, <2>3 DEF HasSame, SameRecord
      <4> QED  BY <1>2, <1>7, <2>3, <4>1 DEF HasSame
    <3>2. PICK x \in T : SameRecord(q, x.record)
      BY <1>1, <1>2, <2>3, <3>1
    <3>3. SameRecord(x.record, r)
      BY <2>3, <3>2 DEF SameRecord
    <3>4. x = Create(x.record) \/ x = Update(x.record)
      BY <1>5, <2>1, <3>3, ChangesAre DEF HasSame, SameRecord
    <3>5. x.record \in W
      BY <1>5, <3>4, ChangesAre DEF Create, Update, Delete
    <3>6. x.record = r
      BY <2>1, <3>3, <3>5 DEF IsKeyed
    <3> QED  BY <1>1, <2>2, <3>4, <3>6
  <2>4. Create(r) \in ZoneChanges(F, W)
    BY <1>7, <2>1, <2>3 DEF ZoneChanges, Created, HasSame
  <2> QED  BY <1>1, <1>7, <2>2, <2>4
<1>8. CASE /\ ch = Update(r) /\ r \in then /\ Concerns(r)
           /\ \E s \in G : SameRecord(s, r) /\ Concerns(s) /\ Differs(s, r)
  <2>1. PICK s \in G : SameRecord(s, r) /\ Concerns(s) /\ Differs(s, r)
    BY <1>8
  <2>2. r \in W
    BY <1>4, <1>8
  <2>3. s # r
    BY <2>1 DEF Differs
  <2>4. s \notin W
    BY <2>1, <2>2, <2>3 DEF IsKeyed
  <2>5. s \in E /\ s \in F /\ \A x \in T : ~SameRecord(s, x.record)
    BY <1>1, <1>2, <2>4
  <2>6. Update(r) \in ZoneChanges(F, W)
    BY <1>8, <2>1, <2>2, <2>5 DEF ZoneChanges, Updated
  <2>7. Update(r) \notin T
    <3>1. Update(r).record = r
      BY DEF Update
    <3> QED  BY <2>1, <2>5, <3>1
  <2> QED  BY <1>8, <2>6, <2>7
<1> QED  BY <1>3, <1>6, <1>7, <1>8

(* What takes a change out of the later plan has taken it out of the        *)
(* earlier.                                                                 *)
LEMMA StillTakenOut ==
  ASSUME NEW p, NEW F, NEW W, NEW G, NEW then,
         \A m \in G \cup then : IsOwnership(m) => m \in F \cup W,
         NEW ch, KeepsChange(p, G, then, ch),
         NEW x, SameRecord(x.record, ch.record), x = ch \/ ~IsOwnership(ch.record)
  PROVE  KeepsChange(p, F, W, x)
<1>1. \A o \in Owned(G, then) : o \in Owned(F, W)
  BY DEF Owned
<1>2. CASE p.class = "exclude_root_ns_changes"
  BY <1>2 DEF KeepsChange, IsRootNs, SameRecord
<1>3. CASE p.class = "ownership"
  <2>1. HasSame(Owned(G, then), ch.record) => HasSame(Owned(F, W), x.record)
    BY <1>1 DEF HasSame, SameRecord
  <2>2. x.record.name = ch.record.name
    BY DEF SameRecord
  <2>3. IsOwnership(ch.record) => IsOwnership(x.record)
    OBVIOUS
  <2> QED  BY <1>3, <2>1, <2>2, <2>3 DEF KeepsChange
<1>4. CASE p.class \notin {"exclude_root_ns_changes", "ownership"}
  BY <1>4 DEF KeepsChange
<1> QED  BY <1>2, <1>3, <1>4

(* A run that follows another plans nothing.                                *)
LEMMA PlannedOnce ==
  ASSUME MarksAreOwn, FiltersPass, FiltersPassValues, MetaComesLast, MetaKeysStay,
         NEW c \in Chains, NEW z \in ZoneSet, NEW S \in Sources(c, z),
         NEW run \in 0 .. MaxRuns, ~BothChainRaises(c, MetaValues(run), SourceChain(c, S)),
         NEW later \in 0 .. MaxRuns, ~BothChainRaises(c, MetaValues(later), SourceChain(c, S)),
         NEW seen, Seen(c, S) \subseteq seen,
         NEW E, IsKeyed(E), \A r \in E : IsRecord(r) /\ MetaKnown(c, z, r)
  PROVE  PlannedOf(c, S, later, ApplyChanges(E, PlannedBy(c, S, seen, run, E))) = {}
<1> DEFINE F == FoundBy(c, S, seen, E)
           W == Wanted(c, S, run)
           T == PlannedBy(c, S, seen, run, E)
           kept == KeptChanges(c, F, W, ZoneChanges(F, W))
           L == ApplyChanges(E, T)
           G == Found(c, S, L)
           then == Wanted(c, S, later)
           left == KeptChanges(c, G, then, ZoneChanges(G, then))
<1>1. /\ IsKeyed(W)
      /\ \A q \in W : /\ InSight(c, S, q) /\ IsRecord(q) /\ HasSame(then, q)
                      /\ ~IsMeta(c, q) => q \in then
      /\ \A m \in DOMAIN c : c[m].class = "meta" =>
           /\ MetaRecord(c[m], MetaValues(run)) \in W
           /\ \A q \in W : IsMeta(c, q) => q = MetaRecord(c[m], MetaValues(run))
  BY SameWanted
<1>2. /\ \A q \in then : /\ IsRecord(q) /\ HasSame(W, q)
                         /\ ~IsMeta(c, q) => q \in W
      /\ \A m \in DOMAIN c : c[m].class = "meta" =>
           /\ MetaRecord(c[m], MetaValues(later)) \in then
           /\ \A q \in then : IsMeta(c, q) => q = MetaRecord(c[m], MetaValues(later))
  BY SameWanted
<1>3. T = IF OnlyMeta(c, MetaValues(run), F, kept) THEN {} ELSE kept
  BY PlanKeeps DEF PlannedBy
<1>4. PlannedOf(c, S, later, L) = IF OnlyMeta(c, MetaValues(later), G, left) THEN {} ELSE left
  BY PlanKeeps DEF PlannedOf, PlannedBy, Found
<1>5. /\ kept = {ch \in ZoneChanges(F, W) : \A j \in DOMAIN c : KeepsChange(c[j], F, W, ch)}
      /\ left = {ch \in ZoneChanges(G, then) : \A j \in DOMAIN c : KeepsChange(c[j], G, then, ch)}
  BY DEF KeptChanges
<1>6. /\ \A q \in F : q \in E /\ (HasSame(W, q) => InSight(c, S, q))
      /\ \A q \in E : InSight(c, S, q) => q \in F
      /\ \A q : q \in G <=> q \in L /\ InSight(c, S, q)
  <2>1. \A s \in S : IsRecord(s)
    BY RecordsAssumption
  <2> QED  BY <2>1, SeesMore DEF Found, FoundBy, InSight
<1>7. T \in SUBSET ZoneChanges(F, W)
  BY <1>3, <1>5
<1>8. /\ \A q \in L : \/ q \in E /\ \A x \in T : ~SameRecord(q, x.record)
                      \/ q \in W /\ \E x \in T : SameRecord(x.record, q)
      /\ \A q \in E : (\A x \in T : ~SameRecord(q, x.record)) => q \in L
      /\ \A q : Create(q) \in T \/ Update(q) \in T => q \in L
  <2> HIDE DEF T, F, W
  <2> QED  BY <1>7, AppliedIs
<1>9. \A ch \in ZoneChanges(G, then) : ~IsMeta(c, ch.record) => ch \in ZoneChanges(F, W) /\ ch \notin T
  <2> HIDE DEF F, T, W, then
  <2> QED  BY <1>1, <1>2, <1>6, <1>7, ChangesRepeat
<1> HIDE DEF F, W, T, kept, L, G, then, left
<1>10. \A m \in G \cup then : IsOwnership(m) => m \in F \cup W
  <2>1. ASSUME NEW m \in then, IsOwnership(m) PROVE m \in W
    <3>1. ~IsMeta(c, m)
      BY <2>1, ChainsAssumption DEF IsMeta, IsOwnership, IsOwnershipName
    <3> QED  BY <1>2, <3>1
  <2>2. \A m \in G : m \in F \cup W
    BY <1>6, <1>8
  <2> QED  BY <2>1, <2>2
<1>11. \A ch \in ZoneChanges(G, then) : IsRecord(ch.record)
  <2>1. \A q \in G : IsRecord(q)
    BY <1>1, <1>6, <1>8
  <2> QED  BY <1>2, <2>1, ChangesAre
<1>12. ASSUME NEW ch \in left PROVE IsMeta(c, ch.record)
  <2> SUFFICES ASSUME ~IsMeta(c, ch.record) PROVE FALSE
    OBVIOUS
  <2>1. ch \in ZoneChanges(F, W) /\ ch \notin T /\ IsRecord(ch.record)
    BY <1>5, <1>9, <1>11, <1>12
  <2>2. \A j \in DOMAIN c : KeepsChange(c[j], F, W, ch)
    BY <1>5, <1>10, <1>12, StillTakenOut DEF SameRecord
  <2>3. ch \in kept /\ OnlyMeta(c, MetaValues(run), F, kept)
    BY <1>3, <1>5, <2>1, <2>2
  <2>4. PICK m \in DOMAIN c : /\ c[m].class = "meta"
                              /\ IsUpToDateMeta(c[m], ch, F, MetaValues(run))
    BY <2>3 DEF OnlyMeta
  <2> QED  BY <2>1, <2>4 DEF IsUpToDateMeta, IsMeta
<1>13. ASSUME NEW ch \in left, NEW m \in DOMAIN c, c[m].class = "meta"
       PROVE  /\ ch = Update(MetaRecord(c[m], MetaValues(later)))
              /\ IsUpToDateMeta(c[m], ch, G, MetaValues(later))
  <2> DEFINE M == MetaRecord(c[m], MetaValues(run))
             N == MetaRecord(c[m], MetaValues(later))
  <2>1. IsMeta(c, ch.record) /\ ch \in ZoneChanges(G, then)
    BY <1>5, <1>12, <1>13
  <2>2. /\ M \in W /\ \A q \in W : IsMeta(c, q) => q = M
        /\ N \in then /\ \A q \in then : IsMeta(c, q) => q = N
    BY <1>1, <1>2, <1>13
  <2>3. /\ IsMeta(c, M) /\ Concerns(M) /\ M.value = MetaValues(run) /\ ~IsOwnership(M)
        /\ IsMeta(c, N) /\ Concerns(N) /\ N.value = MetaValues(later) /\ ~IsOwnership(N)
        /\ N.name = c[m].record_name /\ N.type = "TXT" /\ SameRecord(M, N)
    BY <1>13, MetaRecordIs DEF SameRecord
  <2>4. Keys(M.value) = Keys(N.value)
    BY <2>3 DEF MetaKeysStay
  <2> HIDE DEF M, N
  <2>5. ch.record = N /\ ch # Delete(N)
    <3>1. CASE ch = Delete(ch.record) /\ ~HasSame(then, ch.record)
      <4>1. PICK i \in DOMAIN c : c[i].class = "meta" /\ ch.record.name = c[i].record_name
        BY <2>1 DEF IsMeta
      <4>2. i = m
        <5>1. i <= m /\ m <= i
          BY <1>13, <4>1 DEF MetaComesLast
        <5>2. DOMAIN c = 1 .. Len(c) /\ Len(c) \in Nat
          BY ChainIs
        <5> QED  BY <5>1, <5>2
      <4>3. SameRecord(N, ch.record)
        BY <2>1, <2>3, <4>1, <4>2 DEF IsMeta, SameRecord
      <4> QED  BY <2>2, <3>1, <4>3 DEF HasSame
    <3>2. CASE ch = Create(ch.record) /\ ch.record \in then
      BY <2>1, <2>2, <3>2 DEF Create, Delete
    <3>3. CASE ch = Update(ch.record) /\ ch.record \in then
      BY <2>1, <2>2, <3>3 DEF Update, Delete
    <3> QED  BY <2>1, <3>1, <3>2, <3>3, ChangesAre
  <2>6. \A x : x.record = M => \A j \in DOMAIN c : KeepsChange(c[j], F, W, x)
    <3> SUFFICES ASSUME NEW x, x.record = M, NEW j \in DOMAIN c PROVE KeepsChange(c[j], F, W, x)
      OBVIOUS
    <3>1. KeepsChange(c[j], G, then, ch)
      BY <1>5, <1>13
    <3>2. SameRecord(x.record, ch.record) /\ ~IsOwnership(ch.record)
      BY <2>3, <2>5
    <3> QED  BY <1>10, <3>1, <3>2, StillTakenOut
  <2>7. \A x \in ZoneChanges(F, W) : x.record = M /\ x \notin T =>
          \E s \in F : SameRecord(s, M) /\ Keys(s.value) = Keys(M.value)
    <3> SUFFICES ASSUME NEW x \in ZoneChanges(F, W), x.record = M, x \notin T
                 PROVE  \E s \in F : SameRecord(s, M) /\ Keys(s.value) = Keys(M.value)
      OBVIOUS
    <3>1. x \in kept
      BY <1>5, <2>6
    <3>2. OnlyMeta(c, MetaValues(run), F, kept)
      BY <1>3, <3>1
    <3>3. PICK i \in DOMAIN c : IsUpToDateMeta(c[i], x, F, MetaValues(run))
      BY <3>1, <3>2 DEF OnlyMeta
    <3> QED  BY <2>3, <3>3 DEF IsUpToDateMeta
  <2>8. ch # Create(N)
    <3> SUFFICES ASSUME ch = Create(N) PROVE FALSE
      OBVIOUS
    <3>1. ~HasSame(G, N) /\ Concerns(N) /\ Supports(N)
      BY <2>1, <2>5, ChangesAre DEF Create, Update, Delete
    <3>2. M \notin L
      BY <1>1, <1>6, <2>2, <2>3, <3>1 DEF HasSame
    <3>3. Create(M) \notin T /\ Update(M) \notin T
      BY <1>8, <3>2
    <3>4. Supports(M)
      BY <2>3, <3>1 DEF Supports, SameRecord
    <3>5. CASE HasSame(F, M)
      <4>1. PICK f \in F : SameRecord(f, M)
        BY <3>5 DEF HasSame
      <4>2. f \notin G
        BY <2>3, <3>1, <4>1 DEF HasSame, SameRecord
      <4>3. f \in E /\ f \notin L
        <5>1. HasSame(W, f)
          BY <2>2, <4>1 DEF HasSame, SameRecord
        <5> QED  BY <1>6, <4>1, <4>2, <5>1
      <4>4. PICK x \in T : SameRecord(f, x.record)
        BY <1>8, <4>3
      <4>5. x \in ZoneChanges(F, W) /\ SameRecord(x.record, M) /\ HasSame(W, x.record)
        BY <1>7, <2>2, <4>1, <4>4 DEF HasSame, SameRecord
      <4>6. (x = Create(x.record) \/ x = Update(x.record)) /\ x.record \in W
        BY <4>5, ChangesAre
      <4>7. x.record = M
        BY <1>1, <2>2, <4>5, <4>6 DEF IsKeyed
      <4> QED  BY <3>3, <4>4, <4>6, <4>7
    <3>6. CASE ~HasSame(F, M)
      <4>1. Create(M) \in ZoneChanges(F, W)
        BY <2>2, <2>3, <3>4, <3>6 DEF ZoneChanges, Created
      <4>2. Create(M).record = M
        BY DEF Create
      <4>3. \E s \in F : SameRecord(s, M)
        BY <2>7, <3>3, <4>1, <4>2
      <4> QED  BY <3>6, <4>3 DEF HasSame
    <3> QED  BY <3>5, <3>6
  <2>9. ch = Update(N)
    BY <2>1, <2>5, <2>8, ChangesAre
  <2>10. \E s \in G : SameRecord(s, N) /\ Keys(s.value) = Keys(N.value)
    <3>1. PICK s \in G : SameRecord(s, N) /\ Concerns(s) /\ Differs(s, N)
      BY <2>1, <2>5, <2>9, ChangesAre DEF Create, Update, Delete
    <3>2. IsMeta(c, s) /\ SameRecord(s, M)
      <4>1. IsRecord(s)
        BY <1>1, <1>6, <1>8
      <4> QED  BY <2>3, <3>1, <4>1, SameMeta DEF SameRecord
    <3>3. CASE s \in W
      <4>1. s = M
        BY <2>2, <3>2, <3>3
      <4> QED  BY <2>4, <3>1, <4>1
    <3>4. CASE s \in E /\ \A x \in T : ~SameRecord(s, x.record)
      <4>1. s \in F
        BY <1>6, <3>4
      <4>2. Keys(s.value) = Keys(M.value)
        <5>1. CASE Reads(s.value) = Reads(M.value)
          <6>1. MetaKnown(c, z, s)
            BY <3>4
          <6> QED  BY <2>3, <3>2, <5>1, <6>1, KeysRead
        <5>2. CASE Reads(s.value) # Reads(M.value)
          <6>1. Update(M) \in ZoneChanges(F, W)
            BY <2>2, <2>3, <3>1, <3>2, <4>1, <5>2 DEF ZoneChanges, Updated, Differs
          <6>2. Update(M).record = M
            BY DEF Update
          <6>3. Update(M) \notin T
            BY <3>2, <3>4, <6>2
          <6>4. PICK f \in F : SameRecord(f, M) /\ Keys(f.value) = Keys(M.value)
            BY <2>7, <6>1, <6>2, <6>3
          <6>5. f = s
            BY <1>6, <3>2, <3>4, <6>4 DEF IsKeyed, SameRecord
          <6> QED  BY <6>4, <6>5
        <5> QED  BY <5>1, <5>2
      <4> QED  BY <2>4, <3>1, <4>2
    <3> QED  BY <1>6, <1>8, <3>3, <3>4
  <2>11. Update(N).record = N
    BY DEF Update
  <2>12. IsUpToDateMeta(c[m], ch, G, MetaValues(later))
    BY <2>3, <2>9, <2>10, <2>11 DEF IsUpToDateMeta
  <2> QED  BY <2>9, <2>12 DEF N
<1>14. CASE left # {}
  <2>1. PICK ch \in left : IsMeta(c, ch.record)
    BY <1>12, <1>14
  <2>2. PICK m \in DOMAIN c : c[m].class = "meta"
    BY <2>1 DEF IsMeta
  <2>3. left = {ch} /\ IsUpToDateMeta(c[m], ch, G, MetaValues(later))
    BY <1>13, <2>1, <2>2
  <2>4. OnlyMeta(c, MetaValues(later), G, left)
    BY <2>2, <2>3 DEF OnlyMeta
  <2> QED  BY <1>4, <2>4 DEF L, T
<1> QED  BY <1>4, <1>14 DEF L, T

-----------------------------------------------------------------------------
(* What a task has ready for its plan, its challenges among what the        *)
(* AcmeManagingProcessor remembers.                                         *)
Ready ==
  \A z \in ZoneSet :
    /\ stage[z] \in {"queued", "processed"} => source[z] \in Sources(chain, z)
    /\ stage[z] = "processed" =>
         desired[z] = SourceChain(chain, source[z]) /\ Seen(chain, source[z]) \subseteq owned

LEMMA ReadyInit == Init => Ready
BY DEF Init, Ready

LEMMA ReadyStep == Types /\ Ready /\ [Next]_vars => Ready'
<1> SUFFICES ASSUME Types, Ready, [Next]_vars PROVE Ready'
  OBVIOUS
<1>1. CASE StartRun
  <2>1. \A z \in ZoneSet : source'[z] \in Sources(chain, z)
    BY <1>1 DEF StartRun
  <2> QED  BY <1>1, <2>1, StartIs DEF Ready
<1>2. CASE Ends
  BY <1>2, EndIs DEF Ready
<1>3. CASE UNCHANGED <<chain, source, stage, desired, owned>>
  BY <1>3 DEF Ready
<1>4. ASSUME NEW y \in ZoneSet, ProcessSource(y) PROVE Ready'
  <2>1. /\ UNCHANGED <<chain, source>> /\ stage[y] = "queued"
        /\ \A z \in ZoneSet \ {y} : stage'[z] = stage[z] /\ desired'[z] = desired[z]
        /\ owned \subseteq owned'
    BY <1>4, ProcessIs
  <2>2. stage'[y] = "processed" =>
          desired'[y] = SourceChain(chain, source[y]) /\ Seen(chain, source[y]) \subseteq owned'
    BY <1>4 DEF ProcessSource, Types, IsMap
  <2>3. \A z \in ZoneSet : z # y => stage'[z] = stage[z] /\ desired'[z] = desired[z]
    BY <2>1
  <2>4. ASSUME NEW z \in ZoneSet
        PROVE  /\ stage'[z] \in {"queued", "processed"} => source'[z] \in Sources(chain', z)
               /\ stage'[z] = "processed" =>
                    /\ desired'[z] = SourceChain(chain', source'[z])
                    /\ Seen(chain', source'[z]) \subseteq owned'
    <3>1. CASE z = y
      BY <2>1, <2>2, <3>1 DEF Ready
    <3>2. CASE z # y
      BY <2>1, <2>3, <3>2 DEF Ready
    <3> QED  BY <3>1, <3>2
  <2> QED  BY <2>4 DEF Ready
<1>5. ASSUME NEW y \in ZoneSet, PlanZone(y) PROVE Ready'
  <2>1. /\ UNCHANGED <<chain, source, owned>> /\ stage'[y] \in {"failed", "planned"}
        /\ \A z \in ZoneSet \ {y} : stage'[z] = stage[z] /\ desired'[z] = desired[z]
    BY <1>5, PlanIs
  <2> QED  BY <2>1 DEF Ready
<1>6. ASSUME NEW y \in ZoneSet, ApplyNext(y) PROVE Ready'
  BY <1>3, <1>6, ApplyIs
<1>7. ASSUME NEW y \in ZoneSet, EditLive(y) PROVE Ready'
  BY <1>3, <1>7, EditIs
<1>8. CASE UNCHANGED vars
  BY <1>3, <1>8 DEF vars, runVars
<1> QED  BY <1>1, <1>2, <1>4, <1>5, <1>6, <1>7, <1>8, StepIs

(* A task that sees no challenge for another zone sees what its own         *)
(* sources let it see.                                                      *)
LEMMA SeesOwnZone ==
  ASSUME Types, Ready, NEW z \in ZoneSet, stage[z] = "processed", ~SeesForAnother(z)
  PROVE  FoundBy(chain, source[z], owned, live[z]) = Found(chain, source[z], live[z])
<1> DEFINE own == Seen(chain, source[z])
<1>1. own \subseteq owned
  BY DEF Ready
<1>2. ASSUME NEW r \in live[z] PROVE KeepsChallenge(r, owned) <=> KeepsChallenge(r, own)
  BY <1>1 DEF SeesForAnother, KeepsChallenge, HasSame
<1> HIDE DEF own
<1>3. ASSUME NEW r \in live[z], NEW j \in DOMAIN chain
      PROVE  LetsPass(chain[j], owned, r) <=> LetsPass(chain[j], own, r)
  <2>1. CASE chain[j].class = "acme"
    BY <1>2, <2>1 DEF LetsPass, TargetZone
  <2>2. CASE chain[j].class # "acme"
    BY <2>2 DEF LetsPass, TargetZone
  <2> QED  BY <2>1, <2>2
<1> QED  BY <1>3 DEF Found, FoundBy, InSightBy, own

LEMMA PlannedIs ==
  ASSUME Types, Ready, NEW z \in ZoneSet, PlanZone(z), stage'[z] = "planned"
  PROVE  /\ ~BothChainRaises(chain, MetaValues(runs), SourceChain(chain, source[z]))
         /\ todo'[z] = PlannedBy(chain, source[z], owned, runs, live[z])
         /\ settled' = {s \in settled : s[1] # z} \cup {<<z, source[z]>>}
<1> DEFINE D == SourceChain(chain, source[z])
           visible == live[z] \ Unconfigured(live[z], desired[z])
           found == TargetChain(chain, owned, visible)
           wanted == BothChain(chain, MetaValues(runs), desired[z])
           changes == ZoneChanges(found, wanted)
           plan == PlanChain(chain, MetaValues(runs), found, wanted, changes)
           raises == \/ TargetChainRaises(chain, owned, visible)
                     \/ BothChainRaises(chain, MetaValues(runs), desired[z])
                     \/ PlanChainRaises(chain, MetaValues(runs), found, wanted, changes)
<1>1. /\ stage[z] = "processed"
      /\ \/ raises /\ stage' = [stage EXCEPT ![z] = "failed"]
         \/ ~raises /\ todo' = [todo EXCEPT ![z] = plan]
      /\ settled' = IF raises THEN settled
                    ELSE {s \in settled : s[1] # z} \cup {<<z, source[z]>>}
  BY DEF PlanZone
<1>2. ~raises => ~BothChainRaises(chain, MetaValues(runs), desired[z])
  OBVIOUS
<1>3. desired[z] = D /\ chain \in Chains
  BY <1>1 DEF Ready, Types
<1>4. found = FoundBy(chain, source[z], owned, live[z])
  <2>1. \A r \in live[z] : r \in visible <=> (RootNsIn(D) = {} => ~IsRootNs(r))
    BY <1>3 DEF Unconfigured, RootNsIn
  <2>2. found = {r \in visible : \A j \in DOMAIN chain : LetsPass(chain[j], owned, r)}
    BY <1>3, TargetOneByOne
  <2>3. visible \subseteq live[z]
    OBVIOUS
  <2> HIDE DEF visible, found, D
  <2>4. found = {r \in live[z] : /\ RootNsIn(D) = {} => ~IsRootNs(r)
                                 /\ \A j \in DOMAIN chain : LetsPass(chain[j], owned, r)}
    BY <2>1, <2>2, <2>3
  <2> QED  BY <2>4 DEF FoundBy, InSightBy, D
<1>5. wanted = Wanted(chain, source[z], runs)
  BY <1>3 DEF Wanted
<1>6. plan = PlannedBy(chain, source[z], owned, runs, live[z])
  BY <1>4, <1>5 DEF PlannedBy
<1> HIDE DEF D, visible, found, wanted, changes, plan, raises
<1>7. ~raises
  BY <1>1 DEF Types, IsMap
<1>8. todo'[z] = plan
  BY <1>1, <1>7 DEF Types, IsMap
<1> QED  BY <1>1, <1>2, <1>3, <1>6, <1>7, <1>8 DEF D

LEMMA NotPlannedIs ==
  ASSUME Types, NEW z \in ZoneSet, PlanZone(z), stage'[z] # "planned"
  PROVE  UNCHANGED <<todo, settled>>
<1>1. \/ stage' = [stage EXCEPT ![z] = "planned"]
      \/ UNCHANGED <<todo, settled>>
  BY DEF PlanZone
<1> QED  BY <1>1 DEF Types, IsMap

(* The changes of a plan are of different records, and the meta record at   *)
(* the target is there already or a run has made it.                        *)
Sorted ==
  \A z \in ZoneSet :
    /\ \A x, y \in todo[z] : SameRecord(x.record, y.record) => x = y
    /\ \A r \in live[z] : MetaKnown(chain, z, r)
    /\ \A x \in todo[z] : x.kind # "Delete" => MetaKnown(chain, z, x.record)

LEMMA ChangesKeyed ==
  ASSUME NEW E, NEW D, IsKeyed(E), IsKeyed(D),
         NEW x \in ZoneChanges(E, D), NEW y \in ZoneChanges(E, D), SameRecord(x.record, y.record)
  PROVE  x = y
<1>1. x.record = y.record \/ (x.record \in E /\ y.record \in D) \/ (x.record \in D /\ y.record \in E)
  BY ChangesAre DEF IsKeyed
<1>2. HasSame(E, x.record) <=> HasSame(E, y.record)
  BY DEF HasSame, SameRecord
<1>3. HasSame(D, x.record) <=> HasSame(D, y.record)
  BY DEF HasSame, SameRecord
<1>4. \A q \in {x, y} :
        \/ q = Delete(q.record) /\ q.record \in E /\ ~HasSame(D, q.record)
        \/ q = Create(q.record) /\ q.record \in D /\ ~HasSame(E, q.record)
        \/ /\ q = Update(q.record) /\ q.record \in D /\ HasSame(D, q.record)
           /\ HasSame(E, q.record)
  BY ChangesAre DEF HasSame, SameRecord
<1>5. \A q \in {x, y} : q.record \in D => HasSame(D, q.record)
  BY DEF HasSame, SameRecord
<1> QED  BY <1>2, <1>3, <1>4, <1>5 DEF IsKeyed

LEMMA SortedInit == Init => Sorted
<1> SUFFICES ASSUME Init, NEW z \in ZoneSet
             PROVE  todo[z] = {} /\ \A r \in live[z] : r \in UNION Lives(chain, z)
  BY DEF Sorted, MetaKnown
<1> QED  BY DEF Init

LEMMA SortedStep ==
  ASSUME MarksAreOwn, FiltersPass, FiltersPassValues, MetaComesLast, MetaKeysStay
  PROVE  Types /\ Held /\ Ready /\ Sorted /\ [Next]_vars => Sorted'
<1> SUFFICES ASSUME Types, Held, Ready, Sorted, [Next]_vars, NEW z \in ZoneSet
             PROVE  /\ \A x, y \in todo'[z] : SameRecord(x.record, y.record) => x = y
                    /\ \A r \in live'[z] : MetaKnown(chain', z, r)
                    /\ \A x \in todo'[z] : x.kind # "Delete" => MetaKnown(chain', z, x.record)
  BY DEF Sorted
<1> DEFINE Goal == /\ \A x, y \in todo'[z] : SameRecord(x.record, y.record) => x = y
                   /\ \A r \in live'[z] : MetaKnown(chain', z, r)
                   /\ \A x \in todo'[z] : x.kind # "Delete" => MetaKnown(chain', z, x.record)
<1>0. /\ chain' = chain
      /\ \A x, y \in todo[z] : SameRecord(x.record, y.record) => x = y
      /\ \A r \in live[z] : MetaKnown(chain, z, r)
      /\ \A x \in todo[z] : x.kind # "Delete" => MetaKnown(chain, z, x.record)
  BY SameChain DEF Sorted
<1>a. ASSUME live'[z] = live[z], todo'[z] \in {{}, todo[z]} PROVE Goal
  BY <1>0, <1>a
<1>1. ASSUME StartRun PROVE Goal
  BY <1>1, <1>a, StartIs
<1>2. ASSUME Ends PROVE Goal
  BY <1>2, <1>a, EndIs
<1>3. ASSUME UNCHANGED vars PROVE Goal
  BY <1>3, <1>a DEF vars, runVars
<1>4. ASSUME NEW y \in ZoneSet, ProcessSource(y) PROVE Goal
  BY <1>4, <1>a, ProcessIs
<1>5. ASSUME NEW y \in ZoneSet, PlanZone(y) PROVE Goal
  <2>1. live' = live
    BY <1>5, PlanIs
  <2>2. CASE y # z \/ stage'[z] # "planned"
    <3>1. todo'[z] = todo[z]
      BY <1>5, <2>2, PlanIs, NotPlannedIs
    <3> QED  BY <1>a, <2>1, <3>1
  <2>3. CASE y = z /\ stage'[z] = "planned"
    <3> DEFINE S == source[z]
               found == FoundBy(chain, S, owned, live[z])
               wanted == Wanted(chain, S, runs)
    <3>1. /\ ~BothChainRaises(chain, MetaValues(runs), SourceChain(chain, S))
          /\ todo'[z] = PlanChain(chain, MetaValues(runs), found, wanted, ZoneChanges(found, wanted))
      BY <1>5, <2>3, PlannedIs DEF PlannedBy
    <3>2. stage[z] = "processed" /\ chain \in Chains /\ runs \in 0 .. MaxRuns
      BY <1>5, <2>3, PlanIs DEF Types
    <3>3. S \in Sources(chain, z)
      BY <3>2 DEF Ready
    <3>4. /\ IsKeyed(wanted) /\ \A q \in wanted : IsRecord(q)
          /\ \A m \in DOMAIN chain : chain[m].class = "meta" =>
               \A q \in wanted : IsMeta(chain, q) => q = MetaRecord(chain[m], MetaValues(runs))
      BY <3>1, <3>2, <3>3, SameWanted
    <3>5. IsKeyed(found)
      BY DEF FoundBy, Held, IsKeyed
    <3> HIDE DEF found, wanted
    <3>6. todo'[z] \subseteq ZoneChanges(found, wanted)
      BY <3>1, <3>2, PlanWithin
    <3>7. ASSUME NEW q \in wanted PROVE MetaKnown(chain, z, q)
      <4> SUFFICES ASSUME IsMeta(chain, q) PROVE q.value = MetaValues(runs)
        BY <3>2 DEF MetaKnown
      <4>1. PICK m \in DOMAIN chain : chain[m].class = "meta"
        BY DEF IsMeta
      <4>2. q = MetaRecord(chain[m], MetaValues(runs))
        BY <3>4, <3>7, <4>1
      <4> QED  BY <3>2, <4>1, <4>2, MetaRecordIs
    <3>8. \A x \in todo'[z] : x.kind # "Delete" => MetaKnown(chain', z, x.record)
      BY <1>0, <3>6, <3>7, ChangeIs
    <3>9. \A x, v \in todo'[z] : SameRecord(x.record, v.record) => x = v
      BY <3>4, <3>5, <3>6, ChangesKeyed
    <3> QED  BY <1>0, <2>1, <3>8, <3>9
  <2> QED  BY <2>2, <2>3
<1>6. ASSUME NEW y \in ZoneSet, ApplyNext(y) PROVE Goal
  <2>1. CASE y # z
    BY <1>6, <1>a, <2>1, ApplyIs
  <2>2. CASE y = z
    <3>1. PICK x \in todo[z] : live'[z] = ApplyChange(live[z], x) /\ todo'[z] = todo[z] \ {x}
      BY <1>6, <2>2, ApplyIs
    <3>2. \A r \in live'[z] : r \in live[z] \/ (x.kind # "Delete" /\ r = x.record)
      BY <3>1 DEF ApplyChange, WithRecord, Discard
    <3> QED  BY <1>0, <3>1, <3>2
  <2> QED  BY <2>1, <2>2
<1>7. ASSUME NEW y \in ZoneSet, EditLive(y) PROVE Goal
  <2>1. todo' = todo
    BY <1>7, EditIs
  <2>2. \A r \in live'[z] : r \in live[z] \/ r \in Others(chain, z)
    BY <1>7, EditIs
  <2> QED  BY <1>0, <2>1, <2>2 DEF MetaKnown
<1> HIDE DEF Goal
<1>8. Goal
  BY <1>1, <1>2, <1>3, <1>4, <1>5, <1>6, <1>7, StepIs
<1> QED  BY <1>8 DEF Goal

(* With what is still to be made of its plan the target is as a run with    *)
(* the same source leaves it alone.                                         *)
LeftAlone(z, S, records) ==
  S \in Sources(chain, z) /\
  \A run \in 0 .. MaxRuns :
    ~BothChainRaises(chain, MetaValues(run), SourceChain(chain, S)) =>
      PlannedOf(chain, S, run, records) = {}
Settled ==
  \A z \in ZoneSet : \A S :
    <<z, S>> \in settled => LeftAlone(z, S, ApplyChanges(live[z], todo[z]))

(* A change more that is made is one less to make.                          *)
LEMMA ApplyOneMore ==
  ASSUME NEW E, NEW T, \A x, y \in T : SameRecord(x.record, y.record) => x = y, NEW ch \in T
  PROVE  ApplyChanges(ApplyChange(E, ch), T \ {ch}) = ApplyChanges(E, T)
<1> DEFINE one == ApplyChange(E, ch)
<1>1. \A x \in T \ {ch} : ~SameRecord(ch.record, x.record)
  OBVIOUS
<1>2. \A r : r \in one <=> \/ r \in E /\ ~SameRecord(r, ch.record)
                           \/ ch.kind # "Delete" /\ r = ch.record
  BY DEF ApplyChange, WithRecord, Discard
<1>3. \A F, C, r : r \in ApplyChanges(F, C) <=>
         \/ r \in F /\ \A x \in C : ~SameRecord(r, x.record)
         \/ \E x \in C : x.kind # "Delete" /\ r = x.record
  BY DEF ApplyChanges, OfKind
<1> HIDE DEF one
<1>4. \A r : r \in ApplyChanges(one, T \ {ch}) <=> r \in ApplyChanges(E, T)
  BY <1>1, <1>2, <1>3
<1>5. ApplyChanges(one, T \ {ch}) \subseteq ApplyChanges(E, T)
  BY <1>4
<1>6. ApplyChanges(E, T) \subseteq ApplyChanges(one, T \ {ch})
  BY <1>4
<1> QED  BY <1>5, <1>6 DEF one

LEMMA NothingToApply == \A E : ApplyChanges(E, {}) = E
BY DEF ApplyChanges, OfKind

LEMMA SettledStep ==
  ASSUME MarksAreOwn, FiltersPass, FiltersPassValues, MetaComesLast, MetaKeysStay
  PROVE  Types /\ Held /\ Ready /\ Sorted /\ Settled /\ [Next]_vars => Settled'
<1> SUFFICES ASSUME Types, Held, Ready, Sorted, Settled, [Next]_vars,
                    NEW z \in ZoneSet, NEW S, <<z, S>> \in settled'
             PROVE  LeftAlone(z, S, ApplyChanges(live[z], todo[z]))'
  BY DEF Settled
<1> DEFINE Goal == LeftAlone(z, S, ApplyChanges(live'[z], todo'[z]))
<1>0. Goal <=> LeftAlone(z, S, ApplyChanges(live[z], todo[z]))'
  BY SameChain DEF LeftAlone
<1>a. ASSUME <<z, S>> \in settled, ApplyChanges(live'[z], todo'[z]) = ApplyChanges(live[z], todo[z])
      PROVE  Goal
  BY <1>a DEF Settled
<1>1. ASSUME StartRun PROVE Goal
  <2>1. settled' = settled
    BY <1>1 DEF StartRun
  <2> QED  BY <1>1, <1>a, <2>1, StartIs
<1>2. ASSUME End, live' = live, \/ settled' = {s \in settled : todo[s[1]] = {}}
                                \/ settled' = settled /\ \A y \in ZoneSet : todo[y] = {}
      PROVE  Goal
  <2>1. <<z, S>> \in settled /\ todo[z] = {} /\ todo'[z] = {}
    BY <1>2 DEF End
  <2> QED  BY <1>2, <1>a, <2>1
<1>3. ASSUME UNCHANGED vars PROVE Goal
  BY <1>3, <1>a DEF vars, runVars
<1>4. ASSUME NEW y \in ZoneSet, ProcessSource(y) PROVE Goal
  <2>1. settled' = settled /\ live' = live /\ todo' = todo
    BY <1>4 DEF ProcessSource
  <2> QED  BY <1>a, <2>1
<1>5. ASSUME NEW y \in ZoneSet, PlanZone(y) PROVE Goal
  <2>1. live' = live /\ \A x \in ZoneSet \ {y} : todo'[x] = todo[x]
    BY <1>5, PlanIs
  <2>2. CASE stage'[y] # "planned"
    BY <1>5, <1>a, <2>1, <2>2, NotPlannedIs
  <2>3. CASE stage'[y] = "planned" /\ y # z
    <3>1. <<z, S>> \in settled
      BY <1>5, <2>3, PlannedIs
    <3> QED  BY <1>a, <2>1, <2>3, <3>1
  <2>4. CASE stage'[y] = "planned" /\ y = z
    <3>1. /\ ~BothChainRaises(chain, MetaValues(runs), SourceChain(chain, source[z]))
          /\ todo'[z] = PlannedBy(chain, source[z], owned, runs, live[z])
          /\ S = source[z]
      BY <1>5, <2>4, PlannedIs
    <3>2. /\ stage[z] = "processed" /\ chain \in Chains /\ runs \in 0 .. MaxRuns
      BY <1>5, <2>4, PlanIs DEF Types
    <3>3. S \in Sources(chain, z) /\ Seen(chain, S) \subseteq owned
      BY <3>1, <3>2 DEF Ready
    <3>4. IsKeyed(live[z]) /\ \A r \in live[z] : IsRecord(r) /\ MetaKnown(chain, z, r)
      BY DEF Held, ComesFrom, Sorted
    <3>5. \A run \in 0 .. MaxRuns :
            ~BothChainRaises(chain, MetaValues(run), SourceChain(chain, S)) =>
              PlannedOf(chain, S, run, ApplyChanges(live[z], todo'[z])) = {}
      BY <3>1, <3>2, <3>3, <3>4, PlannedOnce
    <3> QED  BY <2>1, <3>3, <3>5 DEF LeftAlone
  <2> QED  BY <2>2, <2>3, <2>4
<1>6. ASSUME NEW y \in ZoneSet, ApplyNext(y) PROVE Goal
  <2>0. settled' = settled
    BY <1>6 DEF ApplyNext
  <2>1. CASE y # z
    BY <1>6, <1>a, <2>0, <2>1, ApplyIs
  <2>2. CASE y = z
    <3>1. PICK x \in todo[z] : live'[z] = ApplyChange(live[z], x) /\ todo'[z] = todo[z] \ {x}
      BY <1>6, <2>2, ApplyIs
    <3>2. ApplyChanges(live'[z], todo'[z]) = ApplyChanges(live[z], todo[z])
      BY <3>1, ApplyOneMore DEF Sorted
    <3> QED  BY <1>a, <2>0, <3>2
  <2> QED  BY <2>1, <2>2
<1>7. ASSUME NEW y \in ZoneSet, EditLive(y) PROVE Goal
  <2>1. settled' = {s \in settled : s[1] # y}
    BY <1>7 DEF EditLive
  <2>2. <<z, S>> \in settled /\ y # z
    BY <2>1
  <2> QED  BY <1>7, <1>a, <2>2, EditIs
<1> HIDE DEF Goal
<1>8. Goal
  <2>1. \/ StartRun \/ UNCHANGED vars
        \/ /\ End /\ live' = live
           /\ \/ settled' = {s \in settled : todo[s[1]] = {}}
              \/ settled' = settled /\ \A y \in ZoneSet : todo[y] = {}
        \/ \E y \in ZoneSet : ProcessSource(y) \/ PlanZone(y) \/ ApplyNext(y) \/ EditLive(y)
    BY DEF Next, Abort, FailApply, Finish, EndEarly
  <2> QED  BY <1>1, <1>2, <1>3, <1>4, <1>5, <1>6, <1>7, <2>1
<1> QED  BY <1>0, <1>8

(* When the sources are what they were in a run that ended well and nobody  *)
(* has touched the target since, nothing is planned, in any chain that has  *)
(* its MetaProcessor last and whose filters let pass what it makes, unless  *)
(* a challenge at the target is seen for another zone.  What the processors *)
(* took out of the plan they take out again; what they let pass is there,   *)
(* and they see it; and the meta record alone is no reason.                 *)
THEOREM RunsAreQuiet ==
  ASSUME MarksAreOwn, FiltersPass, FiltersPassValues, MetaComesLast, MetaKeysStay
  PROVE  Spec => Quiet
<1> DEFINE Inv == Types /\ Made /\ Held /\ Ready /\ Sorted /\ Settled
<1>1. Init => Ready /\ Sorted /\ Settled
  BY ReadyInit, SortedInit DEF Init, Settled
<1>2. Inv /\ [Next]_vars =>
        [\A z \in ZoneSet :
           stage[z] = "processed" /\ stage'[z] = "planned" /\ <<z, source[z]>> \in settled
             => SeesForAnother(z) \/ todo'[z] = {}]_vars
  <2> SUFFICES ASSUME Inv, [Next]_vars, NEW z \in ZoneSet,
                      stage[z] = "processed", stage'[z] = "planned", <<z, source[z]>> \in settled,
                      ~SeesForAnother(z)
               PROVE  todo'[z] = {}
    OBVIOUS
  <2>1. PlanZone(z)
    <3>1. ~StartRun /\ ~Ends /\ ~UNCHANGED vars
      BY StartIs, EndIs DEF vars
    <3>2. \A y \in ZoneSet : ~ProcessSource(y) /\ ~ApplyNext(y) /\ ~EditLive(y)
      BY ProcessIs, ApplyIs, EditIs
    <3>3. \A y \in ZoneSet : PlanZone(y) => y = z
      BY PlanIs
    <3> QED  BY <3>1, <3>2, <3>3, StepIs
  <2>2. /\ ~BothChainRaises(chain, MetaValues(runs), SourceChain(chain, source[z]))
        /\ todo'[z] = PlannedOf(chain, source[z], runs, live[z])
    BY <2>1, PlannedIs, SeesOwnZone DEF PlannedOf, PlannedBy, Found
  <2>3. ApplyChanges(live[z], todo[z]) = live[z]
    BY NothingToApply DEF Types
  <2>4. LeftAlone(z, source[z], live[z])
    BY <2>3 DEF Settled
  <2>5. runs \in 0 .. MaxRuns
    BY DEF Types
  <2> QED  BY <2>2, <2>4, <2>5 DEF LeftAlone
<1> QED  BY <1>1, <1>2, HeldInvariant, ReadyStep, SortedStep, SettledStep, PTL DEF Spec, Quiet
=============================================================================
