------------------------- MODULE ValidationProofs -------------------------
(***************************************************************************)
(* Three things about the registries, whatever other Managers did before   *)
(* in the process and whatever record types providers brought: the bridges *)
(* are always active; what a zone admits has passed what is active; and    *)
(* what is active is exactly what the configuration asks for.              *)
(*                                                                         *)
(* And what that is worth to a zone, whatever records it has: its dynamic  *)
(* parts serve every client, its loops are found, its mail records agree,  *)
(* and where it is accepted a resolver finds its way through it.           *)
(*                                                                         *)
(* What DynamicValidator accepts serves every client.  The walk over the   *)
(* fallbacks of a pool ends, or else it would meet more different pools    *)
(* than there are.  Each pool is somebody's, for otherwise every pool that *)
(* nobody is sent to would be the fallback of another such pool; a pool    *)
(* has one fallback, so those pools would form circles, and walks in a     *)
(* circle do not end.                                                      *)
(*                                                                         *)
(* The search for loops of aliases finds each loop once and nothing else.  *)
(* What was seen is closed: an alias leads to one that was seen or to      *)
(* none.  So a loop is either seen in full or not at all, and a walk from  *)
(* an alias that was not seen yet goes round at most one loop: the last    *)
(* part of its path.                                                       *)
(*                                                                         *)
(* The mail check needs no such argument, only its cases.                  *)
(***************************************************************************)
EXTENDS Validation, FiniteSetTheorems, SequenceTheorems, WellFoundedInduction, TLAPS

-----------------------------------------------------------------------------
(* What DynamicRecords and ZoneChecks promise by themselves                 *)

(* The least of some naturals. *)
LEMMA LeastOf ==
  ASSUME NEW T, T \subseteq Nat, T # {}
  PROVE  \E x \in T : \A y \in T : x <= y
<1> DEFINE R == OpToRel(<, Nat)
<1>1. R = {ss \in Nat \X Nat : ss[1] < ss[2]}
  BY DEF OpToRel
<1>2. IsWellFoundedOn(R, Nat)
  BY NatLessThanWellFounded
<1> HIDE DEF R
<1>3. PICK x \in T : \A y \in T : ~(<<y, x>> \in R)
  BY <1>2, WFMin
<1>4. ASSUME NEW y \in T PROVE x <= y
  <2>1. x \in Nat /\ y \in Nat
    OBVIOUS
  <2>2. ~(y < x)
    BY <1>1, <1>3, <2>1
  <2> QED  BY <2>1, <2>2
<1> QED  BY <1>3, <1>4

-----------------------------------------------------------------------------
(* The walk over the fallbacks *)

Turns(pools) == Cardinality(DOMAIN pools) + 1
IsTrail(trail, n, pools, id) ==
  trail = [i \in 0 .. n |-> IF i = 0 THEN {id} ELSE NextPool(pools, trail[i - 1])]

(* The walk can be taken for any number of turns. *)
LEMMA TrailExists ==
  ASSUME NEW pools, NEW id, NEW n \in Nat
  PROVE  \E trail : IsTrail(trail, n, pools, id)
<1> DEFINE T == {k \in Nat : ~\E trail : IsTrail(trail, k, pools, id)}
<1> SUFFICES ASSUME T # {} PROVE FALSE
  OBVIOUS
<1>1. PICK m \in T : \A k \in T : m <= k
  BY LeastOf
<1>2. m # 0
  <2>1. IsTrail([i \in 0 .. 0 |-> {id}], 0, pools, id)
    BY DEF IsTrail
  <2> QED  BY <2>1
<1>3. PICK f : IsTrail(f, m - 1, pools, id)
  BY <1>1, <1>2
<1> DEFINE g == [i \in 0 .. m |-> IF i < m THEN f[i] ELSE NextPool(pools, f[m - 1])]
<1>4. \A i \in 0 .. m - 1 : g[i] = f[i]
  BY <1>1
<1>5. ASSUME NEW i \in 0 .. m
      PROVE  g[i] = IF i = 0 THEN {id} ELSE NextPool(pools, g[i - 1])
  <2>1. CASE i = 0
    BY <1>1, <1>2, <1>3, <2>1 DEF IsTrail
  <2>2. CASE i # 0 /\ i < m
    <3>1. i \in 0 .. m - 1 /\ i - 1 \in 0 .. m - 1
      BY <1>1, <2>2
    <3>2. f[i] = NextPool(pools, f[i - 1])
      BY <1>3, <2>2, <3>1 DEF IsTrail
    <3> QED  BY <1>4, <2>2, <3>1, <3>2
  <2>3. CASE i = m
    <3>1. i - 1 \in 0 .. m - 1
      BY <1>1, <1>2, <2>3
    <3> QED  BY <1>1, <1>2, <1>4, <2>3, <3>1
  <2> QED  BY <1>1, <2>1, <2>2, <2>3
<1>6. IsTrail(g, m, pools, id)
  BY <1>5 DEF IsTrail
<1> QED  BY <1>1, <1>6

(* The turns of Trail. *)
LEMMA TrailStages ==
  ASSUME NEW pools, IsFiniteSet(DOMAIN pools), NEW id
  PROVE  IsTrail(Trail(pools, id), Turns(pools), pools, id)
<1>1. Turns(pools) \in Nat
  BY FS_CardinalityType DEF Turns
<1>2. PICK f : IsTrail(f, Turns(pools), pools, id)
  BY <1>1, TrailExists
<1>3. Trail(pools, id) =
        CHOOSE trail : trail = [n \in 0 .. Turns(pools) |->
                                  IF n = 0 THEN {id} ELSE NextPool(pools, trail[n - 1])]
  BY DEF Trail, Turns
<1> QED  BY <1>2, <1>3 DEF IsTrail

(* what the code asks of the fallbacks *)
FallbacksExist(pools) ==
  /\ IsFiniteSet(DOMAIN pools)
  /\ \A id \in DOMAIN pools :
       AtMostOne(pools[id].fallback) /\ pools[id].fallback \subseteq DOMAIN pools

(* Each turn meets one pool that there is, or none from some turn on. *)
LEMMA TrailInPools ==
  ASSUME NEW pools, FallbacksExist(pools), NEW id \in DOMAIN pools
  PROVE  /\ Trail(pools, id)[0] = {id}
         /\ \A n \in 1 .. Turns(pools) :
              Trail(pools, id)[n] = NextPool(pools, Trail(pools, id)[n - 1])
         /\ \A n \in 0 .. Turns(pools) :
              Trail(pools, id)[n] \subseteq DOMAIN pools /\ AtMostOne(Trail(pools, id)[n])
         /\ DOMAIN Trail(pools, id) = 0 .. Turns(pools)
<1> DEFINE trail == Trail(pools, id)
           Fine(ids) == ids \subseteq DOMAIN pools /\ AtMostOne(ids)
<1>1. Turns(pools) \in Nat
  BY FS_CardinalityType DEF Turns, FallbacksExist
<1>2. IsTrail(trail, Turns(pools), pools, id)
  BY TrailStages DEF FallbacksExist
<1> HIDE DEF trail
<1>3. trail[0] = {id} /\ DOMAIN trail = 0 .. Turns(pools)
  BY <1>1, <1>2 DEF IsTrail
<1>4. ASSUME NEW n \in 1 .. Turns(pools)
      PROVE  trail[n] = NextPool(pools, trail[n - 1])
  <2>1. n \in 0 .. Turns(pools) /\ n # 0
    BY <1>1
  <2> QED  BY <1>2, <2>1 DEF IsTrail
<1>5. ASSUME NEW n \in 0 .. Turns(pools), ~Fine(trail[n]) PROVE FALSE
  <2> DEFINE T == {k \in 0 .. Turns(pools) : ~Fine(trail[k])}
  <2>1. PICK m \in T : \A k \in T : m <= k
    <3>1. T \subseteq Nat /\ n \in T
      BY <1>1, <1>5
    <3> HIDE DEF T
    <3> QED  BY <3>1, LeastOf
  <2>2. m # 0
    BY <1>3 DEF AtMostOne
  <2>3. m \in 1 .. Turns(pools) /\ m - 1 \in 0 .. Turns(pools) /\ Fine(trail[m - 1])
    BY <1>1, <2>1, <2>2
  <2>4. trail[m] = UNION {pools[p].fallback : p \in trail[m - 1] \cap DOMAIN pools}
    BY <1>4, <2>3 DEF NextPool
  <2>5. Fine(trail[m])
    BY <2>3, <2>4 DEF AtMostOne, FallbacksExist
  <2> QED  BY <2>1, <2>5
<1> QED  BY <1>3, <1>4, <1>5 DEF trail

(* Where fallbacks never lead back the walk has ended by its last turn: it  *)
(* would have met one pool more than there are.                             *)
LEMMA TrailEnds ==
  ASSUME NEW pools, FallbacksExist(pools), NEW id \in DOMAIN pools, ~LoopsBack(pools, id)
  PROVE  Trail(pools, id)[Turns(pools)] = {}
<1> DEFINE trail == Trail(pools, id)
           N == Turns(pools)
<1>1. N \in Nat /\ N = Cardinality(DOMAIN pools) + 1 /\ Cardinality(DOMAIN pools) \in Nat
  BY FS_CardinalityType DEF Turns, FallbacksExist
<1>2. /\ \A n \in 1 .. N : trail[n] = NextPool(pools, trail[n - 1])
      /\ \A n \in 0 .. N : trail[n] \subseteq DOMAIN pools /\ AtMostOne(trail[n])
      /\ DOMAIN trail = 0 .. N
  BY TrailInPools
<1>3. \A m, n \in DOMAIN trail : ~(m < n /\ n >= 2 /\ trail[n] # {} /\ trail[m] = trail[n])
  BY DEF LoopsBack
<1> HIDE DEF trail, N
<1> SUFFICES ASSUME trail[N] # {} PROVE FALSE
  BY DEF trail, N
<1>4. ASSUME NEW n \in 0 .. N, trail[n] = {} PROVE FALSE
  <2> DEFINE T == {k \in n .. N : trail[k] # {}}
  <2>1. PICK m \in T : \A k \in T : m <= k
    <3>1. T \subseteq Nat /\ N \in T
      BY <1>1, <1>4
    <3> HIDE DEF T
    <3> QED  BY <3>1, LeastOf
  <2>2. m # n
    BY <1>4
  <2>3. m \in 1 .. N /\ m - 1 \in n .. N /\ trail[m - 1] = {}
    BY <1>1, <2>1, <2>2
  <2>4. trail[m] = {}
    BY <1>2, <2>3 DEF NextPool
  <2> QED  BY <2>1, <2>4
<1> DEFINE f == [n \in 1 .. N |-> CHOOSE p \in trail[n] : TRUE]
<1>5. \A n \in 1 .. N : n \in 0 .. N /\ f[n] \in trail[n] /\ f[n] \in DOMAIN pools
  <2> SUFFICES ASSUME NEW n \in 1 .. N
               PROVE n \in 0 .. N /\ f[n] \in trail[n] /\ f[n] \in DOMAIN pools
    OBVIOUS
  <2>1. n \in 0 .. N
    BY <1>1
  <2> QED  BY <1>2, <1>4, <2>1
<1>6. IsFiniteSet(1 .. N) /\ Cardinality(1 .. N) = N
  BY <1>1, FS_Interval
<1>7. f \in [1 .. N -> DOMAIN pools]
  BY <1>5
<1> HIDE DEF f
<1>8. PICK x, y \in 1 .. N : x # y /\ f[x] = f[y]
  BY <1>1, <1>6, <1>7, FS_PigeonHole DEF FallbacksExist
<1>9. trail[x] = trail[y] /\ trail[x] # {}
  <2>1. AtMostOne(trail[x]) /\ AtMostOne(trail[y])
    BY <1>2, <1>5
  <2>2. f[x] \in trail[x] /\ f[x] \in trail[y]
    BY <1>5, <1>8
  <2> QED  BY <2>1, <2>2 DEF AtMostOne
<1>10. x \in DOMAIN trail /\ y \in DOMAIN trail
  BY <1>2, <1>5, <1>8
<1>11. CASE x < y
  BY <1>1, <1>3, <1>8, <1>9, <1>10, <1>11
<1>12. CASE y < x
  BY <1>1, <1>3, <1>8, <1>9, <1>10, <1>12
<1> QED  BY <1>1, <1>8, <1>11, <1>12

(* No pool is left over, where each is named by a rule (R) or is a fallback *)
(* and fallbacks never lead back: a walk from a rule's pool meets it.       *)
LEMMA PoolsReached ==
  ASSUME NEW pools, FallbacksExist(pools), NEW R, R \subseteq DOMAIN pools,
         \A id \in DOMAIN pools : ~LoopsBack(pools, id),
         \A p \in DOMAIN pools : p \in R \/ \E q \in DOMAIN pools : p \in pools[q].fallback,
         NEW lost \in DOMAIN pools
  PROVE  \E r \in R : \E n \in 0 .. Turns(pools) : lost \in Trail(pools, r)[n]
<1> DEFINE N == Turns(pools)
           Met(p) == \E r \in R : \E n \in 0 .. N : p \in Trail(pools, r)[n]
           U == {p \in DOMAIN pools : ~Met(p)}
<1> SUFFICES ASSUME ~Met(lost) PROVE FALSE
  OBVIOUS
<1>1. N \in Nat \ {0}
  BY FS_CardinalityType DEF Turns, FallbacksExist
<1>2. ASSUME NEW p \in U PROVE \E q \in U : p \in pools[q].fallback
  <2>1. p \notin R
    <3>1. SUFFICES ASSUME p \in R PROVE Met(p)
      BY DEF U
    <3>2. p \in Trail(pools, p)[0] /\ 0 \in 0 .. N
      BY <1>1, TrailInPools
    <3> QED  BY <3>1, <3>2
  <2>2. PICK q \in DOMAIN pools : p \in pools[q].fallback
    BY <2>1
  <2>3. ASSUME NEW r \in R, NEW n \in 0 .. N, q \in Trail(pools, r)[n] PROVE FALSE
    <3>1. r \in DOMAIN pools /\ Trail(pools, r)[N] = {}
      BY TrailEnds
    <3>2. n # N
      BY <2>3, <3>1
    <3>3. n + 1 \in 1 .. N /\ n + 1 \in 0 .. N /\ (n + 1) - 1 = n
      BY <1>1, <3>2
    <3>4. Trail(pools, r)[n + 1] = NextPool(pools, Trail(pools, r)[n])
      BY <3>1, <3>3, TrailInPools
    <3>5. p \in Trail(pools, r)[n + 1]
      BY <2>2, <2>3, <3>4 DEF NextPool
    <3>6. Met(p)
      BY <3>3, <3>5
    <3> QED  BY <3>6
  <2> QED  BY <2>2, <2>3
<1>3. U \in SUBSET DOMAIN pools /\ IsFiniteSet(U) /\ lost \in U
  BY FS_Subset DEF FallbacksExist
<1> DEFINE pred == [p \in U |-> CHOOSE q \in U : p \in pools[q].fallback]
<1>4. \A p \in U : pred[p] \in U /\ p \in pools[pred[p]].fallback
  BY <1>2
<1> HIDE DEF pred, Met, U
<1>5. pred \in [U -> U]
  BY <1>4 DEF pred
<1>6. pred \in Injection(U, U)
  <2>1. ASSUME NEW a \in U, NEW b \in U, pred[a] = pred[b] PROVE a = b
    <3>1. a \in pools[pred[a]].fallback /\ b \in pools[pred[a]].fallback /\ pred[a] \in DOMAIN pools
      BY <1>3, <1>4, <2>1
    <3> QED  BY <3>1 DEF FallbacksExist, AtMostOne
  <2>2. IsInjective(pred)
    BY <1>5, <2>1 DEF IsInjective
  <2> QED  BY <1>5, <2>2 DEF Injection
<1>7. pred \in Surjection(U, U)
  BY <1>3, <1>6, FS_Injection
<1>8. ASSUME NEW q \in U PROVE \E p \in U : p \in pools[q].fallback
  BY <1>4, <1>7 DEF Surjection
<1> DEFINE trail == Trail(pools, lost)
           Stays(n) == \E p \in U : p \in trail[n]
<1>9. lost \in DOMAIN pools /\ trail[N] = {}
  BY TrailEnds
<1>10. /\ trail[0] = {lost}
       /\ \A n \in 1 .. N : trail[n] = NextPool(pools, trail[n - 1])
  BY TrailInPools
<1> HIDE DEF trail
<1> DEFINE T == {n \in 0 .. N : ~Stays(n)}
<1>11. T \subseteq Nat /\ N \in T
  BY <1>1, <1>9
<1> HIDE DEF T
<1>12. PICK m \in T : \A n \in T : m <= n
  BY <1>11, LeastOf
<1> USE DEF T
<1>13. m # 0
  BY <1>3, <1>10, <1>12
<1>14. m \in 1 .. N /\ m - 1 \in 0 .. N /\ Stays(m - 1)
  BY <1>1, <1>11, <1>12, <1>13
<1>15. PICK q \in U : q \in trail[m - 1]
  BY <1>14
<1>16. PICK p \in U : p \in pools[q].fallback
  BY <1>8
<1>17. p \in trail[m]
  BY <1>3, <1>10, <1>14, <1>15, <1>16 DEF NextPool
<1> QED  BY <1>12, <1>17

-----------------------------------------------------------------------------
(* The rules *)

ListsOfPaths(seqs, n) ==
  /\ seqs = [i \in 1 .. n |-> seqs[i]]
  /\ \A i \in 1 .. n :
       /\ IsList(seqs[i])
       /\ \A k \in 1 .. Len(seqs[i]) : Len(seqs[i][k]) \in Nat \ {0}

(* where a client is that is meant to meet the i-th rule *)
Place(seqs, i) == IF seqs[i] = << >> THEN << >> ELSE seqs[i][1]

LEMMA ListNonempty ==
  ASSUME NEW s, IsList(s), s # << >>
  PROVE  Len(s) \in Nat \ {0} /\ DOMAIN s = 1 .. Len(s)
<1>1. ASSUME Len(s) = 0 PROVE s = << >>
  <2>1. s = [i \in 1 .. 0 |-> s[i]] /\ \A i \in 1 .. 0 : s[i] \in {}
    BY <1>1 DEF IsList
  <2>2. s \in Seq({})
    BY <2>1, IsASeq
  <2> QED  BY <1>1, <2>2, EmptySeq
<1> QED  BY <1>1 DEF IsList

(* No two rules name parts of each other, so who is in the i-th rule's      *)
(* place is not in that of an earlier rule.                                 *)
LEMMA PlaceOwn ==
  ASSUME NEW n \in Nat, NEW seqs, ListsOfPaths(seqs, n), ~Seen(seqs), NEW i \in 1 .. n
  PROVE  /\ Place(seqs, i) \in Paths(seqs)
         /\ Within(seqs[i], Place(seqs, i))
         /\ \A j \in 1 .. i - 1 : seqs[j] # << >> => ~Within(seqs[j], Place(seqs, i))
<1>1. DOMAIN seqs = 1 .. n
  BY DEF ListsOfPaths
<1>2. ASSUME seqs[i] # << >>
      PROVE  /\ 1 \in DOMAIN seqs[i] /\ Place(seqs, i) = seqs[i][1]
             /\ seqs[i][1] \in ToSet(seqs[i]) /\ Len(seqs[i][1]) \in Nat
  <2>1. Len(seqs[i]) \in Nat \ {0} /\ DOMAIN seqs[i] = 1 .. Len(seqs[i])
    BY <1>2, ListNonempty DEF ListsOfPaths
  <2>2. 1 \in 1 .. Len(seqs[i])
    BY <2>1
  <2> QED  BY <1>2, <2>1, <2>2 DEF ToSet, Place, ListsOfPaths
<1>3. Place(seqs, i) \in Paths(seqs)
  BY <1>1, <1>2 DEF Place, Paths
<1>4. Within(seqs[i], Place(seqs, i))
  <2>1. CASE seqs[i] = << >>
    BY <2>1 DEF Within
  <2>2. CASE seqs[i] # << >>
    <3>1. IsPrefix(seqs[i][1], seqs[i][1])
      BY <1>2, <2>2 DEF IsPrefix
    <3> QED  BY <1>2, <2>2, <3>1 DEF Within
  <2> QED  BY <2>1, <2>2
<1>5. ASSUME NEW j \in 1 .. i - 1, seqs[j] # << >>, Within(seqs[j], Place(seqs, i)) PROVE FALSE
  <2>1. j \in 1 .. n /\ j <= i /\ j # i
    OBVIOUS
  <2>2. DOMAIN seqs[j] = 1 .. Len(seqs[j])
    BY <1>5, <2>1, ListNonempty DEF ListsOfPaths
  <2>3. PICK l \in DOMAIN seqs[j] : IsPrefix(seqs[j][l], Place(seqs, i))
    BY <1>5 DEF Within, ToSet
  <2>4. Len(seqs[j][l]) \in Nat \ {0}
    BY <2>1, <2>2 DEF ListsOfPaths
  <2>5. CASE seqs[i] = << >>
    <3>1. Len(seqs[j][l]) <= Len(<< >>)
      BY <2>3, <2>5 DEF Place, IsPrefix
    <3> QED  BY <2>4, <3>1
  <2>6. CASE seqs[i] # << >>
    <3>1. IsPrefix(seqs[j][l], seqs[i][1]) /\ <<i, 1>> # <<j, l>>
      BY <1>2, <2>1, <2>3, <2>6
    <3>2. Seen(seqs)
      BY <1>1, <1>2, <2>1, <2>6, <3>1 DEF Seen
    <3> QED  BY <3>2
  <2> QED  BY <2>5, <2>6
<1> QED  BY <1>3, <1>4, <1>5

(* what the checks of the rules leave *)
RulesFine(d) ==
  LET n == Len(d.rules)
  IN  /\ n \in Nat \ {0} /\ DOMAIN d.rules = 1 .. n
      /\ ListsOfPaths(SubnetsOf(d.rules), n) /\ ~Seen(SubnetsOf(d.rules))
      /\ ListsOfPaths(GeosOf(d.rules), n) /\ ~Seen(GeosOf(d.rules))
      /\ ~Targets(d.rules[n])
      /\ \A j \in 1 .. n - 1 : Targets(d.rules[j])

LEMMA PathsOf ==
  ASSUME NEW n \in Nat, NEW seqs, seqs = [i \in 1 .. n |-> seqs[i]],
         \A i \in 1 .. n : IsList(seqs[i]) /\ ToSet(seqs[i]) \subseteq Subnet \cup Geo
  PROVE  ListsOfPaths(seqs, n)
<1>1. ASSUME NEW i \in 1 .. n, NEW k \in 1 .. Len(seqs[i])
      PROVE  Len(seqs[i][k]) \in Nat \ {0}
  <2>1. DOMAIN seqs[i] = 1 .. Len(seqs[i])
    BY DEF IsList
  <2>2. seqs[i][k] \in Subnet \cup Geo
    BY <2>1 DEF ToSet
  <2> QED  BY <2>2, PathsAssumption
<1> QED  BY <1>1 DEF ListsOfPaths

LEMMA CheckedRules ==
  ASSUME NEW d, IsDynamic(d), ~RulesFail(d) PROVE RulesFine(d)
<1> DEFINE rules == d.rules
           n == Len(rules)
<1>1. IsList(rules) /\ rules # << >>
  BY DEF IsDynamic, RulesFail
<1>2. n \in Nat \ {0} /\ DOMAIN rules = 1 .. n
  BY <1>1, ListNonempty
<1>3. \A i \in 1 .. n : IsList(rules[i].subnets) /\ IsList(rules[i].geos)
  BY <1>2 DEF IsDynamic, IsRule
<1>4. \A i \in 1 .. n : /\ ToSet(rules[i].subnets) \subseteq Subnet
                        /\ ToSet(rules[i].geos) \subseteq Geo
                        /\ ~SecondDefault(rules, i)
  BY <1>2 DEF RulesFail
<1>5. ~Seen(SubnetsOf(rules)) /\ ~Seen(GeosOf(rules)) /\ ~Targets(rules[n])
  BY DEF RulesFail, Last
<1> HIDE DEF n
<1>6. ListsOfPaths(SubnetsOf(rules), n)
  <2>1. SubnetsOf(rules) = [i \in 1 .. n |-> rules[i].subnets]
    BY <1>2 DEF SubnetsOf
  <2> QED  BY <1>2, <1>3, <1>4, <2>1, PathsOf
<1>7. ListsOfPaths(GeosOf(rules), n)
  <2>1. GeosOf(rules) = [i \in 1 .. n |-> rules[i].geos]
    BY <1>2 DEF GeosOf
  <2> QED  BY <1>2, <1>3, <1>4, <2>1, PathsOf
<1>8. \A j \in 1 .. n - 1 : Targets(rules[j])
  <2>1. n \in 1 .. n
    BY <1>2
  <2> QED  BY <1>4, <1>5, <2>1 DEF SecondDefault
<1> QED  BY <1>2, <1>5, <1>6, <1>7, <1>8 DEF RulesFine, n

(* The last rule takes every client, and each rule is the first for some. *)
LEMMA ClientsServed ==
  ASSUME NEW d, RulesFine(d)
  PROVE  /\ \A c \in Clients(d) : \E i \in DOMAIN d.rules : Matching(d.rules[i], c)
         /\ \A i \in DOMAIN d.rules : \E c \in Clients(d) :
              /\ Matching(d.rules[i], c)
              /\ \A j \in 1 .. i - 1 : ~Matching(d.rules[j], c)
<1> DEFINE rules == d.rules
           n == Len(rules)
<1>1. n \in Nat \ {0} /\ DOMAIN rules = 1 .. n
  BY DEF RulesFine
<1>2. \A i \in 1 .. n : /\ SubnetsOf(rules)[i] = rules[i].subnets
                        /\ GeosOf(rules)[i] = rules[i].geos
  BY <1>1 DEF SubnetsOf, GeosOf
<1>3. \A c \in Clients(d) : \E i \in DOMAIN rules : Matching(rules[i], c)
  <2>1. n \in DOMAIN rules /\ ~Targets(rules[n])
    BY <1>1 DEF RulesFine
  <2> QED  BY <2>1 DEF Matching, Within, Targets
<1>4. ASSUME NEW i \in DOMAIN rules
      PROVE  \E c \in Clients(d) :
               /\ Matching(rules[i], c)
               /\ \A j \in 1 .. i - 1 : ~Matching(rules[j], c)
  <2> DEFINE c == [net |-> Place(SubnetsOf(rules), i), loc |-> Place(GeosOf(rules), i)]
  <2>1. i \in 1 .. n
    BY <1>1
  <2>2. /\ Place(SubnetsOf(rules), i) \in Paths(SubnetsOf(rules))
        /\ Within(SubnetsOf(rules)[i], c.net)
        /\ \A j \in 1 .. i - 1 :
             SubnetsOf(rules)[j] # << >> => ~Within(SubnetsOf(rules)[j], c.net)
    BY <1>1, <2>1, PlaceOwn DEF RulesFine
  <2>3. /\ Place(GeosOf(rules), i) \in Paths(GeosOf(rules))
        /\ Within(GeosOf(rules)[i], c.loc)
        /\ \A j \in 1 .. i - 1 :
             GeosOf(rules)[j] # << >> => ~Within(GeosOf(rules)[j], c.loc)
    BY <1>1, <2>1, PlaceOwn DEF RulesFine
  <2>4. c \in Clients(d)
    BY <2>2, <2>3 DEF Clients
  <2> HIDE DEF c
  <2>5. Matching(rules[i], c)
    BY <1>2, <2>1, <2>2, <2>3 DEF Matching
  <2>6. ASSUME NEW j \in 1 .. i - 1 PROVE ~Matching(rules[j], c)
    <3>1. j \in 1 .. n /\ j \in 1 .. n - 1
      BY <1>1, <2>1
    <3>2. rules[j].subnets # << >> \/ rules[j].geos # << >>
      BY <3>1 DEF RulesFine, Targets
    <3> QED  BY <1>2, <2>2, <2>3, <3>1, <3>2 DEF Matching
  <2> QED  BY <2>4, <2>5, <2>6
<1> QED  BY <1>3, <1>4

(* What DynamicValidator has nothing against serves every client: each      *)
(* client meets a rule, no rule is hidden by earlier ones, the fallbacks of *)
(* a rule's pool lead to an end through pools that there are, and each pool *)
(* is some rule's or on such a way.                                         *)
THEOREM AcceptedServe ==
  ASSUME NEW d, IsDynamic(d), NEW running, ~DynamicFails(d, running) PROVE Serves(d)
<1> DEFINE pools == d.pools
           rules == d.rules
           Of(i) == CHOOSE id \in rules[i].pool : TRUE
           sees(i) == {Trail(pools, Of(i))[n] : n \in DOMAIN Trail(pools, Of(i))}
<1>1. ~PoolsFail(pools, running) /\ ~RulesFail(d) /\ UnusedPools(d) = {}
  BY DEF DynamicFails
<1>2. /\ FallbacksExist(pools)
      /\ \A id \in DOMAIN pools : ~LoopsBack(pools, id)
  BY <1>1 DEF PoolsFail, FallbacksExist, IsDynamic, IsPool
<1>3. RulesFine(d)
  BY <1>1, CheckedRules
<1>4. ASSUME NEW i \in DOMAIN rules
      PROVE  Of(i) \in DOMAIN pools /\ rules[i].pool = {Of(i)}
  <2>1. rules[i].pool # {} /\ rules[i].pool \subseteq DOMAIN pools
    BY <1>1 DEF RulesFail, BadPool
  <2>2. AtMostOne(rules[i].pool)
    BY DEF IsDynamic, IsRule
  <2> QED  BY <2>1, <2>2 DEF AtMostOne
<1>5. Turns(pools) \in Nat
  BY <1>2, FS_CardinalityType DEF Turns, FallbacksExist
<1> HIDE DEF Of
<1>6. ASSUME NEW i \in DOMAIN rules
      PROVE  {} \in sees(i) /\ UNION sees(i) \subseteq DOMAIN pools
  <2>1. Of(i) \in DOMAIN pools
    BY <1>4
  <2>2. Turns(pools) \in DOMAIN Trail(pools, Of(i))
    BY <1>2, <1>5, <2>1, TrailInPools
  <2>3. Trail(pools, Of(i))[Turns(pools)] = {}
    BY <1>2, <2>1, TrailEnds
  <2>4. \A n \in DOMAIN Trail(pools, Of(i)) : Trail(pools, Of(i))[n] \subseteq DOMAIN pools
    <3> DEFINE trail == Trail(pools, Of(i))
    <3>1. DOMAIN trail = 0 .. Turns(pools)
          /\ \A n \in 0 .. Turns(pools) : trail[n] \subseteq DOMAIN pools
      BY <1>2, <2>1, TrailInPools
    <3> QED  BY <3>1
  <2>5. sees(i) = {Trail(pools, Of(i))[n] : n \in DOMAIN Trail(pools, Of(i))}
    OBVIOUS
  <2> HIDE DEF sees
  <2>6. {} \in sees(i)
    BY <2>2, <2>3, <2>5
  <2>7. UNION sees(i) \subseteq DOMAIN pools
    BY <2>4, <2>5
  <2> QED  BY <2>6, <2>7
<1>7. DOMAIN pools \subseteq UNION UNION {sees(i) : i \in DOMAIN rules}
  <2> DEFINE R == {Of(i) : i \in DOMAIN rules}
  <2>1. R \subseteq DOMAIN pools
    BY <1>4
  <2>2. \A p \in DOMAIN pools : p \in R \/ \E q \in DOMAIN pools : p \in pools[q].fallback
    BY <1>1, <1>4 DEF UnusedPools
  <2> HIDE DEF R
  <2>3. ASSUME NEW p \in DOMAIN pools PROVE \E i \in DOMAIN rules : p \in UNION sees(i)
    <3>1. PICK r \in R : \E n \in 0 .. Turns(pools) : p \in Trail(pools, r)[n]
      BY <1>2, <2>1, <2>2, PoolsReached
    <3>2. PICK i \in DOMAIN rules : r = Of(i)
      BY <3>1 DEF R
    <3>3. DOMAIN Trail(pools, Of(i)) = 0 .. Turns(pools)
      BY <1>2, <1>4, TrailInPools
    <3> QED  BY <3>1, <3>2, <3>3
  <2> QED  BY <2>3
<1>8. UNION UNION {sees(i) : i \in DOMAIN rules} \subseteq DOMAIN pools
  BY <1>6
<1>9. DOMAIN pools = UNION UNION {sees(i) : i \in DOMAIN rules}
  BY <1>7, <1>8
<1> QED  BY <1>3, <1>6, <1>9, ClientsServed DEF Serves, Of

-----------------------------------------------------------------------------
(* What is left for a provider *)

(* Fewer pools with the fallbacks they had: the walks are those there were. *)
LEMMA TrailsAgree ==
  ASSUME NEW pools, FallbacksExist(pools), NEW left, FallbacksExist(left),
         DOMAIN left \subseteq DOMAIN pools,
         \A id \in DOMAIN left : left[id].fallback = pools[id].fallback,
         NEW id \in DOMAIN left
  PROVE  /\ Turns(left) \in Nat /\ Turns(pools) \in Nat /\ Turns(left) <= Turns(pools)
         /\ \A n \in 0 .. Turns(left) : Trail(left, id)[n] = Trail(pools, id)[n]
<1> DEFINE t == Trail(left, id)
           u == Trail(pools, id)
<1>1. Cardinality(DOMAIN left) \in Nat /\ Cardinality(DOMAIN pools) \in Nat
      /\ Cardinality(DOMAIN left) <= Cardinality(DOMAIN pools)
  BY FS_CardinalityType, FS_Subset DEF FallbacksExist
<1>2. Turns(left) \in Nat /\ Turns(pools) \in Nat /\ Turns(left) <= Turns(pools)
  BY <1>1 DEF Turns
<1>3. /\ t[0] = {id} /\ \A n \in 1 .. Turns(left) : t[n] = NextPool(left, t[n - 1])
      /\ \A n \in 0 .. Turns(left) : t[n] \subseteq DOMAIN left
  BY TrailInPools
<1>4. u[0] = {id} /\ \A n \in 1 .. Turns(pools) : u[n] = NextPool(pools, u[n - 1])
  BY TrailInPools
<1> HIDE DEF t, u
<1> DEFINE T == {n \in 0 .. Turns(left) : t[n] # u[n]}
<1>5. ASSUME T # {} PROVE FALSE
  <2>1. T \subseteq Nat
    BY <1>2
  <2> HIDE DEF T
  <2>2. PICK m \in T : \A n \in T : m <= n
    BY <1>5, <2>1, LeastOf
  <2> USE DEF T
  <2>3. m # 0
    BY <1>3, <1>4, <2>2
  <2>4. m \in 1 .. Turns(left) /\ m \in 1 .. Turns(pools) /\ m - 1 \in 0 .. Turns(left)
    BY <1>2, <2>3
  <2>5. t[m - 1] = u[m - 1]
    BY <2>2, <2>4
  <2>6. t[m - 1] \subseteq DOMAIN left
    BY <1>3, <2>4
  <2>7. NextPool(left, t[m - 1]) = NextPool(pools, t[m - 1])
    BY <2>6 DEF NextPool
  <2>8. t[m] = u[m]
    BY <1>3, <1>4, <2>4, <2>5, <2>7
  <2> QED  BY <2>2, <2>8
<1> QED  BY <1>2, <1>5 DEF t, u

LEMMA NoNewLoops ==
  ASSUME NEW pools, FallbacksExist(pools), NEW left, FallbacksExist(left),
         DOMAIN left \subseteq DOMAIN pools,
         \A id \in DOMAIN left : left[id].fallback = pools[id].fallback,
         NEW id \in DOMAIN left, ~LoopsBack(pools, id)
  PROVE  ~LoopsBack(left, id)
<1>1. /\ Turns(left) \in Nat /\ Turns(pools) \in Nat /\ Turns(left) <= Turns(pools)
      /\ \A n \in 0 .. Turns(left) : Trail(left, id)[n] = Trail(pools, id)[n]
  BY TrailsAgree
<1>2. DOMAIN Trail(left, id) = 0 .. Turns(left)
  BY TrailInPools
<1>3. id \in DOMAIN pools /\ DOMAIN Trail(pools, id) = 0 .. Turns(pools)
  BY TrailInPools
<1>4. \A n \in DOMAIN Trail(left, id) :
        n \in DOMAIN Trail(pools, id) /\ Trail(left, id)[n] = Trail(pools, id)[n]
  BY <1>1, <1>2, <1>3
<1> QED  BY <1>4 DEF LoopsBack

(* What is accepted is still so if only the values change, and to good ones *)
LEMMA ValuesChanged ==
  ASSUME NEW d, IsDynamic(d), NEW running, ~DynamicFails(d, running),
         NEW e, IsDynamic(e), e.rules = d.rules, e.geo = d.geo,
         DOMAIN e.pools = DOMAIN d.pools,
         NEW other,
         \A id \in DOMAIN d.pools :
           /\ e.pools[id].fallback = d.pools[id].fallback
           /\ HasValues(e.pools[id]) /\ ~ValueFault(e.pools[id], other) /\ ~LoneWeight(e.pools[id])
  PROVE  ~DynamicFails(e, other)
<1>1. ~PoolsFail(d.pools, running) /\ ~RulesFail(d) /\ UnusedPools(d) = {} /\ ~d.geo
  BY DEF DynamicFails
<1>2. FallbacksExist(d.pools) /\ FallbacksExist(e.pools)
  BY <1>1 DEF PoolsFail, FallbacksExist, IsDynamic, IsPool
<1>3. \A id \in DOMAIN e.pools : ~LoopsBack(e.pools, id)
  BY <1>1, <1>2, NoNewLoops DEF PoolsFail
<1>4. ~PoolsFail(e.pools, other)
  BY <1>1, <1>2, <1>3 DEF PoolsFail, FallbacksExist
<1>5. ~RulesFail(e)
  BY <1>1 DEF RulesFail, BadPool
<1>6. UnusedPools(e) = {}
  BY <1>1 DEF UnusedPools
<1> QED  BY <1>1, <1>4, <1>5, <1>6 DEF DynamicFails

(* Parts of a dynamic part replaced. *)
LEMMA PartsReplaced ==
  ASSUME NEW d, d = [pools |-> d.pools, rules |-> d.rules, geo |-> d.geo], NEW x
  PROVE  /\ [d EXCEPT !.pools = x] = [pools |-> x, rules |-> d.rules, geo |-> d.geo]
         /\ [d EXCEPT !.rules = x] = [pools |-> d.pools, rules |-> x, geo |-> d.geo]
<1>1. PICK p, r, g : d = [pools |-> p, rules |-> r, geo |-> g]
  OBVIOUS
<1> QED  BY <1>1

IsValue(v) == v = [weight |-> v.weight, status |-> v.status, faults |-> v.faults]

LEMMA ValueReplaced ==
  ASSUME NEW v, IsValue(v), NEW x
  PROVE  /\ [v EXCEPT !.weight = x] = [weight |-> x, status |-> v.status, faults |-> v.faults]
         /\ [v EXCEPT !.status = x] = [weight |-> v.weight, status |-> x, faults |-> v.faults]
<1>1. PICK w, s, f : v = [weight |-> w, status |-> s, faults |-> f]
  BY DEF IsValue
<1> QED  BY <1>1

(* A pool is one, as its values and fallbacks are. *)
LEMMA PoolOf ==
  ASSUME NEW pool, AtMostOne(pool.fallback),
         IsList(pool.values), \A i \in 1 .. Len(pool.values) : IsValue(pool.values[i])
  PROVE  IsPool(pool)
BY DEF IsPool, IsList, IsValue, ToSet

(* Making the record weights a single value 1 and changes nothing else, as  *)
(* no pool has the name that means none.                                    *)
LEMMA MadeAccepted ==
  ASSUME NEW d, IsDynamic(d), NEW running, ~DynamicFails(d, running),
         Default \notin DOMAIN d.pools
  PROVE  IsDynamic(Made(d)) /\ ~DynamicFails(Made(d), {})
<1> DEFINE made(id) ==
             [fallback |-> d.pools[id].fallback \ {Default},
              values |-> IF Len(d.pools[id].values) = 1
                           THEN <<[d.pools[id].values[1] EXCEPT !.weight = 1]>>
                           ELSE d.pools[id].values]
<1>1. Made(d) = [pools |-> [id \in DOMAIN d.pools |-> made(id)], rules |-> d.rules, geo |-> d.geo]
  BY PartsReplaced DEF Made, IsDynamic
<1>2. ~PoolsFail(d.pools, running)
  BY DEF DynamicFails
<1>3. ASSUME NEW id \in DOMAIN d.pools
      PROVE  /\ IsPool(made(id)) /\ made(id).fallback = d.pools[id].fallback
             /\ HasValues(made(id)) /\ ~ValueFault(made(id), {}) /\ ~LoneWeight(made(id))
  <2> DEFINE pool == d.pools[id]
  <2>1. IsPool(pool)
    BY DEF IsDynamic
  <2>2. /\ HasValues(pool) /\ ~ValueFault(pool, running) /\ ~LoneWeight(pool)
        /\ pool.fallback \subseteq DOMAIN d.pools
    BY <1>2 DEF PoolsFail
  <2>3. made(id).fallback = pool.fallback
    BY <2>2
  <2>4. IsList(pool.values) /\ DOMAIN pool.values = 1 .. Len(pool.values)
    BY <2>1, <2>2 DEF IsPool, IsList
  <2>5. \A i \in 1 .. Len(pool.values) :
          LET v == pool.values[i]
          IN  /\ v = [weight |-> v.weight, status |-> v.status, faults |-> v.faults]
              /\ v.weight \in 1 .. 100 /\ v.status \in Statuses
    BY <2>1, <2>2, <2>4 DEF IsPool, ValueFault, ToSet
  <2>6. CASE Len(pool.values) = 1
    <3> DEFINE v == [pool.values[1] EXCEPT !.weight = 1]
    <3>1. 1 \in 1 .. Len(pool.values)
      BY <2>6
    <3>2. IsValue(pool.values[1]) /\ pool.values[1].status \in Statuses
      BY <2>5, <3>1 DEF IsValue
    <3>3. v = [weight |-> 1, status |-> pool.values[1].status, faults |-> pool.values[1].faults]
      BY <3>2, ValueReplaced
    <3>4. made(id).values = <<v>> /\ HasValues(made(id))
      BY <2>6 DEF HasValues
    <3>5. AtMostOne(made(id).fallback)
      BY <2>1, <2>3 DEF IsPool
    <3> HIDE DEF v, pool, made
    <3>6. IsValue(v) /\ v.weight = 1 /\ v.status \in Statuses
      BY <3>2, <3>3 DEF IsValue
    <3>7. /\ IsList(made(id).values) /\ Len(made(id).values) = 1
          /\ \A i \in 1 .. Len(made(id).values) : made(id).values[i] = v
      BY <3>4 DEF IsList
    <3>8. IsPool(made(id))
      BY <3>5, <3>6, <3>7, PoolOf
    <3>9. ~ValueFault(made(id), {}) /\ ~LoneWeight(made(id))
      BY <3>4, <3>6 DEF ValueFault, LoneWeight
    <3> QED  BY <2>3, <3>4, <3>8, <3>9 DEF pool
  <2>7. CASE Len(pool.values) # 1
    <3>1. made(id).values = pool.values
      BY <2>7
    <3>2. HasValues(made(id))
      BY DEF HasValues
    <3> HIDE DEF made
    <3>3. IsPool(made(id))
      BY <2>1, <2>2, <2>3, <3>1, <3>2 DEF IsPool
    <3>4. ~ValueFault(made(id), {}) /\ ~LoneWeight(made(id))
      BY <2>4, <2>5, <2>7, <3>1 DEF ValueFault, LoneWeight
    <3> QED  BY <2>3, <3>2, <3>3, <3>4
  <2> QED  BY <2>6, <2>7
<1> HIDE DEF made
<1>4. /\ Made(d).rules = d.rules /\ Made(d).geo = d.geo
      /\ DOMAIN Made(d).pools = DOMAIN d.pools
      /\ \A id \in DOMAIN d.pools : Made(d).pools[id] = made(id)
  BY <1>1
<1>5. IsDynamic(Made(d))
  BY <1>1, <1>3, <1>4 DEF IsDynamic
<1> QED  BY <1>3, <1>4, <1>5, ValuesChanged

(* Without the statuses a made record is as good. *)
IsMade(d) == \A id \in DOMAIN d.pools :
  d.pools[id] = [fallback |-> d.pools[id].fallback, values |-> d.pools[id].values]

LEMMA MadePools ==
  ASSUME NEW d, IsDynamic(d) PROVE IsMade(Made(d))
<1> DEFINE f(id) == d.pools[id].fallback \ {Default}
           vs(id) == IF Len(d.pools[id].values) = 1
                       THEN <<[d.pools[id].values[1] EXCEPT !.weight = 1]>>
                       ELSE d.pools[id].values
<1>1. Made(d).pools = [id \in DOMAIN d.pools |-> [fallback |-> f(id), values |-> vs(id)]]
  BY PartsReplaced DEF Made, IsDynamic
<1> HIDE DEF f, vs
<1> QED  BY <1>1 DEF IsMade

LEMMA UnflaggedAccepted ==
  ASSUME NEW d, IsDynamic(d), IsMade(d), ~DynamicFails(d, {})
  PROVE  IsDynamic(WithoutStatus(d)) /\ ~DynamicFails(WithoutStatus(d), {})
<1> DEFINE plain(id) ==
             [d.pools[id] EXCEPT !.values =
                [i \in DOMAIN d.pools[id].values |->
                   [d.pools[id].values[i] EXCEPT !.status = Obey]]]
<1>1. WithoutStatus(d) =
        [pools |-> [id \in DOMAIN d.pools |-> plain(id)], rules |-> d.rules, geo |-> d.geo]
  BY PartsReplaced DEF WithoutStatus, IsDynamic
<1>2. ~PoolsFail(d.pools, {})
  BY DEF DynamicFails
<1>3. ASSUME NEW id \in DOMAIN d.pools
      PROVE  /\ IsPool(plain(id)) /\ plain(id).fallback = d.pools[id].fallback
             /\ HasValues(plain(id)) /\ ~ValueFault(plain(id), {}) /\ ~LoneWeight(plain(id))
  <2>1. PICK f, vs : d.pools[id] = [fallback |-> f, values |-> vs]
    BY DEF IsMade
  <2> DEFINE ws == [i \in DOMAIN vs |-> [vs[i] EXCEPT !.status = Obey]]
  <2>2. plain(id) = [fallback |-> f, values |-> ws]
    BY <2>1
  <2>3. IsPool(d.pools[id]) /\ ~ValueFault(d.pools[id], {}) /\ ~LoneWeight(d.pools[id])
    BY <1>2 DEF IsDynamic, PoolsFail
  <2>4. d.pools[id].fallback = f /\ d.pools[id].values = vs /\ HasValues(d.pools[id])
    BY <2>1 DEF HasValues
  <2>5. IsList(vs) /\ DOMAIN vs = 1 .. Len(vs) /\ AtMostOne(f)
    BY <2>3, <2>4 DEF IsPool, IsList
  <2>6. \A i \in 1 .. Len(vs) : IsValue(vs[i]) /\ vs[i].weight \in 1 .. 100
    BY <2>3, <2>4, <2>5 DEF IsPool, ToSet, IsValue, ValueFault
  <2>7. Len(vs) = 1 => vs[1].weight = 1
    BY <2>3, <2>4 DEF LoneWeight
  <2> HIDE DEF plain
  <2>8. /\ Len(ws) = Len(vs) /\ DOMAIN ws = 1 .. Len(vs) /\ IsList(ws)
        /\ \A i \in 1 .. Len(vs) : ws[i] = [vs[i] EXCEPT !.status = Obey]
    BY <2>5 DEF IsList
  <2> HIDE DEF ws
  <2>9. \A i \in 1 .. Len(vs) :
          IsValue(ws[i]) /\ ws[i].weight = vs[i].weight /\ ws[i].status = Obey
    <3> TAKE i \in 1 .. Len(vs)
    <3>1. IsValue(vs[i])
      BY <2>6
    <3>2. ws[i] = [weight |-> vs[i].weight, status |-> Obey, faults |-> vs[i].faults]
      BY <2>8, <3>1, ValueReplaced
    <3> QED  BY <3>2 DEF IsValue
  <2>10. plain(id).fallback = f /\ plain(id).values = ws /\ HasValues(plain(id))
    BY <2>2 DEF HasValues
  <2>11. IsPool(plain(id))
    BY <2>5, <2>8, <2>9, <2>10, PoolOf
  <2>12. ~ValueFault(plain(id), {})
    BY <2>6, <2>8, <2>9, <2>10 DEF ValueFault, Statuses
  <2>13. ~LoneWeight(plain(id))
    <3>1. Len(vs) = 1 => ws[1].weight = 1
      BY <2>7, <2>9
    <3> QED  BY <2>8, <2>10, <3>1 DEF LoneWeight
  <2> QED  BY <2>4, <2>10, <2>11, <2>12, <2>13
<1> HIDE DEF plain
<1>4. /\ WithoutStatus(d).rules = d.rules /\ WithoutStatus(d).geo = d.geo
      /\ DOMAIN WithoutStatus(d).pools = DOMAIN d.pools
      /\ \A id \in DOMAIN d.pools : WithoutStatus(d).pools[id] = plain(id)
  BY <1>1
<1>5. IsDynamic(WithoutStatus(d))
  BY <1>1, <1>3, <1>4 DEF IsDynamic
<1> QED  BY <1>3, <1>4, <1>5, ValuesChanged

(* The rules that are left, one after the other. *)
Skipped(rule) == rule.subnets # << >> /\ rule.geos = << >>
Bare(rule) == [rule EXCEPT !.subnets = << >>]
NextLeft(before, rule) == IF Skipped(rule) THEN before ELSE Append(before, Bare(rule))
IsLeft(f, n, rules) ==
  f = [i \in 0 .. n |-> IF i = 0 THEN << >> ELSE NextLeft(f[i - 1], rules[i])]

LEMMA LeftExists ==
  ASSUME NEW rules, NEW n \in Nat PROVE \E f : IsLeft(f, n, rules)
<1> DEFINE T == {k \in Nat : ~\E f : IsLeft(f, k, rules)}
<1> SUFFICES ASSUME T # {} PROVE FALSE
  OBVIOUS
<1>1. PICK m \in T : \A k \in T : m <= k
  BY LeastOf
<1>2. m # 0
  <2>1. IsLeft([i \in 0 .. 0 |-> << >>], 0, rules)
    BY DEF IsLeft
  <2> QED  BY <2>1
<1>3. PICK f : IsLeft(f, m - 1, rules)
  BY <1>1, <1>2
<1> DEFINE g == [i \in 0 .. m |-> IF i < m THEN f[i] ELSE NextLeft(f[m - 1], rules[m])]
<1>4. \A i \in 0 .. m - 1 : g[i] = f[i]
  BY <1>1
<1>5. ASSUME NEW i \in 0 .. m
      PROVE  g[i] = IF i = 0 THEN << >> ELSE NextLeft(g[i - 1], rules[i])
  <2>1. CASE i = 0
    BY <1>1, <1>2, <1>3, <2>1 DEF IsLeft
  <2>2. CASE i # 0 /\ i < m
    <3>1. i \in 0 .. m - 1 /\ i - 1 \in 0 .. m - 1
      BY <1>1, <2>2
    <3>2. f[i] = NextLeft(f[i - 1], rules[i])
      BY <1>3, <2>2, <3>1 DEF IsLeft
    <3> QED  BY <1>4, <2>2, <3>1, <3>2
  <2>3. CASE i = m
    <3>1. i - 1 \in 0 .. m - 1
      BY <1>1, <1>2, <2>3
    <3> QED  BY <1>1, <1>2, <1>4, <2>3, <3>1
  <2> QED  BY <1>1, <2>1, <2>2, <2>3
<1>6. IsLeft(g, m, rules)
  BY <1>5 DEF IsLeft
<1> QED  BY <1>1, <1>6

(* s is some of the first n rules in their order, without subnets, and the  *)
(* n-th is the last of them unless it is skipped.                           *)
Picks(e, m, n, s, rules) ==
  /\ e \in [1 .. m -> 1 .. n]
  /\ s = [k \in 1 .. m |-> Bare(rules[e[k]])]
  /\ \A k \in 1 .. m : ~Skipped(rules[e[k]])
  /\ \A j, k \in 1 .. m : j < k => e[j] < e[k]
  /\ n > 0 /\ ~Skipped(rules[n]) => m > 0 /\ e[m] = n

LEMMA PicksNext ==
  ASSUME NEW rules, NEW n \in Nat, NEW m \in Nat, NEW e, NEW s, Picks(e, m, n, s, rules)
  PROVE  \E l \in Nat : \E g : Picks(g, l, n + 1, NextLeft(s, rules[n + 1]), rules)
<1>1. CASE Skipped(rules[n + 1])
  <2>1. Picks(e, m, n + 1, s, rules)
    BY <1>1 DEF Picks
  <2> QED  BY <1>1, <2>1 DEF NextLeft
<1>2. CASE ~Skipped(rules[n + 1])
  <2> DEFINE g == [k \in 1 .. m + 1 |-> IF k = m + 1 THEN n + 1 ELSE e[k]]
             t == Append(s, Bare(rules[n + 1]))
  <2>1. \A k \in 1 .. m : e[k] \in 1 .. n
    BY DEF Picks
  <2>2. /\ g \in [1 .. m + 1 -> 1 .. n + 1] /\ g[m + 1] = n + 1
        /\ \A k \in 1 .. m : g[k] = e[k]
    BY <2>1
  <2> HIDE DEF g
  <2>3. \A k \in 1 .. m + 1 : ~Skipped(rules[g[k]])
    BY <1>2, <2>2 DEF Picks
  <2>4. ASSUME NEW j \in 1 .. m + 1, NEW k \in 1 .. m + 1, j < k PROVE g[j] < g[k]
    <3>1. j \in 1 .. m
      BY <2>4
    <3>2. CASE k = m + 1
      BY <2>1, <2>2, <3>1, <3>2
    <3>3. CASE k \in 1 .. m
      BY <2>2, <2>4, <3>1, <3>3 DEF Picks
    <3> QED  BY <3>2, <3>3
  <2>5. t = [k \in 1 .. m + 1 |-> Bare(rules[g[k]])]
    <3> DEFINE S == {Bare(rules[k]) : k \in 1 .. n + 1}
               b(k) == Bare(rules[e[k]])
    <3>1. \A k \in 1 .. m : b(k) \in S
      BY <2>1
    <3>2. s = [k \in 1 .. m |-> b(k)]
      BY DEF Picks
    <3> HIDE DEF b, S
    <3>3. s \in Seq(S) /\ Len(s) = m
      BY <3>1, <3>2, IsASeq, LenProperties
    <3>4. Bare(rules[n + 1]) \in S
      BY DEF S
    <3>5. /\ Len(t) = m + 1 /\ t \in Seq(S) /\ t[m + 1] = Bare(rules[n + 1])
          /\ \A k \in 1 .. m : t[k] = s[k]
      BY <3>3, <3>4, AppendProperties
    <3>6. t = [k \in 1 .. m + 1 |-> t[k]]
      BY <3>5, LenProperties
    <3>7. \A k \in 1 .. m + 1 : t[k] = Bare(rules[g[k]])
      BY <2>2, <3>2, <3>5 DEF b
    <3> QED  BY <3>6, <3>7
  <2>6. Picks(g, m + 1, n + 1, t, rules)
    BY <2>2, <2>3, <2>4, <2>5 DEF Picks
  <2> QED  BY <1>2, <2>6 DEF NextLeft
<1> QED  BY <1>1, <1>2

LEMMA RulesLeft ==
  ASSUME NEW rules, Len(rules) \in Nat
  PROVE  \E m \in Nat : \E e : Picks(e, m, Len(rules), RulesWithoutSubnets(rules), rules)
<1> DEFINE n == Len(rules)
<1>1. PICK f : IsLeft(f, n, rules)
  BY LeftExists
<1>2. \E g : IsLeft(g, n, rules) /\ RulesWithoutSubnets(rules) = g[n]
  <2> DEFINE left == CHOOSE left : left = [i \in 0 .. n |->
                        IF i = 0 THEN << >>
                        ELSE IF rules[i].subnets # << >> /\ rules[i].geos = << >> THEN left[i - 1]
                        ELSE Append(left[i - 1], [rules[i] EXCEPT !.subnets = << >>])]
  <2>1. RulesWithoutSubnets(rules) = left[n]
    BY DEF RulesWithoutSubnets
  <2>2. IsLeft(left, n, rules)
    BY <1>1 DEF IsLeft, NextLeft, Skipped, Bare
  <2> QED  BY <2>1, <2>2
<1>3. PICK g : IsLeft(g, n, rules) /\ RulesWithoutSubnets(rules) = g[n]
  BY <1>2
<1> HIDE DEF n
<1> DEFINE Good(i) == \E m \in Nat : \E e : Picks(e, m, i, g[i], rules)
           T == {i \in 0 .. n : ~Good(i)}
<1>4. ASSUME T # {} PROVE FALSE
  <2>1. n \in Nat /\ T \subseteq Nat
    BY DEF n
  <2> HIDE DEF T
  <2>2. PICK i \in T : \A k \in T : i <= k
    BY <1>4, <2>1, LeastOf
  <2> USE DEF T
  <2>3. i # 0
    <3>1. g[0] = << >>
      BY <1>3, <2>1 DEF IsLeft
    <3>2. Picks(<< >>, 0, 0, << >>, rules)
      BY DEF Picks
    <3> QED  BY <2>2, <3>1, <3>2
  <2>4. i - 1 \in 0 .. n /\ i - 1 \in Nat /\ i \in 0 .. n /\ (i - 1) + 1 = i
    BY <2>1, <2>2, <2>3
  <2>5. Good(i - 1)
    BY <2>1, <2>2, <2>4
  <2>6. g[i] = NextLeft(g[i - 1], rules[i])
    BY <1>3, <2>3, <2>4 DEF IsLeft
  <2> HIDE DEF T
  <2>7. Good(i)
    BY <2>4, <2>5, <2>6, PicksNext
  <2> QED  BY <2>2, <2>7 DEF T
<1>5. n \in 0 .. n
  BY DEF n
<1>6. Good(n)
  BY <1>4, <1>5
<1> QED  BY <1>3, <1>6 DEF n

(* The pools that walks from some pools meet: with each its fallback is one *)
(* of them, and each is where a walk begins or the fallback of another.     *)
MetFrom(pools, R) ==
  UNION {UNION {Trail(pools, id)[n] : n \in DOMAIN Trail(pools, id)} : id \in R}

LEMMA MetClosed ==
  ASSUME NEW pools, FallbacksExist(pools), NEW R, R \subseteq DOMAIN pools,
         \A id \in DOMAIN pools : ~LoopsBack(pools, id)
  PROVE  /\ R \subseteq MetFrom(pools, R) /\ MetFrom(pools, R) \subseteq DOMAIN pools
         /\ \A p \in MetFrom(pools, R) : pools[p].fallback \subseteq MetFrom(pools, R)
         /\ \A p \in MetFrom(pools, R) :
              p \in R \/ \E q \in MetFrom(pools, R) : p \in pools[q].fallback
<1> DEFINE N == Turns(pools)
           Met == MetFrom(pools, R)
<1>1. N \in Nat
  BY FS_CardinalityType DEF Turns, FallbacksExist
<1>2. ASSUME NEW r \in R
      PROVE  /\ DOMAIN Trail(pools, r) = 0 .. N
             /\ Trail(pools, r)[0] = {r} /\ Trail(pools, r)[N] = {}
             /\ \A n \in 1 .. N : Trail(pools, r)[n] = NextPool(pools, Trail(pools, r)[n - 1])
             /\ \A n \in 0 .. N : Trail(pools, r)[n] \subseteq DOMAIN pools
  <2>1. r \in DOMAIN pools
    OBVIOUS
  <2> QED  BY <2>1, TrailInPools, TrailEnds
<1>3. \A p : p \in Met <=> \E r \in R : \E n \in 0 .. N : p \in Trail(pools, r)[n]
  <2> TAKE p
  <2>1. ASSUME p \in Met PROVE \E r \in R : \E n \in 0 .. N : p \in Trail(pools, r)[n]
    <3>1. PICK r \in R : p \in UNION {Trail(pools, r)[n] : n \in DOMAIN Trail(pools, r)}
      BY <2>1 DEF MetFrom
    <3>2. PICK n \in DOMAIN Trail(pools, r) : p \in Trail(pools, r)[n]
      BY <3>1
    <3> QED  BY <1>2, <3>2
  <2>2. ASSUME NEW r \in R, NEW n \in 0 .. N, p \in Trail(pools, r)[n] PROVE p \in Met
    <3>1. n \in DOMAIN Trail(pools, r)
      BY <1>2
    <3>2. p \in UNION {Trail(pools, r)[k] : k \in DOMAIN Trail(pools, r)}
      BY <2>2, <3>1
    <3> QED  BY <3>2 DEF MetFrom
  <2> QED  BY <2>1, <2>2
<1> HIDE DEF Met, N
<1>4. R \subseteq Met
  <2>1. 0 \in 0 .. N
    BY <1>1
  <2> QED  BY <1>2, <1>3, <2>1
<1>5. Met \subseteq DOMAIN pools
  BY <1>2, <1>3
<1>6. ASSUME NEW p \in Met, NEW q \in pools[p].fallback PROVE q \in Met
  <2>1. PICK r \in R, n \in 0 .. N : p \in Trail(pools, r)[n]
    BY <1>3
  <2>2. n # N
    BY <1>2, <2>1
  <2>3. n + 1 \in 1 .. N /\ n + 1 \in 0 .. N /\ (n + 1) - 1 = n
    BY <1>1, <2>2
  <2>4. q \in Trail(pools, r)[n + 1]
    BY <1>2, <1>5, <2>1, <2>3 DEF NextPool
  <2> QED  BY <1>3, <2>3, <2>4
<1>7. ASSUME NEW p \in Met, p \notin R PROVE \E q \in Met : p \in pools[q].fallback
  <2>1. PICK r \in R, n \in 0 .. N : p \in Trail(pools, r)[n]
    BY <1>3
  <2>2. n # 0
    BY <1>2, <1>7, <2>1
  <2>3. n \in 1 .. N /\ n - 1 \in 0 .. N
    BY <1>1, <2>2
  <2>4. PICK q \in Trail(pools, r)[n - 1] : p \in pools[q].fallback
    BY <1>2, <2>1, <2>3 DEF NextPool
  <2> QED  BY <1>3, <2>3, <2>4
<1> QED  BY <1>4, <1>5, <1>6, <1>7 DEF Met

(* The rules that are left without subnets are as good as those there were. *)
Unskipped(d, left) ==
  /\ IsList(left) /\ Len(left) \in Nat \ {0}
  /\ \A k \in 1 .. Len(left) :
       /\ IsRule(left[k]) /\ left[k].subnets = << >>
       /\ left[k].pool # {} /\ left[k].pool \subseteq DOMAIN d.pools
       /\ ToSet(left[k].geos) \subseteq Geo
       /\ \A j \in 1 .. k - 1 :
            /\ left[k].geos # << >> => left[j].pool # left[k].pool
            /\ left[k].geos = << >> => left[j].geos # << >>
  /\ ~Seen(GeosOf(left))
  /\ left[Len(left)].geos = << >>

LEMMA RulesUnskipped ==
  ASSUME NEW d, IsDynamic(d), ~RulesFail(d)
  PROVE  Unskipped(d, RulesWithoutSubnets(d.rules))
<1> DEFINE rules == d.rules
           n == Len(rules)
           left == RulesWithoutSubnets(rules)
<1>1. /\ n \in Nat \ {0} /\ DOMAIN rules = 1 .. n /\ ~Targets(rules[n])
      /\ ~Seen(GeosOf(rules))
  BY CheckedRules DEF RulesFine
<1>2. PICK m \in Nat : \E e : Picks(e, m, n, left, rules)
  BY <1>1, RulesLeft
<1>3. PICK e : Picks(e, m, n, left, rules)
  BY <1>2
<1>4. ASSUME NEW i \in 1 .. n
      PROVE  /\ rules[i].pool # {} /\ rules[i].pool \subseteq DOMAIN d.pools
             /\ \A j \in 1 .. i - 1 : Targets(rules[i]) => rules[j].pool # rules[i].pool
             /\ \A j \in 1 .. i - 1 : Targets(rules[j]) \/ Targets(rules[i])
             /\ ToSet(rules[i].geos) \subseteq Geo
             /\ IsRule(rules[i])
  BY <1>1 DEF RulesFail, BadPool, SecondDefault, IsDynamic
<1> HIDE DEF left, n
<1>5. /\ e \in [1 .. m -> 1 .. n] /\ left = [k \in 1 .. m |-> Bare(rules[e[k]])]
      /\ \A k \in 1 .. m : ~Skipped(rules[e[k]])
      /\ \A j, k \in 1 .. m : j < k => e[j] < e[k]
      /\ m > 0 /\ e[m] = n
  BY <1>1, <1>3 DEF Picks, Skipped, Targets
<1>6. Len(left) = m /\ DOMAIN left = 1 .. m /\ \A k \in 1 .. m : left[k] = Bare(rules[e[k]])
  BY <1>5
<1>7. ASSUME NEW k \in 1 .. m
      PROVE  /\ e[k] \in 1 .. n
             /\ left[k] = [pool |-> rules[e[k]].pool, subnets |-> << >>, geos |-> rules[e[k]].geos]
  <2>1. e[k] \in 1 .. n
    BY <1>5
  <2>2. PICK p, s, g : rules[e[k]] = [pool |-> p, subnets |-> s, geos |-> g]
    BY <1>4, <2>1 DEF IsRule
  <2> QED  BY <1>6, <2>1, <2>2 DEF Bare
<1>8. IsList(left)
  BY <1>5, <1>6 DEF IsList
<1>9. ASSUME NEW k \in 1 .. m
      PROVE  /\ left[k].subnets = << >> /\ left[k].pool = rules[e[k]].pool
             /\ left[k].geos = rules[e[k]].geos /\ e[k] \in 1 .. n
             /\ left[k] = [pool |-> left[k].pool, subnets |-> left[k].subnets, geos |-> left[k].geos]
             /\ IsList(left[k].subnets)
  <2>1. PICK p, g : /\ left[k] = [pool |-> p, subnets |-> << >>, geos |-> g]
                    /\ p = rules[e[k]].pool /\ g = rules[e[k]].geos
    BY <1>7
  <2>2. left[k].subnets = << >> /\ left[k].pool = p /\ left[k].geos = g
    BY <2>1
  <2>3. << >> \in Seq({}) /\ Len(<< >>) = 0 /\ << >> = [i \in 1 .. 0 |-> << >>[i]]
    BY EmptySeq, LenProperties
  <2>4. IsList(<< >>)
    BY <2>3 DEF IsList
  <2> QED  BY <1>7, <2>1, <2>2, <2>4
<1> HIDE DEF rules
<1>10. ASSUME NEW k \in 1 .. m
       PROVE  /\ IsRule(left[k]) /\ left[k].subnets = << >>
              /\ left[k].pool # {} /\ left[k].pool \subseteq DOMAIN d.pools
              /\ ToSet(left[k].geos) \subseteq Geo
              /\ \A j \in 1 .. k - 1 :
                   /\ left[k].geos # << >> => left[j].pool # left[k].pool
                   /\ left[k].geos = << >> => left[j].geos # << >>
  <2>1. /\ left[k].subnets = << >> /\ left[k].pool = rules[e[k]].pool
        /\ left[k].geos = rules[e[k]].geos /\ e[k] \in 1 .. n
    BY <1>9
  <2>2. IsRule(left[k])
    BY <1>4, <1>9 DEF IsRule
  <2>3. ASSUME NEW j \in 1 .. k - 1
        PROVE  /\ left[k].geos # << >> => left[j].pool # left[k].pool
               /\ left[k].geos = << >> => left[j].geos # << >>
    <3>1. j \in 1 .. m /\ j < k
      BY <1>5
    <3>2. e[j] \in 1 .. n /\ e[j] < e[k]
      BY <1>5, <3>1
    <3>3. e[j] \in 1 .. e[k] - 1
      BY <2>1, <3>2
    <3>4. left[j].pool = rules[e[j]].pool /\ left[j].geos = rules[e[j]].geos
      BY <1>9, <3>1
    <3>5. left[k].geos # << >> => left[j].pool # left[k].pool
      BY <1>4, <2>1, <3>3, <3>4 DEF Targets
    <3>6. ASSUME left[k].geos = << >>, left[j].geos = << >> PROVE FALSE
      <4>1. ~Skipped(rules[e[k]]) /\ ~Skipped(rules[e[j]])
        BY <1>5, <3>1
      <4>2. ~Targets(rules[e[k]]) /\ ~Targets(rules[e[j]])
        BY <2>1, <3>4, <3>6, <4>1 DEF Skipped, Targets
      <4> QED  BY <1>4, <2>1, <3>3, <4>2
    <3> QED  BY <3>5, <3>6
  <2> QED  BY <1>4, <2>1, <2>2, <2>3
<1>11. ~Seen(GeosOf(left))
  <2> SUFFICES ASSUME Seen(GeosOf(left)) PROVE FALSE
    OBVIOUS
  <2>1. DOMAIN GeosOf(left) = 1 .. m /\ \A k \in 1 .. m : GeosOf(left)[k] = rules[e[k]].geos
    BY <1>6, <1>9 DEF GeosOf
  <2>2. DOMAIN GeosOf(rules) = 1 .. n /\ \A i \in 1 .. n : GeosOf(rules)[i] = rules[i].geos
    BY <1>1 DEF GeosOf
  <2>3. PICK i \in 1 .. m, j \in 1 .. m : j <= i /\
          \E k \in DOMAIN GeosOf(left)[i], l \in DOMAIN GeosOf(left)[j] :
            <<i, k>> # <<j, l>> /\ IsPrefix(GeosOf(left)[j][l], GeosOf(left)[i][k])
    BY <2>1 DEF Seen
  <2>4. PICK k \in DOMAIN GeosOf(left)[i], l \in DOMAIN GeosOf(left)[j] :
            <<i, k>> # <<j, l>> /\ IsPrefix(GeosOf(left)[j][l], GeosOf(left)[i][k])
    BY <2>3
  <2>5. e[i] \in 1 .. n /\ e[j] \in 1 .. n /\ e[j] <= e[i] /\ (i # j => e[i] # e[j])
    BY <1>5, <2>3
  <2>6. /\ GeosOf(left)[i] = GeosOf(rules)[e[i]]
        /\ GeosOf(left)[j] = GeosOf(rules)[e[j]]
    BY <2>1, <2>2, <2>5
  <2>7. <<e[i], k>> # <<e[j], l>>
    BY <2>4, <2>5
  <2> QED  BY <1>1, <2>2, <2>4, <2>5, <2>6, <2>7 DEF Seen
<1>12. left[m].geos = << >>
  <2>1. m \in 1 .. m /\ rules[n].geos = << >>
    BY <1>1, <1>5 DEF Targets
  <2> QED  BY <1>5, <1>9, <2>1
<1>13. m \in Nat \ {0} /\ Len(left) = m
  BY <1>5, <1>6
<1>14. Unskipped(d, left)
  BY <1>8, <1>10, <1>11, <1>12, <1>13 DEF Unskipped
<1> QED  BY <1>14 DEF left, rules

(* Rules without subnets whose pools are there are accepted. *)
LEMMA UnskippedAccepted ==
  ASSUME NEW d, NEW left, Unskipped(d, left), NEW e, e.rules = left,
         \A k \in 1 .. Len(left) : left[k].pool \subseteq DOMAIN e.pools
  PROVE  ~RulesFail(e)
<1> DEFINE m == Len(left)
<1>1. IsList(left) /\ m \in Nat \ {0} /\ DOMAIN left = 1 .. m
  BY DEF Unskipped, IsList
<1>2. left # << >>
  <2>1. 1 \in DOMAIN left
    BY <1>1
  <2> QED  BY <2>1
<1>3. ASSUME NEW k \in 1 .. m
      PROVE  /\ left[k].subnets = << >> /\ left[k].pool # {} /\ ToSet(left[k].geos) \subseteq Geo
             /\ \A j \in 1 .. k - 1 :
                  /\ left[k].geos # << >> => left[j].pool # left[k].pool
                  /\ left[k].geos = << >> => left[j].geos # << >>
  BY DEF Unskipped
<1> HIDE DEF m
<1>4. ASSUME NEW k \in 1 .. m
      PROVE  /\ ~BadPool(e, k) /\ ~OutOfOrder(left, k) /\ ~SecondDefault(left, k)
             /\ ToSet(left[k].subnets) \subseteq Subnet /\ ToSet(left[k].geos) \subseteq Geo
  <2>1. left[k].pool \subseteq DOMAIN e.pools
    BY DEF m
  <2>2. ~BadPool(e, k)
    BY <1>3, <2>1 DEF BadPool, Targets
  <2>3. ~OutOfOrder(left, k)
    BY <1>3 DEF OutOfOrder
  <2>4. ~SecondDefault(left, k)
    <3> SUFFICES ASSUME ~Targets(left[k]), NEW j \in 1 .. k - 1 PROVE Targets(left[j])
      BY DEF SecondDefault
    <3> QED  BY <1>3 DEF Targets
  <2>5. DOMAIN << >> = {}
    OBVIOUS
  <2>6. ToSet(left[k].subnets) \subseteq Subnet
    BY <1>3, <2>5 DEF ToSet
  <2> QED  BY <1>3, <2>2, <2>3, <2>4, <2>6
<1>5. ~Seen(SubnetsOf(left))
  <2>1. DOMAIN << >> = {}
    OBVIOUS
  <2>2. DOMAIN SubnetsOf(left) = 1 .. m /\ \A k \in 1 .. m : SubnetsOf(left)[k] = << >>
    BY <1>1, <1>3 DEF SubnetsOf
  <2> QED  BY <2>1, <2>2 DEF Seen
<1>6. ~Seen(GeosOf(left))
  BY DEF Unskipped
<1>7. ~Targets(Last(left))
  <2>1. m \in 1 .. m
    BY <1>1
  <2>2. left[m].geos = << >> /\ left[m].subnets = << >>
    BY <1>3, <2>1 DEF Unskipped, m
  <2> QED  BY <2>2 DEF Last, Targets, m
<1> QED  BY <1>1, <1>2, <1>4, <1>5, <1>6, <1>7 DEF RulesFail

(* Without the subnets, and without the pools that only their rules named,  *)
(* what was accepted still is.                                              *)
LEMMA SubnetlessAccepted ==
  ASSUME NEW d, IsDynamic(d), ~DynamicFails(d, {})
  PROVE  IsDynamic(WithoutSubnets(d)) /\ ~DynamicFails(WithoutSubnets(d), {})
<1>1. CASE ~\E i \in DOMAIN d.rules : d.rules[i].subnets # << >>
  BY <1>1 DEF WithoutSubnets
<1>2. CASE \E i \in DOMAIN d.rules : d.rules[i].subnets # << >>
  <2> DEFINE left == RulesWithoutSubnets(d.rules)
             R == UNION {left[i].pool : i \in DOMAIN left}
             seen == MetFrom(d.pools, R)
             pools == [id \in DOMAIN d.pools \cap seen |-> d.pools[id]]
             less == [d EXCEPT !.rules = left]
             e == WithoutSubnets(d)
  <2>1. ~PoolsFail(d.pools, {}) /\ ~RulesFail(d) /\ ~d.geo
    BY DEF DynamicFails
  <2>2. Unskipped(d, left)
    BY <2>1, RulesUnskipped
  <2> HIDE DEF left
  <2>3. less = [pools |-> d.pools, rules |-> left, geo |-> d.geo]
    BY PartsReplaced DEF IsDynamic
  <2>4. e = [pools |-> pools, rules |-> left, geo |-> d.geo]
    <3> HIDE DEF less
    <3>1. less.pools = d.pools /\ less.rules = left /\ less.geo = d.geo
          /\ less = [pools |-> less.pools, rules |-> less.rules, geo |-> less.geo]
      BY <2>3
    <3>2. PoolsSeen(less) = seen
      BY <3>1 DEF PoolsSeen, MetFrom
    <3> HIDE DEF seen
    <3>3. OnlyPools(less, seen) = [pools |-> pools, rules |-> left, geo |-> d.geo]
      BY <3>1, PartsReplaced DEF OnlyPools
    <3>4. e = OnlyPools(less, PoolsSeen(less))
      BY <1>2 DEF WithoutSubnets, left, less
    <3> QED  BY <3>2, <3>3, <3>4
  <2> HIDE DEF e, less, seen, R
  <2>5. e.pools = pools /\ e.rules = left /\ e.geo = d.geo
        /\ e = [pools |-> e.pools, rules |-> e.rules, geo |-> e.geo]
    BY <2>4
  <2>6. FallbacksExist(d.pools) /\ \A id \in DOMAIN d.pools : ~LoopsBack(d.pools, id)
    BY <2>1 DEF PoolsFail, FallbacksExist, IsDynamic, IsPool
  <2>7. IsList(left) /\ DOMAIN left = 1 .. Len(left) /\ Len(left) \in Nat \ {0}
    BY <2>2 DEF Unskipped, IsList
  <2>8. R \subseteq DOMAIN d.pools /\ \A k \in 1 .. Len(left) : left[k].pool \subseteq R
    BY <2>2, <2>7 DEF Unskipped, R
  <2>9. /\ R \subseteq seen /\ seen \subseteq DOMAIN d.pools
        /\ \A p \in seen : d.pools[p].fallback \subseteq seen
        /\ \A p \in seen : p \in R \/ \E q \in seen : p \in d.pools[q].fallback
    BY <2>6, <2>8, MetClosed DEF seen
  <2>10. DOMAIN pools = seen /\ \A id \in seen : pools[id] = d.pools[id]
    BY <2>9
  <2> HIDE DEF pools
  <2>11. IsFiniteSet(seen)
    BY <2>9, FS_Subset DEF IsDynamic
  <2>12. FallbacksExist(pools)
    BY <2>6, <2>9, <2>10, <2>11 DEF FallbacksExist
  <2>13. \A id \in seen : ~LoopsBack(pools, id)
    BY <2>6, <2>9, <2>10, <2>12, NoNewLoops
  <2>14. ~PoolsFail(pools, {})
    <3>1. seen # {}
      <4>1. 1 \in 1 .. Len(left)
        BY <2>7
      <4>2. left[1].pool # {}
        BY <2>2, <4>1 DEF Unskipped
      <4> QED  BY <2>8, <2>9, <4>1, <4>2
    <3>2. \A id \in seen : /\ HasValues(pools[id]) /\ ~ValueFault(pools[id], {})
                           /\ ~LoneWeight(pools[id])
                           /\ pools[id].fallback \subseteq DOMAIN pools
      BY <2>1, <2>9, <2>10 DEF PoolsFail
    <3> QED  BY <2>10, <2>13, <3>1, <3>2 DEF PoolsFail
  <2>15. ~RulesFail(e)
    <3>1. \A k \in 1 .. Len(left) : left[k].pool \subseteq DOMAIN e.pools
      BY <2>5, <2>8, <2>9, <2>10
    <3> QED  BY <2>2, <2>5, <3>1, UnskippedAccepted
  <2>16. UnusedPools(e) = {}
    <3> SUFFICES ASSUME NEW p \in UnusedPools(e) PROVE FALSE
      OBVIOUS
    <3>1. p \in seen
      BY <2>5, <2>10 DEF UnusedPools
    <3>2. CASE p \in R
      <4>1. p \in UNION {e.rules[i].pool : i \in DOMAIN e.rules}
        BY <2>5, <3>2 DEF R
      <4> QED  BY <4>1 DEF UnusedPools
    <3>3. CASE \E q \in seen : p \in d.pools[q].fallback
      <4>1. PICK q \in seen : p \in d.pools[q].fallback
        BY <3>3
      <4>2. q \in DOMAIN e.pools /\ p \in e.pools[q].fallback
        BY <2>5, <2>10, <4>1
      <4>3. p \in UNION {e.pools[id].fallback : id \in DOMAIN e.pools}
        BY <4>2
      <4> QED  BY <4>3 DEF UnusedPools
    <3> QED  BY <2>9, <3>1, <3>2, <3>3
  <2>17. IsDynamic(e)
    <3>1. \A id \in DOMAIN e.pools : IsPool(e.pools[id])
      BY <2>5, <2>9, <2>10 DEF IsDynamic
    <3>2. \A i \in DOMAIN e.rules : IsRule(e.rules[i])
      BY <2>2, <2>5, <2>7 DEF Unskipped
    <3>3. IsFiniteSet(DOMAIN e.pools) /\ IsList(e.rules)
      BY <2>5, <2>7, <2>10, <2>11
    <3> QED  BY <2>5, <3>1, <3>2, <3>3 DEF IsDynamic
  <2>18. ~DynamicFails(e, {})
    BY <2>1, <2>5, <2>14, <2>15, <2>16 DEF DynamicFails
  <2> QED  BY <2>17, <2>18 DEF e
<1> QED  BY <1>1, <1>2

(* What DynamicValidator has nothing against, it has nothing against either *)
(* once the record was made of it and a provider's lack of support took the *)
(* statuses or the subnets away, and every client is still served.          *)
THEOREM AcceptedReduce ==
  ASSUME NEW d, IsDynamic(d), NEW running, ~DynamicFails(d, running),
         Default \notin DOMAIN d.pools, NEW supports
  PROVE  ~DynamicFails(Supported(Made(d), supports), {}) /\ Serves(Supported(Made(d), supports))
<1> DEFINE flags == IF "status" \in supports THEN Made(d) ELSE WithoutStatus(Made(d))
           left == Supported(Made(d), supports)
<1>1. IsDynamic(Made(d)) /\ IsMade(Made(d)) /\ ~DynamicFails(Made(d), {})
  BY MadeAccepted, MadePools
<1>2. IsDynamic(flags) /\ ~DynamicFails(flags, {})
  BY <1>1, UnflaggedAccepted
<1> HIDE DEF flags
<1>3. left = IF "subnets" \in supports THEN flags ELSE WithoutSubnets(flags)
  BY DEF Supported, flags
<1> HIDE DEF left
<1>4. IsDynamic(left) /\ ~DynamicFails(left, {})
  BY <1>2, <1>3, SubnetlessAccepted
<1>5. Serves(left)
  BY <1>4, AcceptedServe
<1> QED  BY <1>4, <1>5 DEF left

-----------------------------------------------------------------------------
(* The search for loops *)

LEMMA GreatestOf ==
  ASSUME NEW n \in Nat, NEW T, T \subseteq 0 .. n, T # {}
  PROVE  \E x \in T : \A y \in T : y <= x
<1> DEFINE D == {n - x : x \in T}
<1>1. D \subseteq Nat /\ D # {}
  <2>1. \A x \in T : n - x \in Nat
    OBVIOUS
  <2> QED  BY <2>1
<1> HIDE DEF D
<1>2. PICK d \in D : \A e \in D : d <= e
  BY <1>1, LeastOf
<1>3. PICK x \in T : d = n - x
  BY <1>2 DEF D
<1>4. ASSUME NEW y \in T PROVE y <= x
  <2>1. n - y \in D
    BY DEF D
  <2>2. n - x <= n - y /\ x \in 0 .. n /\ y \in 0 .. n
    BY <1>2, <1>3, <2>1
  <2> QED  BY <2>2
<1> QED  BY <1>4

(* the records that `targets` holds *)
Dict(order) == {r \in ToSet(order) : r \in Alias(order, r.name)}

(* `targets` has at most one record for a name, and one for each alias. *)
LEMMA AliasHeld ==
  ASSUME NEW order, IsList(order)
  PROVE  /\ \A name : AtMostOne(Alias(order, name))
         /\ \A name : \A r \in Alias(order, name) : r.name = name /\ IsAlias(r) /\ r \in Dict(order)
         /\ \A i \in 1 .. Len(order) : IsAlias(order[i]) => Alias(order, order[i].name) # {}
<1> DEFINE n == Len(order)
           at(name) == {i \in 1 .. n : IsAlias(order[i]) /\ order[i].name = name}
<1>1. n \in Nat /\ DOMAIN order = 1 .. n
  BY DEF IsList
<1>2. \A name : Alias(order, name) = {order[i] : i \in {j \in at(name) : \A k \in at(name) : k <= j}}
  BY <1>1 DEF Alias
<1> HIDE DEF n
<1>3. ASSUME NEW name PROVE AtMostOne(Alias(order, name))
  <2>1. ASSUME NEW i \in at(name), NEW j \in at(name),
               \A k \in at(name) : k <= i, \A k \in at(name) : k <= j
        PROVE  i = j
    <3>1. i <= j /\ j <= i /\ i \in Nat /\ j \in Nat
      BY <1>1, <2>1
    <3> QED  BY <3>1
  <2> QED  BY <1>2, <2>1 DEF AtMostOne
<1>4. ASSUME NEW name, NEW r \in Alias(order, name)
      PROVE  r.name = name /\ IsAlias(r) /\ r \in Dict(order)
  <2>1. PICK i \in at(name) : r = order[i]
    BY <1>2
  <2>2. r.name = name /\ IsAlias(r) /\ r \in ToSet(order)
    BY <1>1, <2>1 DEF ToSet
  <2> QED  BY <2>2 DEF Dict
<1>5. ASSUME NEW i \in 1 .. n, IsAlias(order[i]) PROVE Alias(order, order[i].name) # {}
  <2> DEFINE T == at(order[i].name)
  <2>1. i \in T /\ T \subseteq 0 .. n
    BY <1>1, <1>5
  <2>2. \E x \in T : \A y \in T : y <= x
    <3> HIDE DEF T
    <3> QED  BY <1>1, <2>1, GreatestOf
  <2> QED  BY <1>2, <2>2
<1> QED  BY <1>3, <1>4, <1>5 DEF n

(* In `targets` a name is followed by at most one record. *)
LEMMA DictKeyed ==
  ASSUME NEW order, IsList(order), NEW r \in Dict(order), NEW s \in Dict(order), r.name = s.name
  PROVE  r = s
BY AliasHeld DEF Dict, AtMostOne

LEMMA DictHolds ==
  ASSUME NEW order, IsList(order), NEW r \in Dict(order)
  PROVE  Alias(order, r.name) = {r}
BY AliasHeld DEF Dict, AtMostOne

IsChase(f, n, order, start) ==
  f = [i \in 0 .. n |-> IF i = 0 THEN Alias(order, start)
                        ELSE UNION {Alias(order, Follow(r)) : r \in f[i - 1]}]

LEMMA ChaseExists ==
  ASSUME NEW order, NEW start, NEW n \in Nat
  PROVE  \E f : IsChase(f, n, order, start)
<1> DEFINE next(ids) == UNION {Alias(order, Follow(r)) : r \in ids}
           T == {k \in Nat : ~\E f : IsChase(f, k, order, start)}
<1> SUFFICES ASSUME T # {} PROVE FALSE
  OBVIOUS
<1>1. PICK m \in T : \A k \in T : m <= k
  BY LeastOf
<1>2. m # 0
  <2>1. IsChase([i \in 0 .. 0 |-> Alias(order, start)], 0, order, start)
    BY DEF IsChase
  <2> QED  BY <2>1
<1>3. PICK f : IsChase(f, m - 1, order, start)
  BY <1>1, <1>2
<1> DEFINE g == [i \in 0 .. m |-> IF i < m THEN f[i] ELSE next(f[m - 1])]
<1>4. \A i \in 0 .. m - 1 : g[i] = f[i]
  BY <1>1
<1>5. \A i \in 0 .. m - 1 : f[i] = IF i = 0 THEN Alias(order, start) ELSE next(f[i - 1])
  BY <1>3 DEF IsChase
<1>6. m \in Nat /\ g[m] = next(f[m - 1])
  BY <1>1
<1> HIDE DEF next, g
<1>7. ASSUME NEW i \in 0 .. m
      PROVE  g[i] = IF i = 0 THEN Alias(order, start) ELSE next(g[i - 1])
  <2>1. CASE i # m
    <3>1. i \in 0 .. m - 1 /\ (i # 0 => i - 1 \in 0 .. m - 1)
      BY <1>6, <2>1
    <3> QED  BY <1>4, <1>5, <3>1
  <2>2. CASE i = m
    <3>1. i - 1 \in 0 .. m - 1 /\ i # 0
      BY <1>2, <1>6, <2>2
    <3> QED  BY <1>4, <1>6, <2>2, <3>1
  <2> QED  BY <2>1, <2>2
<1>8. IsChase(g, m, order, start)
  <2>1. g = [i \in 0 .. m |-> g[i]]
    BY DEF g
  <2>2. g = [i \in 0 .. m |-> IF i = 0 THEN Alias(order, start) ELSE next(g[i - 1])]
    BY <1>7, <2>1
  <2> QED  BY <2>2 DEF IsChase, next
<1> QED  BY <1>1, <1>8

(* Each turn is at one record of `targets`, or at none. *)
LEMMA ChaseSteps ==
  ASSUME NEW order, IsList(order), NEW start
  PROVE  LET f == Chase(order, start)
             n == Len(order)
         IN  /\ n \in Nat /\ DOMAIN f = 0 .. n /\ f[0] = Alias(order, start)
             /\ \A i \in 1 .. n : f[i] = UNION {Alias(order, Follow(r)) : r \in f[i - 1]}
             /\ \A i \in 0 .. n : f[i] \subseteq Dict(order) /\ AtMostOne(f[i])
<1> DEFINE f == Chase(order, start)
           n == Len(order)
           Fine(rs) == rs \subseteq Dict(order) /\ AtMostOne(rs)
<1>1. n \in Nat
  BY DEF IsList
<1>2. IsChase(f, n, order, start)
  <2>1. PICK g : IsChase(g, n, order, start)
    BY <1>1, ChaseExists
  <2>2. f = CHOOSE h : IsChase(h, n, order, start)
    BY DEF Chase, IsChase
  <2> QED  BY <2>1, <2>2
<1> HIDE DEF f, n
<1>3. /\ DOMAIN f = 0 .. n /\ f[0] = Alias(order, start)
      /\ \A i \in 1 .. n : f[i] = UNION {Alias(order, Follow(r)) : r \in f[i - 1]}
  BY <1>1, <1>2 DEF IsChase
<1> DEFINE T == {i \in 0 .. n : ~Fine(f[i])}
<1>4. ASSUME T # {} PROVE FALSE
  <2>1. T \subseteq Nat
    BY <1>1
  <2> HIDE DEF T
  <2>2. PICK m \in T : \A i \in T : m <= i
    BY <1>4, <2>1, LeastOf
  <2> USE DEF T
  <2>3. Fine(f[0])
    BY <1>3, AliasHeld
  <2>4. m \in 1 .. n /\ m - 1 \in 0 .. n
    BY <1>1, <2>2, <2>3
  <2>5. Fine(f[m - 1])
    BY <1>1, <2>2, <2>4
  <2>6. f[m] = UNION {Alias(order, Follow(r)) : r \in f[m - 1]}
    BY <1>3, <2>4
  <2>7. f[m] \subseteq Dict(order)
    BY <2>6, AliasHeld
  <2>8. AtMostOne(f[m])
    BY <2>5, <2>6, AliasHeld DEF AtMostOne
  <2> QED  BY <2>2, <2>7, <2>8
<1> QED  BY <1>1, <1>3, <1>4 DEF f, n

(* where the inner loop ends *)
Ends(f, seen, n) ==
  \/ f[n] = {}
  \/ \E m \in 0 .. n - 1 : f[m] = f[n]
  \/ \E r \in f[n] : r.name \in seen

(* It does, for there are not more records in `targets` than in the zone. *)
LEMMA ChaseEnds ==
  ASSUME NEW order, IsList(order), NEW start, NEW seen
  PROVE  LET f == Chase(order, start)
         IN  \E n \in 0 .. Len(order) : Ends(f, seen, n) /\ \A m \in 0 .. n - 1 : ~Ends(f, seen, m)
<1> DEFINE f == Chase(order, start)
           N == Len(order)
           T == {n \in 0 .. N : Ends(f, seen, n)}
<1>1. /\ N \in Nat /\ DOMAIN order = 1 .. N
      /\ \A i \in 0 .. N : f[i] \subseteq Dict(order) /\ AtMostOne(f[i])
  BY ChaseSteps DEF IsList
<1> HIDE DEF f, N
<1>2. ASSUME T = {} PROVE FALSE
  <2>1. \A n \in 0 .. N : f[n] # {} /\ \A m \in 0 .. n - 1 : f[m] # f[n]
    BY <1>2 DEF Ends
  <2>2. \A n \in 0 .. N : \E i \in 1 .. N : order[i] \in f[n]
    BY <1>1, <2>1 DEF Dict, ToSet
  <2> DEFINE g == [n \in 0 .. N |-> CHOOSE i \in 1 .. N : order[i] \in f[n]]
  <2>3. g \in [0 .. N -> 1 .. N] /\ \A n \in 0 .. N : order[g[n]] \in f[n]
    BY <2>2
  <2> HIDE DEF g
  <2>4. /\ IsFiniteSet(0 .. N) /\ Cardinality(0 .. N) = N + 1
        /\ IsFiniteSet(1 .. N) /\ Cardinality(1 .. N) = N
    BY <1>1, FS_Interval
  <2>5. PICK x \in 0 .. N, y \in 0 .. N : x # y /\ g[x] = g[y]
    <3>1. Cardinality(1 .. N) < Cardinality(0 .. N)
      BY <1>1, <2>4
    <3> QED  BY <2>3, <2>4, <3>1, FS_PigeonHole
  <2>6. f[x] = f[y]
    <3>1. order[g[x]] \in f[x] /\ order[g[x]] \in f[y]
      BY <2>3, <2>5
    <3>2. AtMostOne(f[x]) /\ AtMostOne(f[y])
      BY <1>1
    <3> QED  BY <3>1, <3>2 DEF AtMostOne
  <2>7. x \in 0 .. y - 1 \/ y \in 0 .. x - 1
    BY <1>1, <2>5
  <2> QED  BY <2>1, <2>6, <2>7
<1>3. PICK n \in T : \A m \in T : n <= m
  <2>1. T \subseteq Nat
    BY <1>1
  <2> HIDE DEF T
  <2> QED  BY <1>2, <2>1, LeastOf
<1>4. n \in 0 .. N /\ Ends(f, seen, n)
  BY <1>3
<1>5. ASSUME NEW m \in 0 .. n - 1 PROVE ~Ends(f, seen, m)
  <2>1. m \in 0 .. N /\ m < n
    BY <1>1, <1>4
  <2> QED  BY <1>1, <1>3, <1>4, <2>1
<1> QED  BY <1>4, <1>5 DEF f, N

(* The path of a walk, record after record, and where it goes from its end *)
Onward(order, p, end) == Alias(order, Follow(p[end - 1]))
IsPath(order, start, seen, p, end) ==
  /\ end \in Nat /\ p \in [0 .. end - 1 -> Dict(order)]
  /\ \A i, j \in 0 .. end - 1 : p[i] = p[j] => i = j
  /\ \A i \in 0 .. end - 1 : p[i].name \notin seen
  /\ \A i \in 1 .. end - 1 : Alias(order, Follow(p[i - 1])) = {p[i]}
  /\ end = 0 => Alias(order, start) = {} \/ start \in seen
  /\ end > 0 =>
       /\ Alias(order, start) = {p[0]}
       /\ \/ Onward(order, p, end) = {}
          \/ \E r \in Onward(order, p, end) : r.name \in seen
          \/ \E m \in 0 .. end - 1 : Onward(order, p, end) = {p[m]}
Looping(order, p, end) ==
  {k \in 0 .. end - 1 : \E m \in 0 .. k : Onward(order, p, end) = {p[m]}}
PathOf(p, end) == {p[k] : k \in 0 .. end - 1}
LoopOf(order, p, end) == {p[k] : k \in Looping(order, p, end)}

LEMMA WalkIsPath ==
  ASSUME NEW order, IsList(order), NEW start, NEW seen
  PROVE  \E end : \E p :
           /\ IsPath(order, start, seen, p, end)
           /\ Walk(order, start, seen) =
                [path |-> PathOf(p, end), loop |-> LoopOf(order, p, end)]
<1> DEFINE f == Chase(order, start)
           N == Len(order)
           Least(n) == Ends(f, seen, n) /\ \A m \in 0 .. n - 1 : ~Ends(f, seen, m)
           end == CHOOSE n \in DOMAIN f : Least(n)
           p == [k \in 0 .. end - 1 |-> CHOOSE r \in f[k] : TRUE]
<1>1. /\ N \in Nat /\ DOMAIN f = 0 .. N /\ f[0] = Alias(order, start)
      /\ \A i \in 1 .. N : f[i] = UNION {Alias(order, Follow(r)) : r \in f[i - 1]}
      /\ \A i \in 0 .. N : f[i] \subseteq Dict(order) /\ AtMostOne(f[i])
  BY ChaseSteps
<1>2. \E n \in 0 .. N : Least(n)
  BY ChaseEnds
<1>3. Walk(order, start, seen) =
        [path |-> UNION {f[k] : k \in 0 .. end - 1},
         loop |-> UNION {f[k] : k \in {k \in 0 .. end - 1 :
                     \E m \in 0 .. k : f[end] # {} /\ f[m] = f[end]}}]
  BY DEF Walk, Ends
<1> HIDE DEF f, N
<1>4. end \in 0 .. N /\ Least(end)
  BY <1>1, <1>2
<1> HIDE DEF end
<1>5. ASSUME NEW k \in 0 .. end - 1
      PROVE  /\ k \in 0 .. N /\ f[k] = {p[k]} /\ p[k] \in Dict(order) /\ p[k].name \notin seen
             /\ \A m \in 0 .. k - 1 : f[m] # f[k]
  <2>1. k \in 0 .. N /\ ~Ends(f, seen, k)
    BY <1>1, <1>4
  <2>2. f[k] # {} /\ (\A r \in f[k] : r.name \notin seen) /\ \A m \in 0 .. k - 1 : f[m] # f[k]
    BY <2>1 DEF Ends
  <2>3. p[k] \in f[k]
    BY <2>2
  <2> HIDE DEF p
  <2> QED  BY <1>1, <2>1, <2>2, <2>3 DEF AtMostOne
<1>6. p \in [0 .. end - 1 -> Dict(order)]
  BY <1>5
<1> HIDE DEF p
<1>7. ASSUME NEW i \in 0 .. end - 1, NEW j \in 0 .. end - 1, p[i] = p[j] PROVE i = j
  <2>1. f[i] = f[j] /\ i \in Nat /\ j \in Nat
    <3>1. f[i] = {p[i]} /\ f[j] = {p[j]}
      BY <1>5
    <3> QED  BY <1>1, <1>4, <1>7, <3>1
  <2>2. ~(i \in 0 .. j - 1) /\ ~(j \in 0 .. i - 1)
    BY <1>5, <2>1
  <2> QED  BY <2>1, <2>2
<1>8. ASSUME NEW i \in 1 .. end, i - 1 \in 0 .. end - 1
      PROVE  f[i] = Alias(order, Follow(p[i - 1]))
  <2>1. i \in 1 .. N
    BY <1>1, <1>4
  <2>2. f[i] = UNION {Alias(order, Follow(r)) : r \in f[i - 1]}
    BY <1>1, <2>1
  <2>3. f[i - 1] = {p[i - 1]}
    BY <1>5, <1>8
  <2> QED  BY <2>2, <2>3
<1>9. \A i \in 1 .. end - 1 : Alias(order, Follow(p[i - 1])) = {p[i]}
  <2> TAKE i \in 1 .. end - 1
  <2>1. i \in 1 .. end /\ i - 1 \in 0 .. end - 1 /\ i \in 0 .. end - 1
    BY <1>1, <1>4
  <2> QED  BY <1>5, <1>8, <2>1
<1>10. CASE end = 0
  <2>1. f[0] = {} \/ \E r \in f[0] : r.name \in seen
    BY <1>4, <1>10 DEF Ends
  <2>2. Alias(order, start) = {} \/ start \in seen
    BY <1>1, <2>1, AliasHeld
  <2>3. IsPath(order, start, seen, p, end)
    BY <1>6, <1>10, <2>2 DEF IsPath
  <2>4. Looping(order, p, end) = {}
    BY <1>10 DEF Looping
  <2>5. 0 .. end - 1 = {}
    BY <1>10
  <2> HIDE DEF Least
  <2>6. Walk(order, start, seen) = [path |-> PathOf(p, end), loop |-> LoopOf(order, p, end)]
    BY <1>3, <2>4, <2>5 DEF PathOf, LoopOf
  <2> QED  BY <2>3, <2>6
<1>11. CASE end > 0
  <2>1. end \in 1 .. end /\ end - 1 \in 0 .. end - 1 /\ 0 \in 0 .. end - 1 /\ end \in Nat
    BY <1>1, <1>4, <1>11
  <2>2. f[end] = Onward(order, p, end)
    BY <1>8, <2>1 DEF Onward
  <2>3. Alias(order, start) = {p[0]}
    BY <1>1, <1>5, <2>1
  <2>4. \/ f[end] = {} \/ \E r \in f[end] : r.name \in seen
        \/ \E m \in 0 .. end - 1 : f[end] = {p[m]}
    BY <1>4, <1>5 DEF Ends
  <2>5. IsPath(order, start, seen, p, end)
    BY <1>5, <1>6, <1>7, <1>9, <1>11, <2>1, <2>2, <2>3, <2>4 DEF IsPath
  <2>6. Looping(order, p, end) =
          {k \in 0 .. end - 1 : \E m \in 0 .. k : f[end] # {} /\ f[m] = f[end]}
    <3>1. ASSUME NEW k \in 0 .. end - 1, NEW m \in 0 .. k
          PROVE  Onward(order, p, end) = {p[m]} <=> f[end] # {} /\ f[m] = f[end]
      <4>1. m \in 0 .. end - 1
        BY <2>1
      <4>2. f[m] = {p[m]}
        BY <1>5, <4>1
      <4> QED  BY <2>2, <4>2
    <3> QED  BY <3>1 DEF Looping
  <2>7. \A K \in SUBSET (0 .. end - 1) : UNION {f[k] : k \in K} = {p[k] : k \in K}
    BY <1>5
  <2>8. Looping(order, p, end) \in SUBSET (0 .. end - 1)
    BY DEF Looping
  <2> HIDE DEF Least
  <2>9. Walk(order, start, seen) = [path |-> PathOf(p, end), loop |-> LoopOf(order, p, end)]
    BY <1>3, <2>6, <2>7, <2>8 DEF PathOf, LoopOf
  <2> QED  BY <2>5, <2>9
<1> QED  BY <1>1, <1>4, <1>10, <1>11

LoopingFrom(order, p, end, j) ==
  j \in 0 .. end - 1 /\ Onward(order, p, end) = {p[j]} /\ Looping(order, p, end) = j .. end - 1

LEMMA LoopingIs ==
  ASSUME NEW order, NEW start, NEW seen, NEW p, NEW end, IsPath(order, start, seen, p, end),
         NEW j \in 0 .. end - 1, Onward(order, p, end) = {p[j]}
  PROVE  LoopingFrom(order, p, end, j)
<1>1. end \in Nat /\ \A i, m \in 0 .. end - 1 : p[i] = p[m] => i = m
  BY DEF IsPath
<1>2. ASSUME NEW k \in 0 .. end - 1
      PROVE  (\E m \in 0 .. k : Onward(order, p, end) = {p[m]}) <=> j <= k
  <2>1. ASSUME NEW m \in 0 .. k, Onward(order, p, end) = {p[m]} PROVE m = j
    <3>1. m \in 0 .. end - 1 /\ p[m] = p[j]
      BY <1>1, <2>1
    <3> QED  BY <1>1, <3>1
  <2>2. j <= k => j \in 0 .. k
    BY <1>1
  <2> QED  BY <1>1, <2>1, <2>2
<1>3. Looping(order, p, end) = {k \in 0 .. end - 1 : j <= k}
  BY <1>2 DEF Looping
<1>4. {k \in 0 .. end - 1 : j <= k} = j .. end - 1
  BY <1>1
<1> QED  BY <1>3, <1>4 DEF LoopingFrom

(* What a walk goes through: it stays outside of what was seen, and leads   *)
(* to nothing else but what was seen.                                       *)
LEMMA PathLeads ==
  ASSUME NEW order, IsList(order), NEW start, NEW seen, NEW p, NEW end,
         IsPath(order, start, seen, p, end)
  PROVE  LET path == PathOf(p, end)
         IN  /\ path \subseteq Dict(order) /\ \A r \in path : r.name \notin seen
             /\ \A s \in Alias(order, start) : s \in path \/ s.name \in seen
             /\ \A r \in path : \A s \in Alias(order, Follow(r)) : s \in path \/ s.name \in seen
<1> DEFINE path == {p[k] : k \in 0 .. end - 1}
<1>0. path = PathOf(p, end)
  BY DEF PathOf
<1>1. end \in Nat /\ p \in [0 .. end - 1 -> Dict(order)]
  BY DEF IsPath
<1>2. path \subseteq Dict(order) /\ \A r \in path : r.name \notin seen
  BY <1>1 DEF IsPath
<1>3. ASSUME NEW s \in Alias(order, start) PROVE s \in path \/ s.name \in seen
  <2>1. CASE end = 0
    <3>1. start \in seen /\ s.name = start
      BY <2>1, AliasHeld DEF IsPath
    <3> QED  BY <3>1
  <2>2. CASE end > 0
    <3>1. s = p[0] /\ 0 \in 0 .. end - 1
      BY <1>1, <2>2 DEF IsPath
    <3> QED  BY <3>1
  <2> QED  BY <1>1, <2>1, <2>2
<1>4. ASSUME NEW r \in path, NEW s \in Alias(order, Follow(r)) PROVE s \in path \/ s.name \in seen
  <2>1. PICK k \in 0 .. end - 1 : r = p[k]
    OBVIOUS
  <2>2. CASE k < end - 1
    <3>1. k + 1 \in 1 .. end - 1 /\ k + 1 \in 0 .. end - 1 /\ (k + 1) - 1 = k
      BY <1>1, <2>2
    <3>2. Alias(order, Follow(p[k])) = {p[k + 1]}
      BY <3>1 DEF IsPath
    <3>3. s = p[k + 1]
      BY <2>1, <3>2
    <3> QED  BY <3>1, <3>3
  <2>3. CASE k = end - 1
    <3>1. s \in Onward(order, p, end) /\ end > 0
      BY <1>1, <2>1, <2>3 DEF Onward
    <3>2. AtMostOne(Onward(order, p, end))
      BY AliasHeld DEF Onward
    <3>3. \/ Onward(order, p, end) = {}
          \/ \E q \in Onward(order, p, end) : q.name \in seen
          \/ \E m \in 0 .. end - 1 : Onward(order, p, end) = {p[m]}
      BY <3>1 DEF IsPath
    <3>4. CASE \E q \in Onward(order, p, end) : q.name \in seen
      BY <3>1, <3>2, <3>4 DEF AtMostOne
    <3>5. CASE \E m \in 0 .. end - 1 : Onward(order, p, end) = {p[m]}
      BY <3>1, <3>5
    <3> QED  BY <3>1, <3>3, <3>4, <3>5
  <2> QED  BY <1>1, <2>2, <2>3
<1> HIDE DEF path
<1> QED  BY <1>0, <1>2, <1>3, <1>4

(* A set of aliases of the path that is closed goes on from each of them    *)
(* along the path, so it holds the end of the path, and the loop is there.  *)
LEMMA PathLoops ==
  ASSUME NEW order, IsList(order), NEW start, NEW seen, NEW p, NEW end,
         IsPath(order, start, seen, p, end),
         NEW c, c \subseteq PathOf(p, end), Closed(c)
  PROVE  LoopOf(order, p, end) # {} /\ LoopOf(order, p, end) \subseteq c
<1> USE DEF PathOf, LoopOf
<1>1. end \in Nat /\ p \in [0 .. end - 1 -> Dict(order)]
  BY DEF IsPath
<1>2. \A i, j \in 0 .. end - 1 : p[i] = p[j] => i = j
  BY DEF IsPath
<1>3. \A i \in 1 .. end - 1 : Alias(order, Follow(p[i - 1])) = {p[i]}
  BY DEF IsPath
<1>4. ASSUME NEW k \in 0 .. end - 1, p[k] \in c
      PROVE  \E j \in 0 .. end - 1 : p[j] \in c /\ Alias(order, Follow(p[k])) = {p[j]}
  <2>1. PICK s \in c : Follow(p[k]) = s.name
    BY <1>4 DEF Closed
  <2>2. PICK j \in 0 .. end - 1 : s = p[j]
    OBVIOUS
  <2>3. Alias(order, s.name) = {s}
    BY <1>1, <2>2, DictHolds
  <2> QED  BY <2>1, <2>2, <2>3
<1> DEFINE K == {k \in 0 .. end - 1 : p[k] \in c}
<1>5. K # {} /\ K \subseteq 0 .. end /\ K \subseteq Nat
  <2>1. PICK r : r \in c
    BY DEF Closed
  <2>2. PICK k \in 0 .. end - 1 : r = p[k]
    BY <2>1
  <2> QED  BY <1>1, <2>1, <2>2
<1> HIDE DEF K
<1>6. PICK k \in K : \A i \in K : i <= k
  BY <1>1, <1>5, GreatestOf
<1> USE DEF K
<1>7. PICK j \in 0 .. end - 1 : p[j] \in c /\ Alias(order, Follow(p[k])) = {p[j]}
  BY <1>4, <1>6
<1>8. k = end - 1
  <2> SUFFICES ASSUME k # end - 1 PROVE FALSE
    OBVIOUS
  <2>1. k + 1 \in 1 .. end - 1 /\ k + 1 \in 0 .. end - 1 /\ (k + 1) - 1 = k
    BY <1>1, <1>6
  <2>2. {p[j]} = {p[k + 1]}
    BY <1>3, <1>7, <2>1
  <2>3. j = k + 1
    BY <1>2, <2>1, <2>2
  <2>4. j <= k
    BY <1>6, <1>7
  <2> QED  BY <1>1, <2>3, <2>4
<1>9. LoopingFrom(order, p, end, j)
  BY <1>7, <1>8, LoopingIs DEF Onward
<1> DEFINE T == {i \in j .. end - 1 : p[i] \notin c}
<1>10. ASSUME T # {} PROVE FALSE
  <2>1. T \subseteq Nat
    BY <1>1, <1>7
  <2> HIDE DEF T, K
  <2>2. PICK m \in T : \A i \in T : m <= i
    BY <1>10, <2>1, LeastOf
  <2> USE DEF T
  <2>3. m # j
    BY <1>7, <2>2
  <2>4. /\ m - 1 \in j .. end - 1 /\ m \in 1 .. end - 1 /\ m - 1 \in 0 .. end - 1
        /\ m \in 0 .. end - 1 /\ m - 1 < m
    BY <1>1, <1>7, <2>2, <2>3
  <2>5. p[m - 1] \in c
    BY <2>2, <2>4
  <2>6. PICK i \in 0 .. end - 1 : p[i] \in c /\ Alias(order, Follow(p[m - 1])) = {p[i]}
    BY <1>4, <2>4, <2>5
  <2>7. {p[i]} = {p[m]}
    BY <1>3, <2>4, <2>6
  <2> QED  BY <2>2, <2>6, <2>7
<1>11. j \in Looping(order, p, end)
  BY <1>1, <1>9 DEF LoopingFrom
<1>12. \A i \in Looping(order, p, end) : p[i] \in c
  BY <1>9, <1>10 DEF LoopingFrom
<1> QED  BY <1>11, <1>12

LEMMA PathIsLoop ==
  ASSUME NEW order, IsList(order), NEW start, NEW seen, NEW p, NEW end,
         IsPath(order, start, seen, p, end)
  PROVE  LET path == PathOf(p, end)
             loop == LoopOf(order, p, end)
         IN  /\ loop \subseteq path
             /\ loop # {} => IsLoop(loop)
             /\ \A c \in SUBSET path : IsLoop(c) => c = loop
<1> DEFINE path == {p[k] : k \in 0 .. end - 1}
           loop == {p[k] : k \in Looping(order, p, end)}
<1>0. path = PathOf(p, end) /\ loop = LoopOf(order, p, end)
  BY DEF PathOf, LoopOf
<1>1. end \in Nat
  BY DEF IsPath
<1>2. loop \subseteq path
  BY DEF Looping
<1>3. ASSUME loop # {} PROVE Closed(loop)
  <2>1. PICK j \in 0 .. end - 1 : Onward(order, p, end) = {p[j]}
    BY <1>1, <1>3 DEF Looping
  <2>2. Looping(order, p, end) = j .. end - 1
    BY <2>1, LoopingIs DEF LoopingFrom
  <2>3. ASSUME NEW k \in j .. end - 1 PROVE \E i \in j .. end - 1 : Follow(p[k]) = p[i].name
    <3>1. CASE k = end - 1
      <4>1. p[j] \in Alias(order, Follow(p[k]))
        BY <2>1, <3>1 DEF Onward
      <4>2. j \in j .. end - 1
        BY <1>1
      <4>3. p[j].name = Follow(p[k])
        BY <4>1, AliasHeld
      <4> QED  BY <4>2, <4>3
    <3>2. CASE k # end - 1
      <4>1. k + 1 \in 1 .. end - 1 /\ k + 1 \in j .. end - 1 /\ (k + 1) - 1 = k
        BY <1>1, <3>2
      <4>2. Alias(order, Follow(p[k])) = {p[k + 1]}
        BY <4>1 DEF IsPath
      <4>3. p[k + 1] \in Alias(order, Follow(p[k]))
        BY <4>2
      <4>4. p[k + 1].name = Follow(p[k])
        BY <4>3, AliasHeld
      <4> QED  BY <4>1, <4>4
    <3> QED  BY <3>1, <3>2
  <2>4. \A r \in loop : \E s \in loop : Follow(r) = s.name
    BY <2>2, <2>3
  <2> QED  BY <1>3, <2>4 DEF Closed
<1>4. \A c \in SUBSET path : Closed(c) => loop # {} /\ loop \subseteq c
  BY <1>0, PathLoops
<1> HIDE DEF path, loop
<1>5. loop # {} => IsLoop(loop)
  BY <1>2, <1>3, <1>4 DEF IsLoop
<1>6. ASSUME NEW c \in SUBSET path, IsLoop(c) PROVE c = loop
  <2>1. loop # {} /\ loop \subseteq c
    BY <1>4, <1>6 DEF IsLoop
  <2> QED  BY <1>3, <1>6, <2>1 DEF IsLoop
<1> QED  BY <1>0, <1>2, <1>5, <1>6

LEMMA WalkFinds ==
  ASSUME NEW order, IsList(order), NEW start, NEW seen
  PROVE  LET walk == Walk(order, start, seen)
         IN  /\ walk.path \subseteq Dict(order) /\ \A r \in walk.path : r.name \notin seen
             /\ \A s \in Alias(order, start) : s \in walk.path \/ s.name \in seen
             /\ \A r \in walk.path : \A s \in Alias(order, Follow(r)) :
                  s \in walk.path \/ s.name \in seen
             /\ walk.loop \subseteq walk.path
             /\ walk.loop # {} => IsLoop(walk.loop)
             /\ \A c \in SUBSET walk.path : IsLoop(c) => c = walk.loop
<1>1. PICK end : \E p :
         /\ IsPath(order, start, seen, p, end)
         /\ Walk(order, start, seen) = [path |-> PathOf(p, end), loop |-> LoopOf(order, p, end)]
  BY WalkIsPath
<1>2. PICK p :
         /\ IsPath(order, start, seen, p, end)
         /\ Walk(order, start, seen) = [path |-> PathOf(p, end), loop |-> LoopOf(order, p, end)]
  BY <1>1
<1>3. /\ Walk(order, start, seen).path = PathOf(p, end)
      /\ Walk(order, start, seen).loop = LoopOf(order, p, end)
  BY <1>2
<1>4. LET path == PathOf(p, end)
      IN  /\ path \subseteq Dict(order) /\ \A r \in path : r.name \notin seen
          /\ \A s \in Alias(order, start) : s \in path \/ s.name \in seen
          /\ \A r \in path : \A s \in Alias(order, Follow(r)) : s \in path \/ s.name \in seen
  BY <1>2, PathLeads
<1>5. LET path == PathOf(p, end)
          loop == LoopOf(order, p, end)
      IN  /\ loop \subseteq path
          /\ loop # {} => IsLoop(loop)
          /\ \A c \in SUBSET path : IsLoop(c) => c = loop
  BY <1>2, PathIsLoop
<1> QED  BY <1>3, <1>4, <1>5

(* Where the search is after the first i records: what was seen is closed,  *)
(* and each loop of what was seen was found once.                           *)
NamesIn(records) == {r.name : r \in records}
Sound(order, found, i) ==
  /\ found.loops \in Seq(SUBSET Dict(order))
  /\ \A k \in 1 .. i : IsAlias(order[k]) => order[k].name \in found.seen
  /\ \A r \in Dict(order) : r.name \in found.seen =>
       \A s \in Alias(order, Follow(r)) : s.name \in found.seen
  /\ \A c \in SUBSET Dict(order) :
       (\E k \in 1 .. Len(found.loops) : found.loops[k] = c)
         <=> IsLoop(c) /\ NamesIn(c) \subseteq found.seen
  /\ \A j, k \in 1 .. Len(found.loops) : found.loops[j] = found.loops[k] => j = k

(* A loop is seen in full or not at all. *)
LEMMA LoopSeen ==
  ASSUME NEW order, IsList(order), NEW seen,
         \A r \in Dict(order) : r.name \in seen =>
           \A s \in Alias(order, Follow(r)) : s.name \in seen,
         NEW c, c \subseteq Dict(order), IsLoop(c), NEW r \in c, r.name \in seen
  PROVE  NamesIn(c) \subseteq seen
<1> DEFINE d == {s \in c : s.name \in seen}
<1>1. Closed(d)
  <2>1. ASSUME NEW s \in d PROVE \E t \in d : Follow(s) = t.name
    <3>1. PICK t \in c : Follow(s) = t.name
      BY DEF IsLoop, Closed
    <3>2. t \in Alias(order, Follow(s))
      BY <3>1, DictHolds
    <3>3. t.name \in seen
      BY <3>2
    <3> QED  BY <3>1, <3>3
  <2>2. r \in d
    OBVIOUS
  <2> HIDE DEF d
  <2> QED  BY <2>1, <2>2 DEF Closed
<1>2. d = c
  BY <1>1 DEF IsLoop
<1> QED  BY <1>2 DEF NamesIn

LEMMA TrySound ==
  ASSUME NEW order, IsList(order), NEW i \in 1 .. Len(order), IsAlias(order[i]),
         NEW found, Sound(order, found, i - 1)
  PROVE  Sound(order, Try(order, found, order[i].name), i)
<1> DEFINE start == order[i].name
           walk == Walk(order, start, found.seen)
           seen == found.seen \cup NamesIn(walk.path)
           loops == IF walk.loop = {} THEN found.loops ELSE Append(found.loops, walk.loop)
           n == Len(found.loops)
           tried == Try(order, found, start)
<1>1. tried.seen = seen /\ tried.loops = loops
  BY DEF Try, NamesIn
<1> HIDE DEF tried
<1>2. /\ walk.path \subseteq Dict(order) /\ \A r \in walk.path : r.name \notin found.seen
      /\ \A s \in Alias(order, start) : s \in walk.path \/ s.name \in found.seen
      /\ \A r \in walk.path : \A s \in Alias(order, Follow(r)) :
           s \in walk.path \/ s.name \in found.seen
      /\ walk.loop \subseteq walk.path
      /\ walk.loop # {} => IsLoop(walk.loop)
      /\ \A c \in SUBSET walk.path : IsLoop(c) => c = walk.loop
  BY WalkFinds
<1> HIDE DEF walk
<1>3. /\ found.loops \in Seq(SUBSET Dict(order)) /\ n \in Nat
      /\ \A k \in 1 .. i - 1 : IsAlias(order[k]) => order[k].name \in found.seen
      /\ \A r \in Dict(order) : r.name \in found.seen =>
           \A s \in Alias(order, Follow(r)) : s.name \in found.seen
      /\ \A c \in SUBSET Dict(order) :
           (\E k \in 1 .. n : found.loops[k] = c) <=> IsLoop(c) /\ NamesIn(c) \subseteq found.seen
      /\ \A j, k \in 1 .. n : found.loops[j] = found.loops[k] => j = k
  BY LenProperties DEF Sound
<1>4. \A k \in 1 .. i : IsAlias(order[k]) => order[k].name \in seen
  <2>1. start \in seen
    <3>1. PICK s : s \in Alias(order, start)
      BY AliasHeld
    <3>2. s.name = start
      BY <3>1, AliasHeld
    <3> QED  BY <1>2, <3>1, <3>2 DEF NamesIn
  <2>2. i \in Nat
    BY DEF IsList
  <2> QED  BY <1>3, <2>1, <2>2
<1>5. \A r \in Dict(order) : r.name \in seen =>
        \A s \in Alias(order, Follow(r)) : s.name \in seen
  <2> SUFFICES ASSUME NEW r \in Dict(order), r.name \in seen, NEW s \in Alias(order, Follow(r))
               PROVE  s.name \in seen
    OBVIOUS
  <2>1. CASE r.name \in found.seen
    BY <1>3, <2>1
  <2>2. CASE r.name \notin found.seen
    <3>1. PICK q \in walk.path : q.name = r.name
      BY <2>2 DEF NamesIn
    <3>2. q = r
      BY <1>2, <3>1, DictKeyed
    <3> QED  BY <1>2, <3>1, <3>2 DEF NamesIn
  <2> QED  BY <2>1, <2>2
<1>6. ASSUME NEW c \in SUBSET Dict(order), IsLoop(c)
      PROVE  /\ NamesIn(c) \subseteq seen <=> NamesIn(c) \subseteq found.seen \/ c = walk.loop
             /\ c = walk.loop => ~(NamesIn(c) \subseteq found.seen)
  <2>1. PICK r : r \in c
    BY <1>6 DEF IsLoop, Closed
  <2>2. c = walk.loop => r.name \notin found.seen /\ NamesIn(c) \subseteq seen
    BY <1>2, <2>1 DEF NamesIn
  <2>3. ASSUME NamesIn(c) \subseteq seen, ~(NamesIn(c) \subseteq found.seen) PROVE c = walk.loop
    <3>1. ASSUME NEW s \in c PROVE s \in walk.path
      <4>1. s.name \notin found.seen
        BY <1>3, <1>6, <2>3, LoopSeen
      <4>2. PICK q \in walk.path : q.name = s.name
        BY <2>3, <4>1 DEF NamesIn
      <4>3. q = s
        BY <1>2, <4>2, DictKeyed
      <4> QED  BY <4>3
    <3> QED  BY <1>2, <1>6, <3>1
  <2> QED  BY <2>1, <2>2, <2>3 DEF NamesIn
<1> HIDE DEF seen
<1>7. CASE walk.loop = {}
  <2>1. loops = found.loops
    BY <1>7
  <2>2. \A c \in SUBSET Dict(order) : IsLoop(c) => c # walk.loop
    BY <1>7 DEF IsLoop, Closed
  <2>3. \A c \in SUBSET Dict(order) :
          (\E k \in 1 .. n : found.loops[k] = c) <=> IsLoop(c) /\ NamesIn(c) \subseteq seen
    BY <1>3, <1>6, <2>2
  <2>4. /\ tried.loops \in Seq(SUBSET Dict(order)) /\ tried.loops = found.loops
        /\ Len(tried.loops) = n
    BY <1>1, <1>3, <2>1
  <2> HIDE DEF loops, n
  <2> QED  BY <1>1, <1>3, <1>4, <1>5, <2>3, <2>4 DEF Sound, tried
<1>8. CASE walk.loop # {}
  <2>1. walk.loop \in SUBSET Dict(order) /\ IsLoop(walk.loop)
    BY <1>2, <1>8
  <2>2. /\ loops \in Seq(SUBSET Dict(order)) /\ Len(loops) = n + 1
        /\ loops[n + 1] = walk.loop /\ \A k \in 1 .. n : loops[k] = found.loops[k]
    BY <1>3, <1>8, <2>1, AppendProperties
  <2>3. ~(\E k \in 1 .. n : found.loops[k] = walk.loop)
    BY <1>3, <1>6, <2>1
  <2> HIDE DEF loops
  <2>4. \A c \in SUBSET Dict(order) :
          (\E k \in 1 .. n + 1 : loops[k] = c) <=> (\E k \in 1 .. n : found.loops[k] = c) \/ c = walk.loop
    <3> TAKE c \in SUBSET Dict(order)
    <3>1. n + 1 \in 1 .. n + 1 /\ 1 .. n + 1 = (1 .. n) \cup {n + 1}
      BY <1>3
    <3> QED  BY <2>2, <3>1
  <2>5. \A c \in SUBSET Dict(order) :
          (\E k \in 1 .. n + 1 : loops[k] = c) <=> IsLoop(c) /\ NamesIn(c) \subseteq seen
    BY <1>3, <1>6, <2>1, <2>4
  <2>6. ASSUME NEW j \in 1 .. n + 1, NEW k \in 1 .. n + 1, loops[j] = loops[k] PROVE j = k
    <3>1. CASE j \in 1 .. n /\ k \in 1 .. n
      BY <1>3, <2>2, <2>6, <3>1
    <3>2. CASE j = n + 1 \/ k = n + 1
      <4>1. \A m \in 1 .. n : loops[m] # loops[n + 1]
        BY <2>2, <2>3
      <4> QED  BY <1>3, <2>6, <3>2, <4>1
    <3> QED  BY <1>3, <3>1, <3>2
  <2> QED  BY <1>1, <1>4, <1>5, <2>2, <2>5, <2>6 DEF Sound, tried
<1> QED  BY <1>7, <1>8

After(order, found, i) ==
  IF IsAlias(order[i]) THEN Try(order, found, order[i].name) ELSE found
IsSearch(f, n, order) ==
  f = [i \in 0 .. n |-> IF i = 0 THEN [seen |-> {}, loops |-> << >>]
                        ELSE IF IsAlias(order[i]) THEN Try(order, f[i - 1], order[i].name)
                        ELSE f[i - 1]]

LEMMA SearchExists ==
  ASSUME NEW order, NEW n \in Nat
  PROVE  \E f : IsSearch(f, n, order)
<1> DEFINE first == [seen |-> {}, loops |-> << >>]
           T == {k \in Nat : ~\E f : IsSearch(f, k, order)}
<1> SUFFICES ASSUME T # {} PROVE FALSE
  OBVIOUS
<1>1. PICK m \in T : \A k \in T : m <= k
  BY LeastOf
<1>2. m # 0
  <2>1. IsSearch([i \in 0 .. 0 |-> first], 0, order)
    BY DEF IsSearch
  <2> QED  BY <2>1
<1>3. PICK f : IsSearch(f, m - 1, order)
  BY <1>1, <1>2
<1> DEFINE g == [i \in 0 .. m |-> IF i < m THEN f[i] ELSE After(order, f[m - 1], m)]
<1>4. \A i \in 0 .. m - 1 : g[i] = f[i]
  BY <1>1
<1>5. \A i \in 0 .. m - 1 : f[i] = IF i = 0 THEN first ELSE After(order, f[i - 1], i)
  BY <1>3 DEF IsSearch, After
<1>6. m \in Nat /\ g[m] = After(order, f[m - 1], m)
  BY <1>1
<1> HIDE DEF first, g
<1>7. ASSUME NEW i \in 0 .. m
      PROVE  g[i] = IF i = 0 THEN first ELSE After(order, g[i - 1], i)
  <2>1. CASE i # m
    <3>1. i \in 0 .. m - 1 /\ (i # 0 => i - 1 \in 0 .. m - 1)
      BY <1>6, <2>1
    <3> QED  BY <1>4, <1>5, <3>1
  <2>2. CASE i = m
    <3>1. i - 1 \in 0 .. m - 1 /\ i # 0
      BY <1>2, <1>6, <2>2
    <3> QED  BY <1>4, <1>6, <2>2, <3>1
  <2> QED  BY <2>1, <2>2
<1>8. IsSearch(g, m, order)
  <2>1. g = [i \in 0 .. m |-> g[i]]
    BY DEF g
  <2> QED  BY <1>7, <2>1 DEF IsSearch, After, first
<1> QED  BY <1>1, <1>8

(* The search reports each loop of the aliases that it holds once, and      *)
(* nothing else, for every list of records and in whatever order they are   *)
(* met (NoCnameLoopZoneValidator.validate).                                 *)
THEOREM EachLoopOnce ==
  ASSUME NEW order, IsList(order)
  PROVE  LET loops == Loops(order)
         IN  /\ loops \in Seq(SUBSET Dict(order))
             /\ ToSet(loops) = {c \in SUBSET Dict(order) : IsLoop(c)}
             /\ \A j, k \in DOMAIN loops : loops[j] = loops[k] => j = k
<1> DEFINE n == Len(order)
           first == [seen |-> {}, loops |-> << >>]
           f == CHOOSE g : IsSearch(g, n, order)
<1>1. n \in Nat
  BY DEF IsList
<1>2. Loops(order) = f[n].loops
  BY DEF Loops, IsSearch
<1>3. IsSearch(f, n, order)
  BY <1>1, SearchExists
<1> HIDE DEF f, n
<1>4. f[0] = first /\ \A i \in 1 .. n : f[i] = After(order, f[i - 1], i)
  <2>1. f = [i \in 0 .. n |-> IF i = 0 THEN first ELSE After(order, f[i - 1], i)]
    BY <1>3 DEF IsSearch, After
  <2> HIDE DEF first
  <2> QED  BY <1>1, <2>1
<1>5. Sound(order, f[0], 0)
  <2>1. f[0].seen = {} /\ f[0].loops = << >>
    BY <1>4
  <2>2. Len(<< >>) = 0 /\ << >> \in Seq(SUBSET Dict(order))
    BY EmptySeq
  <2>3. \A c : IsLoop(c) => ~(NamesIn(c) \subseteq {})
    BY DEF IsLoop, Closed, NamesIn
  <2> QED  BY <2>1, <2>2, <2>3 DEF Sound
<1>6. ASSUME NEW i \in 1 .. n, Sound(order, f[i - 1], i - 1) PROVE Sound(order, f[i], i)
  <2>1. CASE IsAlias(order[i])
    <3>1. f[i] = Try(order, f[i - 1], order[i].name)
      BY <1>4, <2>1 DEF After
    <3>2. i \in 1 .. Len(order)
      BY DEF n
    <3> QED  BY <1>6, <2>1, <3>1, <3>2, TrySound
  <2>2. CASE ~IsAlias(order[i])
    <3>1. f[i] = f[i - 1]
      BY <1>4, <2>2 DEF After
    <3>2. 1 .. i = (1 .. i - 1) \cup {i}
      BY <1>1
    <3>3. \A k \in 1 .. i : IsAlias(order[k]) => k \in 1 .. i - 1
      BY <2>2, <3>2
    <3> QED  BY <1>6, <3>1, <3>3 DEF Sound
  <2> QED  BY <2>1, <2>2
<1> DEFINE T == {i \in 0 .. n : ~Sound(order, f[i], i)}
<1>7. ASSUME T # {} PROVE FALSE
  <2>1. T \subseteq Nat
    BY <1>1
  <2> HIDE DEF T
  <2>2. PICK m \in T : \A i \in T : m <= i
    BY <1>7, <2>1, LeastOf
  <2> USE DEF T
  <2>3. m # 0
    BY <1>5, <2>2
  <2>4. m \in 1 .. n /\ m - 1 \in 0 .. n /\ m - 1 < m
    BY <1>1, <2>2, <2>3
  <2>5. Sound(order, f[m - 1], m - 1)
    BY <1>1, <2>2, <2>4
  <2> QED  BY <1>6, <2>2, <2>4, <2>5
<1>8. Sound(order, f[n], n)
  BY <1>1, <1>7
<1> DEFINE loops == f[n].loops
<1>9. /\ loops \in Seq(SUBSET Dict(order)) /\ DOMAIN loops = 1 .. Len(loops)
      /\ \A c \in SUBSET Dict(order) :
           (\E k \in 1 .. Len(loops) : loops[k] = c)
             <=> IsLoop(c) /\ NamesIn(c) \subseteq f[n].seen
      /\ \A j, k \in 1 .. Len(loops) : loops[j] = loops[k] => j = k
      /\ \A k \in 1 .. n : IsAlias(order[k]) => order[k].name \in f[n].seen
  BY <1>8, LenProperties DEF Sound
<1>10. \A c \in SUBSET Dict(order) : NamesIn(c) \subseteq f[n].seen
  <2>1. ASSUME NEW r \in Dict(order) PROVE r.name \in f[n].seen
    <3>1. IsAlias(r) /\ \E k \in 1 .. n : r = order[k]
      BY AliasHeld DEF Dict, ToSet, IsList, n
    <3> QED  BY <1>9, <3>1
  <2> QED  BY <2>1 DEF NamesIn
<1> HIDE DEF loops
<1>11. \A k \in 1 .. Len(loops) : loops[k] \in SUBSET Dict(order)
  BY <1>9, ElementOfSeq
<1>12. ToSet(loops) = {c \in SUBSET Dict(order) : IsLoop(c)}
  BY <1>9, <1>10, <1>11 DEF ToSet
<1> QED  BY <1>2, <1>9, <1>12 DEF loops

-----------------------------------------------------------------------------
(* Mail: what a zone is like that the validator has nothing against *)

LEMMA PolicyFirst ==
  ASSUME NEW txts, \A t \in txts : t.spf \in Seq(STRING) /\ t.dmarc \in Seq(STRING)
  PROVE  /\ \A p : p \in SpfOf(txts) <=> \E t \in txts : t.spf # << >> /\ p = t.spf[1]
         /\ \A p : p \in DmarcOf(txts) <=> \E t \in txts : t.dmarc # << >> /\ p = t.dmarc[1]
         /\ \A t \in txts : /\ Len(t.spf) \in Nat /\ (t.spf # << >> <=> Len(t.spf) > 0)
                            /\ Len(t.dmarc) \in Nat /\ (t.dmarc # << >> <=> Len(t.dmarc) > 0)
BY LenProperties, EmptySeq DEF SpfOf, DmarcOf

LEMMA OnlyOne ==
  ASSUME NEW n \in Nat, n > 0, ~(n > 1)
  PROVE  n = 1
OBVIOUS

(* A name without reasons for its SPF has one policy, which fits the mode. *)
LEMMA SpfFits ==
  ASSUME NEW txts, \A t \in txts : t.spf \in Seq(STRING) /\ t.dmarc \in Seq(STRING),
         NEW mode, NEW about, SpfReasons(mode, about, txts) = {}
  PROVE  \E t \in txts : /\ Len(t.spf) = 1
                         /\ IF mode = "mail" THEN Terminates(t.spf[1]) ELSE t.spf[1] = "strict"
<1>1. SpfOf(txts) # {}
  BY DEF SpfReasons
<1>2. PICK t \in txts : t.spf # << >> /\ t.spf[1] \in SpfOf(txts)
  BY <1>1, PolicyFirst
<1>3. ~(Len(t.spf) > 1) /\ Len(t.spf) \in Nat /\ Len(t.spf) > 0
  BY <1>2, PolicyFirst DEF SpfReasons
<1>4. IF mode = "mail" THEN Terminates(t.spf[1]) ELSE t.spf[1] = "strict"
  BY <1>2 DEF SpfReasons
<1>5. Len(t.spf) = 1
  BY <1>3, OnlyOne
<1> QED  BY <1>4, <1>5

LEMMA MailFits ==
  ASSUME NEW records, \A r \in records : r.spf \in Seq(STRING) /\ r.dmarc \in Seq(STRING),
         MailMode = "auto", Mail(records) = {}
  PROVE  /\ \A m \in OfType(records, "MX") :
              \E t \in Get(records, m.name, "TXT") :
                /\ Len(t.spf) = 1
                /\ IF IsNullMx(m) THEN t.spf[1] = "strict" ELSE t.spf[1] # "open"
         /\ \A t \in Get(records, Apex, "TXT") : t.spf # << >> =>
              \E m \in Get(records, Apex, "MX"), d \in Get(records, <<"_dmarc">>, "TXT") :
                /\ Len(d.dmarc) = 1
                /\ IsNullMx(m) => d.dmarc[1] = "reject"
<1> DEFINE mxs == Get(records, Apex, "MX")
           txts == Get(records, Apex, "TXT")
           dmarcs == Get(records, <<"_dmarc">>, "TXT")
           about == mxs \cup txts \cup dmarcs
           mode == DetectedMode(mxs, SpfOf(txts))
<1>1. /\ ApexMail(records) = {}
      /\ \A m \in OfType(records, "MX") : m.name # Apex => SubdomainMail(records, m) = {}
  <2>1. \A part \in ApexMail(records) : Reason("mail", part) \in Mail(records)
    BY DEF Mail
  <2>2. \A m \in OfType(records, "MX") : m.name # Apex =>
          \A part \in SubdomainMail(records, m) : Reason("mail", part) \in Mail(records)
    BY DEF Mail
  <2> QED  BY <2>1, <2>2
<1>2. /\ \A x \in dmarcs : ~(Len(x.dmarc) > 1)
      /\ mode # "auto" => /\ MxReasons(mode, about, mxs) = {}
                          /\ SpfReasons(mode, about, txts) = {}
                          /\ DmarcReasons(mode, about, dmarcs) = {}
  <2>1. ApexMail(records) =
          {d \in {dmarcs} : \E x \in dmarcs : Len(x.dmarc) > 1} \cup
          (IF mode = "auto" THEN {t \in {txts} : \E x \in txts : Len(x.spf) > 1}
           ELSE MxReasons(mode, about, mxs) \cup SpfReasons(mode, about, txts)
                \cup DmarcReasons(mode, about, dmarcs))
    BY DEF ApexMail
  <2> HIDE DEF mode, about, mxs, txts, dmarcs
  <2> QED  BY <1>1, <2>1
<1>3. /\ \A name, type : \A r \in Get(records, name, type) :
           r.spf \in Seq(STRING) /\ r.dmarc \in Seq(STRING)
      /\ \A m \in OfType(records, "MX") : m.name = Apex => m \in mxs
  BY DEF Get, Named, OfType
<1>4. mode = IF mxs # {} THEN (IF \E m \in mxs : IsNullMx(m) THEN "no-mail" ELSE "mail")
             ELSE IF SpfOf(txts) # {} THEN (IF "strict" \in SpfOf(txts) THEN "no-mail" ELSE "mail")
             ELSE "auto"
  BY DEF DetectedMode
<1> HIDE DEF mode, about, mxs, txts, dmarcs
<1>5. ASSUME NEW m \in OfType(records, "MX")
      PROVE  \E t \in Get(records, m.name, "TXT") :
               /\ Len(t.spf) = 1
               /\ IF IsNullMx(m) THEN t.spf[1] = "strict" ELSE t.spf[1] # "open"
  <2>1. CASE m.name = Apex
    <3>1. m \in mxs /\ mode # "auto" /\ (IsNullMx(m) => mode = "no-mail")
      BY <1>3, <1>4, <2>1
    <3>2. PICK t \in txts : /\ Len(t.spf) = 1
                            /\ IF mode = "mail" THEN Terminates(t.spf[1]) ELSE t.spf[1] = "strict"
      <4>1. SpfReasons(mode, about, txts) = {}
        BY <1>2, <3>1
      <4>2. \A t \in txts : t.spf \in Seq(STRING) /\ t.dmarc \in Seq(STRING)
        BY <1>3 DEF txts
      <4> QED  BY <4>1, <4>2, SpfFits
    <3>3. IF IsNullMx(m) THEN t.spf[1] = "strict" ELSE t.spf[1] # "open"
      BY <3>1, <3>2 DEF Terminates
    <3> QED  BY <2>1, <3>2, <3>3 DEF txts
  <2>2. CASE m.name # Apex
    <3> DEFINE there == Get(records, m.name, "TXT")
               way == DetectedMode({m}, {})
    <3>1. SpfReasons(way, {m} \cup there, there) = {}
      <4>1. SpfReasons(way, {m} \cup there, there) \subseteq SubdomainMail(records, m)
        BY DEF SubdomainMail
      <4> QED  BY <1>1, <2>2, <4>1
    <3>2. way = IF IsNullMx(m) THEN "no-mail" ELSE "mail"
      BY DEF DetectedMode
    <3>3. PICK t \in there : /\ Len(t.spf) = 1
                             /\ IF way = "mail" THEN Terminates(t.spf[1]) ELSE t.spf[1] = "strict"
      <4>1. \A t \in there : t.spf \in Seq(STRING) /\ t.dmarc \in Seq(STRING)
        BY <1>3
      <4> HIDE DEF there, way
      <4> QED  BY <3>1, <4>1, SpfFits
    <3>4. IF IsNullMx(m) THEN t.spf[1] = "strict" ELSE t.spf[1] # "open"
      BY <3>2, <3>3 DEF Terminates
    <3> QED  BY <3>3, <3>4
  <2> QED  BY <2>1, <2>2
<1>6. ASSUME NEW t \in txts, t.spf # << >>
      PROVE  \E m \in mxs, d \in dmarcs :
               Len(d.dmarc) = 1 /\ (IsNullMx(m) => d.dmarc[1] = "reject")
  <2>1. /\ \A x \in txts : x.spf \in Seq(STRING) /\ x.dmarc \in Seq(STRING)
        /\ \A x \in dmarcs : x.spf \in Seq(STRING) /\ x.dmarc \in Seq(STRING)
    BY <1>3 DEF txts, dmarcs
  <2>2. SpfOf(txts) # {}
    <3>1. \A p : p \in SpfOf(txts) <=> \E x \in txts : x.spf # << >> /\ p = x.spf[1]
      BY <2>1, PolicyFirst
    <3>2. t.spf[1] \in SpfOf(txts)
      BY <1>6, <3>1
    <3> QED  BY <3>2
  <2>3. mode \in {"mail", "no-mail"}
    BY <1>4, <2>2
  <2>4. PICK m \in mxs : TRUE
    BY <1>2, <2>3 DEF MxReasons
  <2>5. mode = "mail" => ~IsNullMx(m)
    BY <1>4, <2>4
  <2>6. /\ DmarcOf(dmarcs) # {}
        /\ mode = "no-mail" => DmarcOf(dmarcs) = {"reject"}
    <3>1. DmarcReasons(mode, about, dmarcs) = {}
      BY <1>2, <2>3
    <3>2. mode = "mail" => DmarcOf(dmarcs) # {}
      BY <3>1 DEF DmarcReasons
    <3>3. mode = "no-mail" => DmarcOf(dmarcs) = {"reject"}
      BY <3>1 DEF DmarcReasons
    <3> QED  BY <2>3, <3>2, <3>3
  <2>7. PICK d \in dmarcs : d.dmarc # << >> /\ d.dmarc[1] \in DmarcOf(dmarcs)
    <3>1. \A p : p \in DmarcOf(dmarcs) <=> \E x \in dmarcs : x.dmarc # << >> /\ p = x.dmarc[1]
      BY <2>1, PolicyFirst
    <3>2. PICK p : p \in DmarcOf(dmarcs)
      BY <2>6
    <3> QED  BY <3>1, <3>2
  <2>8. Len(d.dmarc) = 1
    <3>1. Len(d.dmarc) \in Nat /\ Len(d.dmarc) > 0
      BY <2>1, <2>7, PolicyFirst
    <3>2. ~(Len(d.dmarc) > 1)
      BY <1>2, <2>7
    <3> QED  BY <3>1, <3>2, OnlyOne
  <2> QED  BY <2>3, <2>4, <2>5, <2>6, <2>7, <2>8
<1> QED  BY <1>5, <1>6 DEF mxs, txts, dmarcs

(* Each reason is about records of the zone. *)
LEMMA MailParts ==
  ASSUME NEW records
  PROVE  \A q \in Mail(records) : q.records \subseteq records
<1> DEFINE mxs == Get(records, Apex, "MX")
           txts == Get(records, Apex, "TXT")
           dmarcs == Get(records, <<"_dmarc">>, "TXT")
           about == mxs \cup txts \cup dmarcs
           mode == DetectedMode(mxs, SpfOf(txts))
<1>1. \A name, type : Get(records, name, type) \subseteq records
  BY DEF Get, Named, OfType
<1>2. \A way, all, some : \A part \in MxReasons(way, all, some) \cup SpfReasons(way, all, some)
                                       \cup DmarcReasons(way, all, some) : part = all \/ part = some
  BY DEF MxReasons, SpfReasons, DmarcReasons
<1>3. \A part \in Redundancy(records) : part \subseteq records
  BY DEF Redundancy, OfType
<1>4. \A part \in ApexMail(records) : part \subseteq records
  <2>1. ApexMail(records) \subseteq {dmarcs} \cup {txts} \cup
          MxReasons(mode, about, mxs) \cup SpfReasons(mode, about, txts)
          \cup DmarcReasons(mode, about, dmarcs)
    BY DEF ApexMail
  <2>2. mxs \subseteq records /\ txts \subseteq records /\ dmarcs \subseteq records
    BY <1>1
  <2> HIDE DEF mode, mxs, txts, dmarcs
  <2> QED  BY <1>2, <2>1, <2>2
<1>5. ASSUME NEW m \in OfType(records, "MX"), NEW part \in SubdomainMail(records, m)
      PROVE  part \subseteq records
  <2> DEFINE there == Get(records, m.name, "TXT")
             way == DetectedMode({m}, {})
  <2>1. part \in SpfReasons(way, {m} \cup there, there) \/ part = {m}
    BY DEF SubdomainMail
  <2>2. there \subseteq records /\ {m} \subseteq records
    BY <1>1 DEF OfType
  <2> HIDE DEF there, way
  <2> QED  BY <1>2, <2>1, <2>2
<1>6. ASSUME NEW q \in Mail(records) PROVE q.records \subseteq records
  <2>1. PICK part \in Redundancy(records) \cup ApexMail(records)
                      \cup UNION {SubdomainMail(records, m) :
                                    m \in {x \in OfType(records, "MX") : x.name # Apex}} :
          q = Reason("mail", part)
    BY DEF Mail
  <2>2. q.records = part
    BY <2>1 DEF Reason
  <2>3. part \subseteq records
    BY <1>3, <1>4, <1>5, <2>1
  <2> QED  BY <2>2, <2>3
<1> QED  BY <1>6

-----------------------------------------------------------------------------
(* Closed sets and loops *)

LEMMA ManyOf ==
  ASSUME NEW S, IsFiniteSet(S), NEW x \in S, NEW y \in S, x # y
  PROVE  Cardinality(S) > 1
<1>1. Cardinality(S) \in Nat
  BY FS_CardinalityType
<1>2. Cardinality(S) # 0
  BY FS_EmptySet
<1>3. Cardinality(S) # 1
  BY FS_Singleton
<1> QED  BY <1>1, <1>2, <1>3

(* Of the closed parts of a closed set a smallest one is a loop. *)
LEMMA LoopWithin ==
  ASSUME NEW c, IsFiniteSet(c), Closed(c)
  PROVE  \E d \in SUBSET c : IsLoop(d)
<1> DEFINE P == {d \in SUBSET c : Closed(d)}
           sizes == {Cardinality(d) : d \in P}
<1>1. \A d \in SUBSET c : IsFiniteSet(d) /\ Cardinality(d) \in Nat
  BY FS_Subset, FS_CardinalityType
<1>2. c \in P
  OBVIOUS
<1> HIDE DEF P
<1>3. sizes # {}
  BY <1>2
<1>4. P \subseteq SUBSET c
  BY DEF P
<1>5. sizes \subseteq Nat
  BY <1>1, <1>4
<1> HIDE DEF sizes
<1>6. PICK n \in sizes : \A k \in sizes : n <= k
  BY <1>3, <1>5, LeastOf
<1>7. PICK d \in P : n = Cardinality(d)
  BY <1>6 DEF sizes
<1>8. \A e \in P : n <= Cardinality(e)
  BY <1>6 DEF sizes
<1>9. ASSUME NEW e \in SUBSET d, Closed(e) PROVE e = d
  <2>1. e \in P /\ d \in SUBSET c
    BY <1>9 DEF P
  <2>2. Cardinality(e) <= Cardinality(d) /\ (Cardinality(d) = Cardinality(e) => d = e)
    BY <1>1, <2>1, FS_Subset
  <2>3. Cardinality(d) <= Cardinality(e) /\ Cardinality(d) \in Nat /\ Cardinality(e) \in Nat
    BY <1>1, <1>4, <1>7, <1>8, <2>1
  <2> QED  BY <2>2, <2>3
<1>10. d \in SUBSET c /\ Closed(d)
  BY DEF P
<1> QED  BY <1>9, <1>10 DEF IsLoop

(* A chain of n + 1 aliases of a set of n goes through a closed set. *)
LEMMA ChainCloses ==
  ASSUME NEW S, IsFiniteSet(S), NEW n \in Nat, Cardinality(S) <= n, NEW p \in [0 .. n -> S],
         \A i \in 1 .. n : p[i].name = Follow(p[i - 1])
  PROVE  \E c \in SUBSET S : Closed(c)
<1>1. /\ IsFiniteSet(0 .. n) /\ Cardinality(0 .. n) = n + 1
  BY FS_Interval
<1>2. PICK x \in 0 .. n, y \in 0 .. n : x # y /\ p[x] = p[y]
  <2>1. Cardinality(S) \in Nat
    BY FS_CardinalityType
  <2>2. Cardinality(S) < Cardinality(0 .. n)
    BY <1>1, <2>1
  <2> QED  BY <1>1, <2>2, FS_PigeonHole
<1>3. PICK i \in 0 .. n, j \in 0 .. n : i < j /\ p[i] = p[j]
  <2>1. CASE x < y
    BY <1>2, <2>1
  <2>2. CASE y < x
    BY <1>2, <2>2
  <2> QED  BY <1>2, <2>1, <2>2
<1> DEFINE c == {p[k] : k \in i .. j - 1}
<1>4. ASSUME NEW k \in i .. j - 1 PROVE \E m \in i .. j - 1 : Follow(p[k]) = p[m].name
  <2>1. k + 1 \in 1 .. n /\ (k + 1) - 1 = k /\ i \in i .. j - 1
    BY <1>3
  <2>2. Follow(p[k]) = p[k + 1].name
    BY <2>1
  <2>3. CASE k = j - 1
    <3>1. k + 1 = j
      BY <1>3, <2>3
    <3>2. p[k + 1] = p[i]
      BY <1>3, <3>1
    <3> QED  BY <2>1, <2>2, <3>2
  <2>4. CASE k # j - 1
    <3>1. k + 1 \in i .. j - 1
      BY <1>3, <2>4
    <3> QED  BY <2>2, <3>1
  <2> QED  BY <2>3, <2>4
<1>5. c \in SUBSET S /\ c # {}
  <2>1. \A k \in i .. j - 1 : k \in 0 .. n
    BY <1>3
  <2>2. i \in i .. j - 1
    BY <1>3
  <2> QED  BY <2>1, <2>2
<1>6. ASSUME NEW r \in c PROVE \E s \in c : Follow(r) = s.name
  <2>1. PICK k \in i .. j - 1 : r = p[k]
    BY <1>6
  <2>2. PICK m \in i .. j - 1 : Follow(p[k]) = p[m].name
    BY <1>4
  <2>3. p[m] \in c
    OBVIOUS
  <2> HIDE DEF c
  <2> QED  BY <2>1, <2>2, <2>3
<1> HIDE DEF c
<1> QED  BY <1>5, <1>6 DEF Closed

-----------------------------------------------------------------------------
(* The registries: their steps                                              *)

Ops == {"register", "replace", "sets", "enable", "disable"}
StepSet ==
  [op : Ops, kinds : SUBSET Kinds, key : Buckets \cup {All}, id : Id \cup {All},
   val : Validator \cup Request \cup {All},
   sets : {{}} \cup {c.sets : c \in Configs}]

(* a step that registers a validator *)
Registers1(t) == t.op \in {"register", "replace"}
IsRegistration(t) ==
  /\ t.kinds = {t.val.kind}
  /\ t.key \in Buckets
  /\ t.val \in Validator
  /\ t.val.kind = "zone" => t.key = All

(* a step that activates the sets for records *)
SetsRecords(t) == t.op = "sets" /\ "record" \in t.kinds
SetsAhead(s) == \E i \in 1 .. Len(s) : SetsRecords(s[i])

(* After each step that registers there is one that activates the sets. *)
Covered(s) ==
  \A i \in 1 .. Len(s) : Registers1(s[i]) =>
    /\ IsRegistration(s[i])
    /\ \E j \in 1 .. Len(s) : i < j /\ SetsRecords(s[j])

Held(e) == \E f \in active["record"] : f.key = e.key /\ f.val.id = e.val.id
BridgesHeld ==
  configured["record"] =>
    \A i \in 1 .. Len(available["record"]) :
      available["record"][i].val.bridge => Held(available["record"][i])

Shape ==
  /\ available \in [Kinds -> Seq(Registration)]
  /\ active \in [Kinds -> SUBSET Registration]
  /\ configured \in [{"record", "zone"} -> BOOLEAN]
  /\ todo \in Seq(StepSet)

Inv ==
  /\ Shape
  /\ Covered(todo)
  /\ ~raised /\ ~SetsAhead(todo) => BridgesHeld

-----------------------------------------------------------------------------
LEMMA PutSeq ==
  ASSUME NEW s \in Seq(Registration), NEW e \in Registration
  PROVE  Put(s, e) \in Seq(Registration)
<1>1. CASE HasId(s, e.key, e.val.id)
  <2>1. Put(s, e) = [i \in DOMAIN s |->
          IF s[i].key = e.key /\ s[i].val.id = e.val.id THEN e ELSE s[i]]
    BY <1>1 DEF Put
  <2>2. DOMAIN s = 1 .. Len(s) /\ Len(s) \in Nat
    BY LenProperties
  <2>3. \A i \in 1 .. Len(s) : s[i] \in Registration
    BY ElementOfSeq
  <2> QED  BY <2>1, <2>2, <2>3, IsASeq
<1>2. CASE ~HasId(s, e.key, e.val.id)
  BY <1>2, AppendProperties DEF Put
<1> QED  BY <1>1, <1>2

LEMMA SelectedSub ==
  ASSUME NEW s \in Seq(Registration), NEW sets
  PROVE  /\ Selected(s, sets) \subseteq Registration
         /\ \A i \in 1 .. Len(s) : s[i].val.bridge => s[i] \in Selected(s, sets)
<1>1. ToSet(s) = {s[i] : i \in 1 .. Len(s)}
  BY LenProperties DEF ToSet
<1>2. \A i \in 1 .. Len(s) : s[i] \in Registration
  BY ElementOfSeq
<1>3. \A i \in 1 .. Len(s) : s[i].val.bridge => Always \in s[i].val.sets
  BY <1>2, BridgeAssumption DEF Registration
<1> QED  BY <1>1, <1>2, <1>3 DEF Selected, InSets

(* The steps of a configuration: every registration comes before the sets. *)
LEMMA RegistersSeq ==
  ASSUME NEW op \in {"register", "replace"}, NEW s \in Seq(Registration), OfAll(s)
  PROVE  /\ Registers(op, s) \in Seq(StepSet)
         /\ Len(Registers(op, s)) = Len(s)
         /\ \A i \in 1 .. Len(s) : IsRegistration(Registers(op, s)[i])
<1> DEFINE step(i) == Step(op, {s[i].val.kind}, s[i].key, s[i].val.id, s[i].val, {})
<1>1. DOMAIN s = 1 .. Len(s) /\ Len(s) \in Nat
  BY LenProperties
<1>2. \A i \in 1 .. Len(s) : s[i] \in Registration
  BY ElementOfSeq
<1>3. \A i \in 1 .. Len(s) : step(i) \in StepSet /\ IsRegistration(step(i))
  BY <1>1, <1>2, ValidatorAssumption DEF OfAll, Step, StepSet, Ops, Registration, IsRegistration
<1>4. Registers(op, s) = [i \in 1 .. Len(s) |-> step(i)]
  BY <1>1 DEF Registers
<1> HIDE DEF step
<1>5. /\ [i \in 1 .. Len(s) |-> step(i)] \in Seq(StepSet)
      /\ Len([i \in 1 .. Len(s) |-> step(i)]) = Len(s)
  BY <1>1, <1>3, IsASeq, LenProperties
<1> QED  BY <1>3, <1>4, <1>5

LEMMA NamesSeq ==
  ASSUME NEW op \in {"enable", "disable"}, NEW kinds \in SUBSET Kinds,
         NEW s \in Seq(Request)
  PROVE  /\ Names(op, kinds, s) \in Seq(StepSet)
         /\ \A i \in 1 .. Len(Names(op, kinds, s)) :
              Names(op, kinds, s)[i].op = op
<1> DEFINE step(i) == Step(op, kinds, s[i].key, s[i].id, s[i], {})
<1>1. DOMAIN s = 1 .. Len(s) /\ Len(s) \in Nat
  BY LenProperties
<1>2. \A i \in 1 .. Len(s) : s[i] \in Request
  BY ElementOfSeq
<1>3. \A i \in 1 .. Len(s) : step(i) \in StepSet /\ step(i).op = op
  BY <1>2 DEF Step, StepSet, Ops, Request
<1>4. Names(op, kinds, s) = [i \in 1 .. Len(s) |-> step(i)]
  BY <1>1 DEF Names
<1> HIDE DEF step
<1>5. /\ [i \in 1 .. Len(s) |-> step(i)] \in Seq(StepSet)
      /\ Len([i \in 1 .. Len(s) |-> step(i)]) = Len(s)
  BY <1>1, <1>3, IsASeq, LenProperties
<1> QED  BY <1>3, <1>4, <1>5

(* Steps none of which registers, and their concatenation. *)
Plain(s) == s \in Seq(StepSet) /\ \A i \in 1 .. Len(s) : ~Registers1(s[i])

LEMMA PlainConcat ==
  ASSUME NEW s, NEW t, Plain(s), Plain(t)
  PROVE  Plain(s \o t)
<1>1. s \in Seq(StepSet) /\ t \in Seq(StepSet)
  BY DEF Plain
<1>2. /\ s \o t \in Seq(StepSet)
      /\ Len(s \o t) = Len(s) + Len(t)
      /\ \A i \in 1 .. Len(s) + Len(t) :
           (s \o t)[i] = IF i <= Len(s) THEN s[i] ELSE t[i - Len(s)]
  BY <1>1, ConcatProperties
<1>3. Len(s) \in Nat /\ Len(t) \in Nat
  BY <1>1, LenProperties
<1> QED  BY <1>2, <1>3 DEF Plain

LEMMA SetsSeq ==
  ASSUME NEW kinds \in SUBSET Kinds, NEW c \in Configs
  PROVE  /\ Plain(Sets(kinds, c.sets))
         /\ Len(Sets(kinds, c.sets)) = 1
         /\ Sets(kinds, c.sets)[1] = Step("sets", kinds, All, All, All, c.sets)
<1> DEFINE t == Step("sets", kinds, All, All, All, c.sets)
<1>1. t \in StepSet /\ ~Registers1(t)
  BY DEF Step, StepSet, Ops, Registers1
<1>2. Sets(kinds, c.sets) = <<t>>
  BY DEF Sets
<1> HIDE DEF t
<1>3. <<t>> \in Seq(StepSet) /\ Len(<<t>>) = 1 /\ <<t>>[1] = t
  BY <1>1
<1>4. Plain(<<t>>)
  BY <1>1, <1>3 DEF Plain
<1> QED  BY <1>2, <1>3, <1>4 DEF t

LEMMA ActivatingPlain ==
  ASSUME NEW c \in Configs
  PROVE  Plain(Activating(c))
<1>1. \A s \in {c.add, c.drop, c.zadd, c.zdrop} : s \in Seq(Request)
  BY ConfigsAssumption
<1>2. OnRecords \in SUBSET Kinds /\ OnZones \in SUBSET Kinds
  BY DEF OnRecords, OnZones, Kinds
<1>3. /\ Plain(Names("enable", OnRecords, c.add))
      /\ Plain(Names("disable", OnRecords, c.drop))
      /\ Plain(Names("enable", OnZones, c.zadd))
      /\ Plain(Names("disable", OnZones, c.zdrop))
  <2>1. \A op \in {"enable", "disable"}, kinds \in SUBSET Kinds, s \in Seq(Request) :
          Plain(Names(op, kinds, s))
    BY NamesSeq DEF Plain, Registers1
  <2> QED  BY <1>1, <1>2, <2>1
<1>4. Plain(Sets(OnZones, c.sets))
  BY <1>2, SetsSeq
<1> QED  BY <1>3, <1>4, PlainConcat DEF Activating

(* The steps of a configuration: every registration comes before the sets. *)
LEMMA StepsCovered ==
  ASSUME NEW c \in Configs
  PROVE  Steps(c) \in Seq(StepSet) /\ Covered(Steps(c)) /\ SetsAhead(Steps(c))
<1> DEFINE imports == IF c.imports \in imported THEN << >> ELSE c.imports
           r1 == Registers("register", imports)
           r2 == Registers("replace", c.custom)
           r == Registering(c)
           sets == Sets(OnRecords, c.sets)
           rest == Activating(c)
<1>1. /\ imports \in Seq(Registration) /\ c.custom \in Seq(Registration)
      /\ OfAll(imports) /\ OfAll(c.custom)
  BY ConfigsAssumption, ZonesAssumption DEF OfAll
<1>2. /\ r1 \in Seq(StepSet) /\ \A i \in 1 .. Len(r1) : IsRegistration(r1[i])
      /\ r2 \in Seq(StepSet) /\ \A i \in 1 .. Len(r2) : IsRegistration(r2[i])
  <2>1. \A op \in {"register", "replace"}, s \in Seq(Registration) : OfAll(s) =>
          /\ Registers(op, s) \in Seq(StepSet)
          /\ \A i \in 1 .. Len(Registers(op, s)) : IsRegistration(Registers(op, s)[i])
    BY RegistersSeq
  <2> QED  BY <1>1, <2>1
<1>3. r = r1 \o r2
  BY DEF Registering
<1>4. Plain(sets) /\ Len(sets) = 1 /\ SetsRecords(sets[1])
  <2>1. OnRecords \in SUBSET Kinds
    BY DEF OnRecords, Kinds
  <2>2. Plain(sets) /\ Len(sets) = 1 /\ sets[1] = Step("sets", OnRecords, All, All, All, c.sets)
    BY <2>1, SetsSeq
  <2>3. SetsRecords(Step("sets", OnRecords, All, All, All, c.sets))
    BY DEF SetsRecords, Step, OnRecords
  <2> QED  BY <2>2, <2>3
<1>5. Plain(rest)
  BY ActivatingPlain
<1>6. Steps(c) = r \o (sets \o rest)
  BY DEF Steps
<1> HIDE DEF imports, r1, r2, r, sets, rest
<1>7. r \in Seq(StepSet) /\ \A i \in 1 .. Len(r) : IsRegistration(r[i])
  <2>1. /\ Len(r) = Len(r1) + Len(r2) /\ r \in Seq(StepSet)
        /\ \A i \in 1 .. Len(r) : r[i] = IF i <= Len(r1) THEN r1[i] ELSE r2[i - Len(r1)]
    BY <1>2, <1>3, ConcatProperties
  <2>2. Len(r1) \in Nat /\ Len(r2) \in Nat
    BY <1>2, LenProperties
  <2>3. ASSUME NEW i \in 1 .. Len(r) PROVE IsRegistration(r[i])
    <3>1. CASE i <= Len(r1)
      BY <2>1, <2>2, <3>1, <1>2
    <3>2. CASE ~(i <= Len(r1))
      <4>1. i - Len(r1) \in 1 .. Len(r2) /\ r[i] = r2[i - Len(r1)]
        BY <2>1, <2>2, <3>2
      <4> QED  BY <4>1, <1>2
    <3> QED  BY <3>1, <3>2
  <2> QED  BY <2>1, <2>3
<1>8. Plain(sets \o rest) /\ Len(sets \o rest) >= 1 /\ SetsRecords((sets \o rest)[1])
  <2>1. sets \in Seq(StepSet) /\ rest \in Seq(StepSet)
    BY <1>4, <1>5 DEF Plain
  <2>2. /\ Len(sets \o rest) = 1 + Len(rest) /\ Len(rest) \in Nat
        /\ \A i \in 1 .. 1 + Len(rest) : (sets \o rest)[i] = IF i <= 1 THEN sets[i] ELSE rest[i - 1]
    <3>1. /\ Len(sets \o rest) = Len(sets) + Len(rest)
          /\ \A i \in 1 .. Len(sets) + Len(rest) :
               (sets \o rest)[i] = IF i <= Len(sets) THEN sets[i] ELSE rest[i - Len(sets)]
      BY <2>1, ConcatProperties
    <3> QED  BY <3>1, <2>1, <1>4, LenProperties
  <2>3. Plain(sets \o rest)
    BY <1>4, <1>5, PlainConcat
  <2> QED  BY <2>2, <2>3, <1>4
<1> DEFINE tail == sets \o rest
<1>9. tail \in Seq(StepSet) /\ Len(tail) \in Nat /\ Len(r) \in Nat
  BY <1>7, <1>8, LenProperties DEF Plain
<1>10. /\ Len(Steps(c)) = Len(r) + Len(tail) /\ Steps(c) \in Seq(StepSet)
       /\ \A i \in 1 .. Len(r) + Len(tail) :
            Steps(c)[i] = IF i <= Len(r) THEN r[i] ELSE tail[i - Len(r)]
  BY <1>6, <1>7, <1>9, ConcatProperties
<1>a. Plain(tail) /\ Len(tail) >= 1 /\ SetsRecords(tail[1])
  BY <1>8
<1> HIDE DEF tail
<1>11. SetsRecords(Steps(c)[Len(r) + 1]) /\ Len(r) + 1 \in 1 .. Len(Steps(c))
  <2>1. /\ Len(r) + 1 \in 1 .. Len(r) + Len(tail) /\ ~(Len(r) + 1 <= Len(r))
        /\ (Len(r) + 1) - Len(r) = 1
    BY <1>a, <1>9
  <2>2. Steps(c)[Len(r) + 1] = tail[1]
    BY <1>10, <2>1
  <2> QED  BY <1>a, <1>10, <2>1, <2>2
<1>12. ASSUME NEW i \in 1 .. Len(Steps(c)), Registers1(Steps(c)[i])
       PROVE  i <= Len(r) /\ IsRegistration(Steps(c)[i])
  <2>1. CASE i <= Len(r)
    <3>1. i \in 1 .. Len(r) /\ Steps(c)[i] = r[i]
      BY <1>9, <1>10, <2>1
    <3> QED  BY <1>7, <2>1, <3>1
  <2>2. CASE ~(i <= Len(r))
    <3>1. i - Len(r) \in 1 .. Len(tail) /\ Steps(c)[i] = tail[i - Len(r)]
      BY <1>9, <1>10, <2>2
    <3> QED  BY <1>a, <1>12, <3>1 DEF Plain
  <2> QED  BY <2>1, <2>2
<1>13. Covered(Steps(c))
  BY <1>9, <1>11, <1>12 DEF Covered
<1> QED  BY <1>10, <1>11, <1>13 DEF SetsAhead

-----------------------------------------------------------------------------
(* A step is taken from the front. *)
LEMMA TakeStep ==
  ASSUME Inv, todo # << >>
  PROVE  /\ Now \in StepSet /\ Tail(todo) \in Seq(StepSet)
         /\ Covered(Tail(todo))
         /\ Registers1(Now) => IsRegistration(Now) /\ SetsAhead(Tail(todo))
         /\ SetsAhead(todo) => SetsRecords(Now) \/ SetsAhead(Tail(todo))
<1>1. /\ Now \in StepSet /\ Tail(todo) \in Seq(StepSet)
      /\ Len(Tail(todo)) = Len(todo) - 1 /\ Len(todo) \in Nat \ {0}
      /\ \A i \in 1 .. Len(Tail(todo)) : Tail(todo)[i] = todo[i + 1]
      /\ Now = todo[1]
  BY HeadTailProperties DEF Inv, Shape, Now
<1>2. Covered(todo)
  BY DEF Inv
<1>3. Covered(Tail(todo))
  <2> SUFFICES ASSUME NEW i \in 1 .. Len(Tail(todo)), Registers1(Tail(todo)[i])
               PROVE  /\ IsRegistration(Tail(todo)[i])
                      /\ \E j \in 1 .. Len(Tail(todo)) : i < j /\ SetsRecords(Tail(todo)[j])
    BY DEF Covered
  <2>1. i + 1 \in 1 .. Len(todo) /\ Tail(todo)[i] = todo[i + 1]
    BY <1>1
  <2>2. PICK j \in 1 .. Len(todo) : i + 1 < j /\ SetsRecords(todo[j])
    BY <1>2, <2>1 DEF Covered
  <2>3. j - 1 \in 1 .. Len(Tail(todo)) /\ i < j - 1 /\ SetsRecords(Tail(todo)[j - 1])
    BY <1>1, <2>2
  <2> QED  BY <1>2, <2>1, <2>3 DEF Covered
<1>4. ASSUME NEW j \in 1 .. Len(todo), 1 < j, SetsRecords(todo[j])
      PROVE  SetsAhead(Tail(todo))
  <2>1. j - 1 \in 1 .. Len(Tail(todo)) /\ Tail(todo)[j - 1] = todo[j]
    BY <1>1, <1>4
  <2> QED  BY <1>4, <2>1 DEF SetsAhead
<1>5. Registers1(Now) => IsRegistration(Now) /\ SetsAhead(Tail(todo))
  <2> SUFFICES ASSUME Registers1(todo[1])
               PROVE  IsRegistration(todo[1]) /\ SetsAhead(Tail(todo))
    BY <1>1
  <2>1. 1 \in 1 .. Len(todo)
    BY <1>1
  <2>2. PICK j \in 1 .. Len(todo) : 1 < j /\ SetsRecords(todo[j])
    BY <1>2, <2>1 DEF Covered
  <2> QED  BY <1>2, <2>1, <2>2, <1>4 DEF Covered
<1>6. SetsAhead(todo) => SetsRecords(Now) \/ SetsAhead(Tail(todo))
  <2> SUFFICES ASSUME NEW j \in 1 .. Len(todo), SetsRecords(todo[j])
               PROVE  SetsRecords(todo[1]) \/ SetsAhead(Tail(todo))
    BY <1>1 DEF SetsAhead
  <2>1. CASE j = 1
    BY <2>1
  <2>2. CASE 1 < j
    BY <2>2, <1>4
  <2> QED  BY <1>1, <2>1, <2>2
<1> QED  BY <1>1, <1>3, <1>5, <1>6

LEMMA EmptyCovered ==
  /\ << >> \in Seq(StepSet) /\ Covered(<< >>) /\ ~SetsAhead(<< >>)
BY DEF Covered, SetsAhead

LEMMA RaiseInv ==
  ASSUME Inv, Raise
  PROVE  Inv'
BY EmptyCovered DEF Inv, Shape, Raise, registry

(* A registration is added, and the sets are still to be activated. *)
LEMMA RegisterInv ==
  ASSUME Inv, todo # << >>, Registers1(Now), Done,
         available' = [available EXCEPT
           ![Now.val.kind] = Put(@, [key |-> Now.key, val |-> Now.val])],
         UNCHANGED <<active, configured>>
  PROVE  Inv'
<1>1. /\ Now.val \in Validator /\ Now.key \in Buckets /\ todo' = Tail(todo)
      /\ Tail(todo) \in Seq(StepSet) /\ Covered(Tail(todo)) /\ SetsAhead(Tail(todo))
  BY TakeStep DEF IsRegistration, Done
<1>2. Now.val.kind \in Kinds /\ [key |-> Now.key, val |-> Now.val] \in Registration
  BY <1>1, ValidatorAssumption DEF Registration
<1>3. available[Now.val.kind] \in Seq(Registration)
  BY <1>2 DEF Inv, Shape
<1>4. available' \in [Kinds -> Seq(Registration)]
  BY <1>2, <1>3, PutSeq DEF Inv, Shape
<1> QED  BY <1>1, <1>4 DEF Inv, Shape, Covered, SetsAhead

(* enable_sets for records activates every bridge. *)
LEMMA WithSetsHolds ==
  ASSUME Shape, NEW kinds \in SUBSET Kinds, NEW sets, WithSets(kinds, sets)
  PROVE  /\ available' = available
         /\ active' \in [Kinds -> SUBSET Registration]
         /\ configured' \in [{"record", "zone"} -> BOOLEAN]
         /\ "record" \in kinds => BridgesHeld'
         /\ "record" \notin kinds => (BridgesHeld => BridgesHeld')
<1>1. /\ available' = available
      /\ configured' = [k \in {"record", "zone"} |-> configured[k] \/ k \in kinds]
      /\ active' = [k \in Kinds |-> IF k \in kinds THEN Selected(available[k], sets)
                                    ELSE active[k]]
  BY DEF WithSets
<1>2. \A k \in Kinds : available[k] \in Seq(Registration) /\ active[k] \in SUBSET Registration
  BY DEF Shape
<1>3. \A k \in Kinds : Selected(available[k], sets) \in SUBSET Registration
  BY <1>2, SelectedSub
<1>4. active' \in [Kinds -> SUBSET Registration]
  BY <1>1, <1>2, <1>3
<1>5. configured' \in [{"record", "zone"} -> BOOLEAN]
  BY <1>1 DEF Shape
<1>6. "record" \in Kinds
  BY DEF Kinds
<1>7. ASSUME "record" \in kinds PROVE BridgesHeld'
  <2>1. active'["record"] = Selected(available["record"], sets)
    BY <1>1, <1>6, <1>7
  <2>2. \A i \in 1 .. Len(available["record"]) : available["record"][i].val.bridge =>
          available["record"][i] \in Selected(available["record"], sets)
    BY <1>2, <1>6, SelectedSub
  <2> QED  BY <1>1, <2>1, <2>2 DEF BridgesHeld, Held
<1>8. ASSUME "record" \notin kinds, BridgesHeld PROVE BridgesHeld'
  <2>1. active'["record"] = active["record"] /\ configured'["record"] = configured["record"]
    BY <1>1, <1>6, <1>8 DEF Shape
  <2> QED  BY <1>1, <1>8, <2>1 DEF BridgesHeld, Held
<1> QED  BY <1>1, <1>4, <1>5, <1>7, <1>8

-----------------------------------------------------------------------------
LEMMA InitInv ==
  ASSUME Init
  PROVE  Inv
<1>1. Builtins \in [Kinds -> Seq(Registration)]
  BY ConfigsAssumption
<1> QED  BY <1>1, EmptyCovered DEF Init, RegistryInit, Inv, Shape, BridgesHeld

LEMMA MakeInv ==
  ASSUME Inv, NEW c \in Configs, NewManager(c)
  PROVE  Inv'
<1>1. /\ todo' = Steps(c) /\ UNCHANGED registry
  BY DEF NewManager, Make
<1>2. Steps(c) \in Seq(StepSet) /\ Covered(Steps(c)) /\ SetsAhead(Steps(c))
  BY StepsCovered
<1> QED  BY <1>1, <1>2 DEF Inv, Shape, registry, Covered, SetsAhead

(* A step that neither registers nor activates sets, and that takes no      *)
(* bridge away.                                                             *)
LEMMA OtherInv ==
  ASSUME Inv, todo # << >>, Now.op \in {"enable", "disable"}, Done,
         active' \in [Kinds -> SUBSET Registration],
         BridgesHeld => BridgesHeld',
         UNCHANGED <<available, configured>>
  PROVE  Inv'
<1>1. /\ todo' = Tail(todo) /\ raised' = raised
      /\ Tail(todo) \in Seq(StepSet) /\ Covered(Tail(todo))
      /\ SetsAhead(todo) => SetsAhead(Tail(todo))
  BY TakeStep DEF Done, progress, SetsRecords
<1>2. Shape'
  BY <1>1 DEF Inv, Shape
<1>3. Covered(todo)' /\ (SetsAhead(todo) => SetsAhead(todo)')
  BY <1>1 DEF Covered, SetsAhead
<1> QED  BY <1>1, <1>2, <1>3 DEF Inv

(* enable adds to what is active, *)
LEMMA EnableInv ==
  ASSUME Inv, Enable
  PROVE  Inv'
<1>1. PICK e \in Found(Now.kinds, Now.id) :
        active' = [active EXCEPT
          ![e.val.kind] = Activate(@, [key |-> Now.key, val |-> e.val])]
  BY DEF Enable
<1>2. e \in Registration
  <2>1. \A k \in Kinds : FirstOf(available[k], Now.id) \subseteq Registration
    <3> SUFFICES ASSUME NEW k \in Kinds, NEW f \in FirstOf(available[k], Now.id)
                 PROVE  f \in Registration
      OBVIOUS
    <3>1. PICK i \in DOMAIN available[k] : f = available[k][i]
      BY DEF FirstOf
    <3>2. available[k] \in Seq(Registration)
      BY DEF Inv, Shape
    <3> QED  BY <3>1, <3>2, ElementOfSeq, LenProperties
  <2>2. {"record", "value", "zone"} \subseteq Kinds
    BY DEF Kinds
  <2> QED  BY <2>1, <2>2 DEF Found
<1>3. Now \in StepSet /\ todo # << >>
  BY TakeStep DEF Enable, Doing
<1> DEFINE new == [key |-> Now.key, val |-> e.val]
<1>4. new \in Registration /\ e.val.kind \in Kinds
  BY <1>2, <1>3, ValidatorAssumption DEF Registration, StepSet, Buckets
<1>5. /\ Activate(active[e.val.kind], new) \subseteq Registration
      /\ \A g \in active[e.val.kind] : \E f \in Activate(active[e.val.kind], new) :
           f.key = g.key /\ f.val.id = g.val.id
  BY <1>4 DEF Activate, Inv, Shape
<1>6. active' \in [Kinds -> SUBSET Registration]
  BY <1>1, <1>4, <1>5 DEF Inv, Shape
<1>7. ASSUME BridgesHeld PROVE BridgesHeld'
  <2>1. \A g \in active["record"] : \E f \in active'["record"] :
          f.key = g.key /\ f.val.id = g.val.id
    <3>1. CASE e.val.kind = "record"
      BY <1>1, <1>4, <1>5, <3>1 DEF Inv, Shape
    <3>2. CASE e.val.kind # "record"
      BY <1>1, <1>4, <3>2 DEF Inv, Shape, Kinds
    <3> QED  BY <3>1, <3>2
  <2>2. UNCHANGED <<available, configured>>
    BY DEF Enable
  <2> QED  BY <1>7, <2>1, <2>2 DEF BridgesHeld, Held
<1> QED
  BY <1>3, <1>6, <1>7, OtherInv DEF Enable, Doing

(* and disable spares the bridges. *)
LEMMA DisableInv ==
  ASSUME Inv, Disable
  PROVE  Inv'
<1>1. /\ ~IsBridge(Now.id) /\ UNCHANGED <<available, configured>>
      /\ active' = [k \in Kinds |->
           IF k \in Now.kinds
             THEN {e \in active[k] : ~(e.val.id = Now.id /\ Now.key \in {All, e.key})}
             ELSE active[k]]
  BY DEF Disable
<1>2. active' \in [Kinds -> SUBSET Registration]
  BY <1>1 DEF Inv, Shape
<1>3. ASSUME BridgesHeld PROVE BridgesHeld'
  <2>1. \A g \in active["record"] : g.val.id # Now.id => g \in active'["record"]
    BY <1>1 DEF Kinds
  <2>2. available["record"] \in Seq(Registration)
    BY DEF Inv, Shape, Kinds
  <2>3. \A i \in 1 .. Len(available["record"]) :
          /\ available["record"][i] \in Registration
          /\ available["record"][i].val.bridge => available["record"][i].val.id # Now.id
    <3> SUFFICES ASSUME NEW i \in 1 .. Len(available["record"])
                 PROVE  /\ available["record"][i] \in Registration
                        /\ available["record"][i].val.bridge =>
                             available["record"][i].val.id # Now.id
      OBVIOUS
    <3>1. available["record"][i] \in Registration
      BY <2>2, ElementOfSeq
    <3>2. available["record"][i].val \in Validator
      BY <3>1 DEF Registration
    <3> QED  BY <1>1, <3>1, <3>2 DEF IsBridge
  <2>4. available' = available /\ configured' = configured
    BY <1>1
  <2>5. ASSUME configured["record"], NEW i \in 1 .. Len(available["record"]),
               available["record"][i].val.bridge
        PROVE  \E f \in active'["record"] : /\ f.key = available["record"][i].key
                                            /\ f.val.id = available["record"][i].val.id
    <3>1. PICK g \in active["record"] : /\ g.key = available["record"][i].key
                                        /\ g.val.id = available["record"][i].val.id
      BY <1>3, <2>5 DEF BridgesHeld, Held
    <3>2. g \in active'["record"]
      BY <2>1, <2>3, <2>5, <3>1
    <3> QED  BY <3>1, <3>2
  <2> QED  BY <2>4, <2>5 DEF BridgesHeld, Held
<1>4. Now.op \in {"enable", "disable"} /\ todo # << >> /\ Done
  BY DEF Disable, Doing
<1> QED  BY <1>1, <1>2, <1>3, <1>4, OtherInv

LEMMA EnableSetsInv ==
  ASSUME Inv, EnableSets
  PROVE  Inv'
<1>1. /\ todo # << >> /\ Now.op = "sets" /\ WithSets(Now.kinds, Now.sets)
      /\ todo' = Tail(todo) /\ raised' = raised
  BY DEF EnableSets, Doing, Done, progress
<1>2. /\ Now \in StepSet /\ Tail(todo) \in Seq(StepSet) /\ Covered(Tail(todo))
      /\ SetsAhead(todo) => SetsRecords(Now) \/ SetsAhead(Tail(todo))
  BY <1>1, TakeStep
<1>3. Shape /\ Now.kinds \in SUBSET Kinds
  BY <1>2 DEF Inv, StepSet
<1>4. /\ available' = available
      /\ active' \in [Kinds -> SUBSET Registration]
      /\ configured' \in [{"record", "zone"} -> BOOLEAN]
      /\ "record" \in Now.kinds => BridgesHeld'
      /\ "record" \notin Now.kinds => (BridgesHeld => BridgesHeld')
  BY <1>1, <1>3, WithSetsHolds
<1>5. Shape'
  BY <1>1, <1>2, <1>4 DEF Inv, Shape
<1>6. Covered(todo)' /\ (SetsAhead(Tail(todo)) <=> SetsAhead(todo)')
  BY <1>1, <1>2 DEF Covered, SetsAhead
<1>7. ASSUME ~raised', ~SetsAhead(todo)' PROVE BridgesHeld'
  <2>1. CASE "record" \in Now.kinds
    BY <1>4, <2>1
  <2>2. CASE "record" \notin Now.kinds
    <3>1. ~SetsAhead(todo)
      BY <1>2, <1>6, <1>7, <2>2 DEF SetsRecords
    <3>2. BridgesHeld
      BY <3>1, <1>1, <1>7 DEF Inv
    <3> QED  BY <1>4, <2>2, <3>2
  <2> QED  BY <2>1, <2>2
<1> QED  BY <1>5, <1>6, <1>7 DEF Inv

(* Records and zones that are validated leave the registries as they are,   *)
(* or enable the legacy set.                                                *)
LEMMA UseInv ==
  ASSUME Inv, UNCHANGED <<todo, progress>>, ProcessRecord \/ ProcessZone
  PROVE  Inv'
<1>1. CASE UNCHANGED registry
  BY <1>1 DEF Inv, Shape, registry, progress, Covered, SetsAhead, BridgesHeld, Held
<1>2. ASSUME NEW kinds \in SUBSET Kinds, WithSets(kinds, {Legacy})
      PROVE  Inv'
  <2>1. /\ available' = available
        /\ active' \in [Kinds -> SUBSET Registration]
        /\ configured' \in [{"record", "zone"} -> BOOLEAN]
        /\ "record" \in kinds => BridgesHeld'
        /\ "record" \notin kinds => (BridgesHeld => BridgesHeld')
    BY <1>2, WithSetsHolds DEF Inv
  <2>2. BridgesHeld => BridgesHeld'
    BY <2>1
  <2> QED  BY <2>1, <2>2 DEF Inv, Shape, progress, Covered, SetsAhead
<1>3. OnRecords \in SUBSET Kinds /\ OnZones \in SUBSET Kinds
  BY DEF OnRecords, OnZones, Kinds
<1> QED  BY <1>1, <1>2, <1>3 DEF ProcessRecord, ProcessZone

THEOREM InvHolds == Spec => []Inv
<1>1. Init => Inv
  BY InitInv
<1>2. Inv /\ [Next]_vars => Inv'
  <2> SUFFICES ASSUME Inv, [Next]_vars PROVE Inv'
    OBVIOUS
  <2>1. CASE \E c \in Configs : NewManager(c)
    BY <2>1, MakeInv
  <2>2. CASE Configure
    <3>1. CASE RegisterNew
      BY <3>1, RegisterInv DEF RegisterNew, Doing, Registers1
    <3>2. CASE Override
      BY <3>2, RegisterInv DEF Override, Doing, Registers1
    <3>3. CASE RegisterTwice \/ EnableUnknown \/ DisableBridge
      BY <3>3, RaiseInv DEF RegisterTwice, EnableUnknown, DisableBridge
    <3> QED  BY <2>2, <3>1, <3>2, <3>3, EnableSetsInv, EnableInv, DisableInv DEF Configure
  <2>3. CASE \E r \in settings.sources : AddRecord(r)
    BY <2>3, UseInv DEF AddRecord
  <2>4. CASE Validate
    BY <2>4, UseInv DEF Validate
  <2>5. CASE UNCHANGED vvars
    BY <2>5 DEF vvars, Inv, Shape, registry, progress, Covered, SetsAhead, BridgesHeld, Held
  <2> QED
    BY <2>1, <2>2, <2>3, <2>4, <2>5 DEF Next, vars, NewZone, AddUnknown
<1> QED  BY <1>1, <1>2, PTL DEF Spec

(* BridgesRun: on every record of a type that has a bridge it runs, so that *)
(* the value validators are never left out, for any built-in validators,    *)
(* configurations and number of Managers.                                   *)
THEOREM BridgesAlwaysRun == Spec => []BridgesRun
<1>1. Inv => BridgesRun
  <2> SUFFICES ASSUME Inv, todo = << >>, ~raised, configured["record"]
               PROVE  \A e \in ToSet(available["record"]) : e.val.bridge =>
                        \E f \in active["record"] : f.key = e.key /\ f.val.id = e.val.id
    BY DEF BridgesRun, Ready
  <2>1. BridgesHeld
    BY EmptyCovered DEF Inv
  <2>2. available["record"] \in Seq(Registration)
    BY DEF Inv, Shape, Kinds
  <2> QED  BY <2>1, <2>2, LenProperties DEF BridgesHeld, Held, ToSet
<1> QED  BY <1>1, InvHolds, PTL

-----------------------------------------------------------------------------
(* What a zone has admitted.  A zone is empty while a Manager is            *)
(* configured, and what is active does not change once a record was added.  *)

Admits(r) ==
  /\ ~r.malformed
  /\ \A v \in r.faults, key \in {All, r.type} :
       [key |-> key, val |-> v] \in active[v.kind] => v.id \in settings.records[key]
AllAdmitted == ~settings.lenient => \A r \in zone : ~r.lenient => Admits(r)

AdmittedInv ==
  /\ settings \in ZoneConfigs
  /\ zone \subseteq settings.sources
  /\ todo # << >> => zone = {}
  /\ zone # {} => configured["record"]
  /\ AllAdmitted

(* What is active once a record is processed is what runs on it. *)
LEMMA ProcessedActive ==
  ASSUME Inv, ProcessRecord
  PROVE  /\ \A k \in OnRecords : active'[k] = ActiveNow(k)
         /\ configured'["record"]
<1>1. OnRecords = {"record", "value"} /\ OnRecords \subseteq Kinds /\ "zone" \notin OnRecords
  BY DEF OnRecords, Kinds
<1>2. \A k \in OnRecords :
        ActiveNow(k) = IF configured["record"] THEN active[k] ELSE Selected(available[k], {Legacy})
  BY <1>1 DEF ActiveNow
<1>3. CASE configured["record"]
  BY <1>1, <1>2, <1>3 DEF ProcessRecord, registry
<1>4. CASE ~configured["record"]
  <2>1. WithSets(OnRecords, {Legacy})
    BY <1>4 DEF ProcessRecord
  <2> QED  BY <1>1, <1>2, <1>4, <2>1 DEF WithSets
<1> QED  BY <1>3, <1>4

(* A bridge runs on each record of a type that is known. *)
LEMMA BridgeRunsOn ==
  ASSUME Inv, Ready, NEW type, Known(type), NEW disabled
  PROVE  \E v \in Runs("record", type, disabled) : v.bridge
<1>1. available["record"] \in Seq(Registration) /\ active["record"] \subseteq Registration
  BY DEF Inv, Shape, Kinds
<1>2. PICK i \in 1 .. Len(available["record"]) :
        available["record"][i].key = type /\ available["record"][i].val.bridge
  BY <1>1, LenProperties DEF Known, ToSet
<1> DEFINE e == available["record"][i]
<1>3. e \in Registration
  BY <1>1, <1>2, ElementOfSeq
<1>4. \E f \in ActiveNow("record") : f \in Registration /\ f.key = type /\ f.val.id = e.val.id
  <2>1. CASE configured["record"]
    <3>1. BridgesHeld
      BY EmptyCovered DEF Inv, Ready
    <3>2. \E f \in active["record"] : f.key = e.key /\ f.val.id = e.val.id
      BY <1>2, <2>1, <3>1 DEF BridgesHeld, Held
    <3> QED  BY <1>1, <1>2, <2>1, <3>2 DEF ActiveNow
  <2>2. CASE ~configured["record"]
    <3>1. e \in Selected(available["record"], {Legacy})
      BY <1>1, <1>2, SelectedSub
    <3> QED  BY <1>2, <1>3, <2>2, <3>1 DEF ActiveNow
  <2> QED  BY <2>1, <2>2
<1>5. PICK f \in ActiveNow("record") : f \in Registration /\ f.key = type /\ f.val.id = e.val.id
  BY <1>4
<1>6. f.val.bridge
  BY <1>2, <1>3, <1>5, BridgeAssumption DEF Registration
<1> QED  BY <1>5, <1>6 DEF Runs

(* A record that is added without being lenient has no active fault. *)
LEMMA AddedAdmits ==
  ASSUME Inv, AdmittedInv, NEW r \in settings.sources, AddRecord(r), AddValid(r),
         ~settings.lenient, ~r.lenient
  PROVE  Admits(r)'
<1>1. /\ Ready /\ Known(r.type) /\ ~r.malformed /\ Reported(r) = {}
      /\ ProcessRecord /\ settings' = settings
  BY DEF AddRecord, AddValid
<1>2. r.type \in Type /\ \A v \in r.faults : v.kind \in OnRecords
  BY FaultsAssumption DEF AdmittedInv
<1>3. ASSUME NEW v \in r.faults, NEW key \in {All, r.type},
             [key |-> key, val |-> v] \in active'[v.kind],
             v.id \notin settings.records[key]
      PROVE  FALSE
  <2>1. v.kind \in OnRecords /\ [key |-> key, val |-> v] \in ActiveNow(v.kind)
    BY <1>1, <1>2, <1>3, ProcessedActive
  <2>2. v \in Runs(v.kind, r.type, settings.records)
    BY <1>3, <2>1 DEF Runs
  <2>3. \E w \in Runs("record", r.type, settings.records) : w.bridge
    BY <1>1, BridgeRunsOn
  <2>4. v \in RunsOn(r.type, settings.records)
    BY <2>1, <2>2, <2>3 DEF RunsOn, OnRecords
  <2> QED  BY <1>1, <1>3, <2>4 DEF Reported
<1> QED  BY <1>1, <1>3 DEF Admits

LEMMA AddAdmitted ==
  ASSUME Inv, AdmittedInv, NEW r \in settings.sources, AddRecord(r)
  PROVE  AdmittedInv'
<1>1. /\ Ready /\ ProcessRecord /\ settings' = settings /\ todo' = todo /\ todo = << >>
      /\ AddValid(r) \/ AddInvalid(r)
  BY DEF AddRecord, Ready
<1>2. zone' \subseteq zone \cup {r} /\ (zone' = zone \/ AddValid(r))
  BY <1>1 DEF AddValid, AddInvalid
<1>3. configured'["record"]
  BY <1>1, ProcessedActive
<1>4. zone # {} => active' = active
  BY <1>1 DEF AdmittedInv, ProcessRecord, registry
<1>5. AllAdmitted'
  <2> SUFFICES ASSUME ~settings.lenient, NEW s \in zone', ~s.lenient
               PROVE  Admits(s)'
    BY <1>1 DEF AllAdmitted
  <2>1. CASE s \in zone
    BY <1>1, <1>4, <2>1 DEF AdmittedInv, AllAdmitted, Admits
  <2>2. CASE s \notin zone
    BY <1>2, <2>2, AddedAdmits
  <2> QED  BY <2>1, <2>2
<1> QED  BY <1>1, <1>2, <1>3, <1>5 DEF AdmittedInv

(* Validating the zone enables validators of zones at most. *)
LEMMA ValidateAdmitted ==
  ASSUME Inv, AdmittedInv, Validate
  PROVE  AdmittedInv'
<1>1. /\ ProcessZone /\ UNCHANGED <<zone, settings, todo>>
  BY DEF Validate
<1>2. /\ configured'["record"] = configured["record"]
      /\ \A k \in OnRecords : active'[k] = active[k]
  <2>1. OnRecords \subseteq Kinds /\ \A k \in OnRecords : k \notin OnZones
    BY DEF OnRecords, OnZones, Kinds
  <2>2. CASE UNCHANGED registry
    BY <2>2 DEF registry
  <2>3. CASE WithSets(OnZones, {Legacy})
    BY <2>1, <2>3 DEF WithSets, OnZones, Inv, Shape
  <2> QED  BY <1>1, <2>2, <2>3 DEF ProcessZone
<1>3. \A r \in zone : \A v \in r.faults : v.kind \in OnRecords
  BY FaultsAssumption DEF AdmittedInv
<1>4. AllAdmitted'
  BY <1>1, <1>2, <1>3 DEF AdmittedInv, AllAdmitted, Admits
<1> QED  BY <1>1, <1>2, <1>4 DEF AdmittedInv

LEMMA AdmittedInvHolds == Spec => []AdmittedInv
<1>1. Init => AdmittedInv
  BY DEF Init, RegistryInit, AdmittedInv, AllAdmitted
<1>2. Inv /\ AdmittedInv /\ [Next]_vars => AdmittedInv'
  <2> SUFFICES ASSUME Inv, AdmittedInv, [Next]_vars PROVE AdmittedInv'
    OBVIOUS
  <2>1. CASE \E c \in Configs : NewManager(c)
    BY <2>1 DEF NewManager, AdmittedInv, AllAdmitted
  <2>2. CASE Configure /\ UNCHANGED zvars
    <3>1. todo # << >>
      BY <2>2 DEF Configure, RegisterNew, RegisterTwice, Override, EnableSets, Enable,
                  EnableUnknown, Disable, DisableBridge, Doing
    <3> QED  BY <2>2, <3>1 DEF AdmittedInv, AllAdmitted, zvars
  <2>3. CASE \E s \in ZoneConfigs : NewZone(s)
    BY <2>3 DEF NewZone, AdmittedInv, AllAdmitted, vvars
  <2>4. CASE \E r \in settings.sources : AddRecord(r)
    BY <2>4, AddAdmitted
  <2>5. CASE \E r \in settings.sources : AddUnknown(r)
    BY <2>5 DEF AddUnknown, AdmittedInv, AllAdmitted, Admits, vvars, registry
  <2>6. CASE Validate
    BY <2>6, ValidateAdmitted
  <2>7. CASE UNCHANGED vars
    BY <2>7 DEF vars, zvars, vvars, registry, AdmittedInv, AllAdmitted, Admits
  <2> QED  BY <2>1, <2>2, <2>3, <2>4, <2>5, <2>6, <2>7 DEF Next
<1> QED  BY <1>1, <1>2, InvHolds, PTL DEF Spec

(* AdmittedAreValid: whatever was configured and whatever zones there were  *)
(* before, a zone that is not lenient has no record, but lenient ones, that *)
(* an active validator reports which the zone does not disable, and none    *)
(* that Record.new has something against.                                   *)
THEOREM AdmittedRecordsAreValid == Spec => []AdmittedAreValid
<1>1. AdmittedInv => AdmittedAreValid
  BY DEF AdmittedInv, AllAdmitted, Admits, AdmittedAreValid
<1> QED  BY <1>1, AdmittedInvHolds, PTL

-----------------------------------------------------------------------------
(* The dynamic parts that a zone has.  What the validator of dynamic parts  *)
(* had nothing against is known to serve (AcceptedServe), and the           *)
(* validators that run on a type stay the same while a zone is filled.      *)

ChecksDynamics(r) == \E v \in RunsOn(r.type, settings.records) : v.id = DynamicId
AcceptedOnce(r) == \E running : \A d \in r.dynamic : ~DynamicFails(d, running)
AllChecked ==
  ~settings.lenient =>
    \A r \in zone : ~r.lenient /\ ChecksDynamics(r) => AcceptedOnce(r)

LEMMA RunsKept ==
  ASSUME \A k \in OnRecords : active'[k] = ActiveNow(k), configured'["record"],
         settings' = settings, NEW type
  PROVE  RunsOn(type, settings.records)' = RunsOn(type, settings.records)
<1>1. ActiveNow("record")' = active'["record"] /\ ActiveNow("value")' = active'["value"]
  BY DEF ActiveNow
<1>2. ActiveNow("record")' = ActiveNow("record") /\ ActiveNow("value")' = ActiveNow("value")
  BY <1>1 DEF OnRecords
<1>3. \A kind \in OnRecords :
        Runs(kind, type, settings.records)' = Runs(kind, type, settings.records)
  BY <1>2 DEF Runs, OnRecords
<1> QED  BY <1>3 DEF RunsOn, OnRecords

LEMMA AddChecked ==
  ASSUME Inv, AllChecked, NEW r \in settings.sources, AddRecord(r)
  PROVE  AllChecked'
<1>1. ProcessRecord /\ settings' = settings /\ (AddValid(r) \/ AddInvalid(r))
  BY DEF AddRecord
<1>2. zone' \subseteq zone \cup {r} /\ (zone' = zone \/ AddValid(r))
  BY <1>1 DEF AddValid, AddInvalid
<1>3. \A s : ChecksDynamics(s)' <=> ChecksDynamics(s)
  BY <1>1, ProcessedActive, RunsKept DEF ChecksDynamics
<1>4. ASSUME AddValid(r), ~settings.lenient, ~r.lenient, ChecksDynamics(r)
      PROVE  AcceptedOnce(r)
  <2>1. ~DynamicReported(r)
    BY <1>4 DEF AddValid, Reported, ChecksDynamics
  <2> QED  BY <2>1 DEF DynamicReported, AcceptedOnce
<1>5. ASSUME ~settings.lenient, NEW s \in zone', ~s.lenient, ChecksDynamics(s)
      PROVE  AcceptedOnce(s)
  <2>1. CASE s \in zone
    BY <1>5, <2>1 DEF AllChecked
  <2>2. CASE s \notin zone
    <3>1. s = r /\ AddValid(r)
      BY <1>2, <2>2
    <3> QED  BY <1>4, <1>5, <3>1
  <2> QED  BY <2>1, <2>2
<1> QED  BY <1>1, <1>3, <1>5 DEF AllChecked

LEMMA ValidateChecked ==
  ASSUME Inv, AdmittedInv, AllChecked, Validate
  PROVE  AllChecked'
<1>1. /\ ProcessZone /\ UNCHANGED <<zone, settings>>
  BY DEF Validate
<1>2. CASE zone = {}
  BY <1>1, <1>2 DEF AllChecked
<1>3. CASE zone # {}
  <2>1. configured["record"]
    BY <1>3 DEF AdmittedInv
  <2>2. configured'["record"] /\ \A k \in OnRecords : active'[k] = active[k]
    <3>1. OnRecords \subseteq Kinds /\ \A k \in OnRecords : k \notin OnZones
      BY DEF OnRecords, OnZones, Kinds
    <3>2. CASE UNCHANGED registry
      BY <2>1, <3>2 DEF registry
    <3>3. CASE WithSets(OnZones, {Legacy})
      BY <2>1, <3>1, <3>3 DEF WithSets, OnZones, Inv, Shape
    <3> QED  BY <1>1, <3>2, <3>3 DEF ProcessZone
  <2>3. \A k \in OnRecords : active'[k] = ActiveNow(k)
    BY <2>1, <2>2 DEF ActiveNow, OnRecords
  <2>4. \A s : ChecksDynamics(s)' <=> ChecksDynamics(s)
    BY <1>1, <2>2, <2>3, RunsKept DEF ChecksDynamics
  <2> QED  BY <1>1, <2>4 DEF AllChecked
<1> QED  BY <1>2, <1>3

LEMMA AllCheckedHolds == Spec => []AllChecked
<1>1. Init => AllChecked
  BY DEF Init, AllChecked
<1>2. Inv /\ AdmittedInv /\ AllChecked /\ [Next]_vars => AllChecked'
  <2> SUFFICES ASSUME Inv, AdmittedInv, AllChecked, [Next]_vars PROVE AllChecked'
    OBVIOUS
  <2>1. CASE \E c \in Configs : NewManager(c)
    BY <2>1 DEF NewManager, AllChecked
  <2>2. CASE Configure /\ UNCHANGED zvars
    <3>1. todo # << >>
      BY <2>2 DEF Configure, RegisterNew, RegisterTwice, Override, EnableSets, Enable,
                  EnableUnknown, Disable, DisableBridge, Doing
    <3>2. zone' = {}
      BY <2>2, <3>1 DEF AdmittedInv, zvars
    <3> QED  BY <3>2 DEF AllChecked
  <2>3. CASE \E s \in ZoneConfigs : NewZone(s)
    BY <2>3 DEF NewZone, AllChecked
  <2>4. CASE \E r \in settings.sources : AddRecord(r)
    BY <2>4, AddChecked
  <2>5. CASE UNCHANGED <<vvars, zone, settings>>
    <3>1. UNCHANGED <<available, active, configured>>
      BY <2>5 DEF vvars, registry
    <3>2. \A s : ChecksDynamics(s)' <=> ChecksDynamics(s)
      BY <2>5, <3>1 DEF ChecksDynamics, RunsOn, Runs, ActiveNow
    <3> QED  BY <2>5, <3>2 DEF AllChecked
  <2>6. CASE \E r \in settings.sources : AddUnknown(r)
    BY <2>5, <2>6 DEF AddUnknown
  <2>7. CASE Validate
    BY <2>7, ValidateChecked
  <2>8. CASE UNCHANGED vars
    BY <2>5, <2>8 DEF vars, zvars
  <2> QED  BY <2>1, <2>2, <2>3, <2>4, <2>6, <2>7, <2>8 DEF Next
<1> QED  BY <1>1, <1>2, InvHolds, AdmittedInvHolds, PTL DEF Spec

LEMMA DynamicsAccepted ==
  ASSUME AdmittedInv, AllChecked, NEW d \in CheckedDynamics
  PROVE  IsDynamic(d) /\ \E running : ~DynamicFails(d, running)
<1>1. PICK r \in zone : ~r.lenient /\ ChecksDynamics(r) /\ ~settings.lenient /\ d \in r.dynamic
  BY DEF CheckedDynamics, ChecksDynamics
<1>2. r \in settings.sources /\ settings \in ZoneConfigs
  BY DEF AdmittedInv
<1> QED  BY <1>1, <1>2, DynamicsAssumption DEF AllChecked, AcceptedOnce

(* DynamicsServe: whatever was configured and disabled, each dynamic record *)
(* of a zone that the validator of dynamic parts checked serves every       *)
(* client, hides no rule, leaves no pool over, and has no circle.           *)
THEOREM CheckedDynamicsServe == Spec => []DynamicsServe
<1>1. AdmittedInv /\ AllChecked => DynamicsServe
  BY DynamicsAccepted, AcceptedServe DEF DynamicsServe
<1> QED  BY <1>1, AdmittedInvHolds, AllCheckedHolds, PTL

(* DynamicsReduce: and so does what a provider is given of it that does not *)
(* support statuses or subnets, which would pass the validator again.       *)
THEOREM CheckedDynamicsReduce == Spec => []DynamicsReduce
<1>1. AdmittedInv /\ AllChecked => DynamicsReduce
  BY DynamicsAccepted, AcceptedReduce DEF DynamicsReduce
<1> QED  BY <1>1, AdmittedInvHolds, AllCheckedHolds, PTL

-----------------------------------------------------------------------------
(* How a configuration comes about.  After the registrations come the steps *)
(* of Full; those that are done say what is active so far.                  *)

Full(c) == Sets(OnRecords, c.sets) \o Activating(c)

(* how many registrations are still to be made, or minus the steps of Full  *)
(* that are done                                                            *)
Ahead(c) == Len(todo) - Len(Full(c))
Aligned(c) ==
  \A i \in 1 .. Len(todo) :
    /\ i <= Ahead(c) => Registers1(todo[i])
    /\ i > Ahead(c) => todo[i] = Full(c)[i - Ahead(c)]
DoneSteps(c) == {Full(c)[i] : i \in {i \in 1 .. Len(Full(c)) : i + Ahead(c) <= 0}}

HasDone(c, op, kinds) == \E t \in DoneSteps(c) : t.op = op /\ t.kinds = kinds
IsEnabledBy(t, kinds, key, id) ==
  t.op = "enable" /\ t.kinds = kinds /\ t.key = key /\ t.id = id
IsDisabledBy(t, kinds, key, id) ==
  t.op = "disable" /\ t.kinds = kinds /\ t.key \in {All, key} /\ t.id = id

ActiveIn(kinds, key, id) ==
  \E k \in kinds : \E e \in active[k] : e.key = key /\ e.val.id = id
SelectedIn(kinds, key, id, sets) ==
  \E k \in kinds : \E e \in Selected(available[k], sets) : e.key = key /\ e.val.id = id
AskedSoFar(c, kinds, key, id) ==
  /\ \/ SelectedIn(kinds, key, id, c.sets)
     \/ \E t \in DoneSteps(c) : IsEnabledBy(t, kinds, key, id)
  /\ ~\E t \in DoneSteps(c) : IsDisabledBy(t, kinds, key, id)

ActiveSoFar(c, kinds) ==
  HasDone(c, "sets", kinds) =>
    /\ \A k \in kinds \cap {"record", "zone"} : configured[k]
    /\ \A key \in Buckets, id \in Id :
         ActiveIn(kinds, key, id) <=> AskedSoFar(c, kinds, key, id)

(* what is in each registry: validators of its kind *)
Suits(e, k) == e.val.kind = k /\ (k = "zone" => e.key = All)
IsKinded == \A k \in Kinds : \A i \in 1 .. Len(available[k]) : Suits(available[k][i], k)

Underway(c) ==
  /\ config = {c}
  /\ Aligned(c)
  /\ ActiveSoFar(c, OnRecords) /\ ActiveSoFar(c, OnZones)

ConfiguredInv ==
  /\ IsKinded
  /\ config = {} => todo = << >>
  /\ config # {} /\ ~raised => \E c \in Configs : Underway(c)

IsStep(t, op, kinds, key, id) ==
  t.op = op /\ t.kinds = kinds /\ t.key = key /\ t.id = id

LEMMA StepIs ==
  ASSUME NEW op, NEW kinds, NEW key, NEW id, NEW val, NEW sets
  PROVE  /\ IsStep(Step(op, kinds, key, id, val, sets), op, kinds, key, id)
         /\ Step(op, kinds, key, id, val, sets).sets = sets
BY DEF IsStep, Step

LEMMA NamesAt ==
  ASSUME NEW op \in {"enable", "disable"}, NEW kinds \in SUBSET Kinds, NEW s \in Seq(Request)
  PROVE  /\ Names(op, kinds, s) \in Seq(StepSet)
         /\ Len(Names(op, kinds, s)) = Len(s)
         /\ \A i \in 1 .. Len(s) :
              IsStep(Names(op, kinds, s)[i], op, kinds, s[i].key, s[i].id)
<1>1. Names(op, kinds, s) \in Seq(StepSet)
  BY NamesSeq
<1>2. DOMAIN Names(op, kinds, s) = 1 .. Len(s) /\ Len(s) \in Nat
  BY LenProperties DEF Names
<1>3. Len(Names(op, kinds, s)) = Len(s)
  BY <1>1, <1>2, LenProperties
<1> QED  BY <1>1, <1>2, <1>3, StepIs DEF Names

LEMMA Joined ==
  ASSUME NEW s \in Seq(StepSet), NEW t \in Seq(StepSet)
  PROVE  /\ s \o t \in Seq(StepSet) /\ Len(s \o t) = Len(s) + Len(t)
         /\ \A i \in 1 .. Len(s) : (s \o t)[i] = s[i]
         /\ \A i \in 1 .. Len(t) : (s \o t)[Len(s) + i] = t[i]
<1>1. Len(s) \in Nat /\ Len(t) \in Nat
  BY LenProperties
<1>2. /\ s \o t \in Seq(StepSet) /\ Len(s \o t) = Len(s) + Len(t)
      /\ \A i \in 1 .. Len(s) + Len(t) :
           (s \o t)[i] = IF i <= Len(s) THEN s[i] ELSE t[i - Len(s)]
  BY ConcatProperties
<1> QED  BY <1>1, <1>2

(* the steps of Full, block by block *)
LEMMA FullForm ==
  ASSUME NEW c \in Configs
  PROVE  /\ \A s \in {c.add, c.drop, c.zadd, c.zdrop} : s \in Seq(Request) /\ Len(s) \in Nat
         /\ Full(c) \in Seq(StepSet)
         /\ Len(Full(c)) = 2 + Len(c.add) + Len(c.drop) + Len(c.zadd) + Len(c.zdrop)
         /\ Full(c)[1].op = "sets" /\ Full(c)[1].kinds = OnRecords /\ Full(c)[1].sets = c.sets
         /\ Full(c)[2].op = "sets" /\ Full(c)[2].kinds = OnZones /\ Full(c)[2].sets = c.sets
         /\ \A i \in 1 .. Len(c.add) :
              IsStep(Full(c)[2 + i], "enable", OnRecords, c.add[i].key, c.add[i].id)
         /\ \A i \in 1 .. Len(c.drop) :
              IsStep(Full(c)[2 + Len(c.add) + i], "disable", OnRecords, c.drop[i].key, c.drop[i].id)
         /\ \A i \in 1 .. Len(c.zadd) :
              IsStep(Full(c)[2 + Len(c.add) + Len(c.drop) + i], "enable", OnZones, c.zadd[i].key, c.zadd[i].id)
         /\ \A i \in 1 .. Len(c.zdrop) :
              IsStep(Full(c)[2 + Len(c.add) + Len(c.drop) + Len(c.zadd) + i], "disable", OnZones, c.zdrop[i].key, c.zdrop[i].id)
<1> DEFINE s1 == Sets(OnRecords, c.sets)
           s2 == Sets(OnZones, c.sets)
           e1 == Names("enable", OnRecords, c.add)
           d1 == Names("disable", OnRecords, c.drop)
           e2 == Names("enable", OnZones, c.zadd)
           d2 == Names("disable", OnZones, c.zdrop)
           t1 == s2 \o e1
           t2 == t1 \o d1
           t3 == t2 \o e2
           t4 == t3 \o d2
           f == s1 \o t4
<1>1. \A s \in {c.add, c.drop, c.zadd, c.zdrop} : s \in Seq(Request) /\ Len(s) \in Nat
  BY ConfigsAssumption, LenProperties
<1>2. OnRecords \in SUBSET Kinds /\ OnZones \in SUBSET Kinds
  BY DEF OnRecords, OnZones, Kinds
<1>3. /\ s1 \in Seq(StepSet) /\ Len(s1) = 1
      /\ s1[1].op = "sets" /\ s1[1].kinds = OnRecords /\ s1[1].sets = c.sets
      /\ s2 \in Seq(StepSet) /\ Len(s2) = 1
      /\ s2[1].op = "sets" /\ s2[1].kinds = OnZones /\ s2[1].sets = c.sets
  <2>1. ASSUME NEW kinds \in SUBSET Kinds
        PROVE  /\ Sets(kinds, c.sets) \in Seq(StepSet) /\ Len(Sets(kinds, c.sets)) = 1
               /\ Sets(kinds, c.sets)[1].op = "sets" /\ Sets(kinds, c.sets)[1].kinds = kinds
               /\ Sets(kinds, c.sets)[1].sets = c.sets
    <3>1. /\ Plain(Sets(kinds, c.sets)) /\ Len(Sets(kinds, c.sets)) = 1
          /\ Sets(kinds, c.sets)[1] = Step("sets", kinds, All, All, All, c.sets)
      BY SetsSeq
    <3>2. /\ Step("sets", kinds, All, All, All, c.sets).op = "sets"
          /\ Step("sets", kinds, All, All, All, c.sets).kinds = kinds
          /\ Step("sets", kinds, All, All, All, c.sets).sets = c.sets
      BY DEF Step
    <3> QED  BY <3>1, <3>2 DEF Plain
  <2> QED  BY <1>2, <2>1
<1>4. /\ e1 \in Seq(StepSet) /\ Len(e1) = Len(c.add)
      /\ \A i \in 1 .. Len(c.add) :
           IsStep(e1[i], "enable", OnRecords, c.add[i].key, c.add[i].id)
  BY <1>1, <1>2, NamesAt
<1>5. /\ d1 \in Seq(StepSet) /\ Len(d1) = Len(c.drop)
      /\ \A i \in 1 .. Len(c.drop) :
           IsStep(d1[i], "disable", OnRecords, c.drop[i].key, c.drop[i].id)
  BY <1>1, <1>2, NamesAt
<1>6. /\ e2 \in Seq(StepSet) /\ Len(e2) = Len(c.zadd)
      /\ \A i \in 1 .. Len(c.zadd) :
           IsStep(e2[i], "enable", OnZones, c.zadd[i].key, c.zadd[i].id)
  BY <1>1, <1>2, NamesAt
<1>7. /\ d2 \in Seq(StepSet) /\ Len(d2) = Len(c.zdrop)
      /\ \A i \in 1 .. Len(c.zdrop) :
           IsStep(d2[i], "disable", OnZones, c.zdrop[i].key, c.zdrop[i].id)
  BY <1>1, <1>2, NamesAt
<1>8. Full(c) = f
  BY DEF Full, Activating
<1> HIDE DEF s1, s2, e1, d1, e2, d2, t1, t2, t3, t4, f
<1>9. /\ t1 \in Seq(StepSet) /\ Len(t1) = Len(s2) + Len(e1)
      /\ \A i \in 1 .. Len(s2) : t1[i] = s2[i]
      /\ \A i \in 1 .. Len(e1) : t1[Len(s2) + i] = e1[i]
  BY <1>3, <1>4, Joined DEF t1
<1>10. /\ t2 \in Seq(StepSet) /\ Len(t2) = Len(t1) + Len(d1)
       /\ \A i \in 1 .. Len(t1) : t2[i] = t1[i]
       /\ \A i \in 1 .. Len(d1) : t2[Len(t1) + i] = d1[i]
  BY <1>5, <1>9, Joined DEF t2
<1>11. /\ t3 \in Seq(StepSet) /\ Len(t3) = Len(t2) + Len(e2)
       /\ \A i \in 1 .. Len(t2) : t3[i] = t2[i]
       /\ \A i \in 1 .. Len(e2) : t3[Len(t2) + i] = e2[i]
  BY <1>6, <1>10, Joined DEF t3
<1>12. /\ t4 \in Seq(StepSet) /\ Len(t4) = Len(t3) + Len(d2)
       /\ \A i \in 1 .. Len(t3) : t4[i] = t3[i]
       /\ \A i \in 1 .. Len(d2) : t4[Len(t3) + i] = d2[i]
  BY <1>7, <1>11, Joined DEF t4
<1>13. /\ f \in Seq(StepSet) /\ Len(f) = Len(s1) + Len(t4)
       /\ \A i \in 1 .. Len(s1) : f[i] = s1[i]
       /\ \A i \in 1 .. Len(t4) : f[Len(s1) + i] = t4[i]
  BY <1>3, <1>12, Joined DEF f
<1> DEFINE a == Len(c.add)
           d == Len(c.drop)
           za == Len(c.zadd)
           zd == Len(c.zdrop)
<1>14. a \in Nat /\ d \in Nat /\ za \in Nat /\ zd \in Nat
  BY <1>1
<1>l. /\ Len(s1) = 1 /\ Len(s2) = 1 /\ Len(e1) = a /\ Len(d1) = d /\ Len(e2) = za /\ Len(d2) = zd
      /\ Len(t1) = 1 + a /\ Len(t2) = 1 + a + d /\ Len(t3) = 1 + a + d + za
      /\ Len(t4) = 1 + a + d + za + zd /\ Len(f) = 2 + a + d + za + zd
  <2>1. Len(s1) = 1 /\ Len(s2) = 1 /\ Len(e1) = a /\ Len(d1) = d /\ Len(e2) = za /\ Len(d2) = zd
    BY <1>3, <1>4, <1>5, <1>6, <1>7
  <2>2. /\ Len(t1) = Len(s2) + Len(e1) /\ Len(t2) = Len(t1) + Len(d1)
        /\ Len(t3) = Len(t2) + Len(e2) /\ Len(t4) = Len(t3) + Len(d2)
        /\ Len(f) = Len(s1) + Len(t4)
    BY <1>9, <1>10, <1>11, <1>12, <1>13
  <2> HIDE DEF a, d, za, zd
  <2> QED  BY <1>14, <2>1, <2>2
<1> HIDE DEF a, d, za, zd
<1>15. /\ \A i \in 1 .. 1 : f[i] = s1[i] /\ t1[i] = s2[i]
       /\ \A i \in 1 .. a : t1[1 + i] = e1[i]
       /\ \A i \in 1 .. 1 + a : t2[i] = t1[i]
       /\ \A i \in 1 .. d : t2[1 + a + i] = d1[i]
       /\ \A i \in 1 .. 1 + a + d : t3[i] = t2[i]
       /\ \A i \in 1 .. za : t3[1 + a + d + i] = e2[i]
       /\ \A i \in 1 .. 1 + a + d + za : t4[i] = t3[i]
       /\ \A i \in 1 .. zd : t4[1 + a + d + za + i] = d2[i]
       /\ \A i \in 1 .. 1 + a + d + za + zd : f[1 + i] = t4[i]
  BY <1>9, <1>10, <1>11, <1>12, <1>13, <1>l
<1>16. \A i \in 1 .. zd : f[2 + a + d + za + i] = d2[i]
  <2> SUFFICES ASSUME NEW i \in 1 .. zd PROVE f[2 + a + d + za + i] = d2[i]
    OBVIOUS
  <2>1. 1 + a + d + za + i \in 1 .. 1 + a + d + za + zd
    BY <1>14
  <2>2. f[1 + (1 + a + d + za + i)] = d2[i]
    BY <1>15, <2>1
  <2>3. 1 + (1 + a + d + za + i) = 2 + a + d + za + i
    BY <1>14
  <2> QED  BY <2>2, <2>3
<1>17. \A i \in 1 .. 1 + a + d + za : f[1 + i] = t3[i]
  BY <1>14, <1>15
<1>18. \A i \in 1 .. za : f[2 + a + d + i] = e2[i]
  <2> SUFFICES ASSUME NEW i \in 1 .. za PROVE f[2 + a + d + i] = e2[i]
    OBVIOUS
  <2>1. 1 + a + d + i \in 1 .. 1 + a + d + za
    BY <1>14
  <2>2. f[1 + (1 + a + d + i)] = e2[i]
    BY <1>15, <1>17, <2>1
  <2>3. 1 + (1 + a + d + i) = 2 + a + d + i
    BY <1>14
  <2> QED  BY <2>2, <2>3
<1>19. \A i \in 1 .. 1 + a + d : f[1 + i] = t2[i]
  BY <1>14, <1>15, <1>17
<1>20. \A i \in 1 .. d : f[2 + a + i] = d1[i]
  <2> SUFFICES ASSUME NEW i \in 1 .. d PROVE f[2 + a + i] = d1[i]
    OBVIOUS
  <2>1. 1 + a + i \in 1 .. 1 + a + d
    BY <1>14
  <2>2. f[1 + (1 + a + i)] = d1[i]
    BY <1>15, <1>19, <2>1
  <2>3. 1 + (1 + a + i) = 2 + a + i
    BY <1>14
  <2> QED  BY <2>2, <2>3
<1>21. \A i \in 1 .. 1 + a : f[1 + i] = t1[i]
  BY <1>14, <1>15, <1>19
<1>22. \A i \in 1 .. a : f[2 + i] = e1[i]
  <2> SUFFICES ASSUME NEW i \in 1 .. a PROVE f[2 + i] = e1[i]
    OBVIOUS
  <2>1. 1 + i \in 1 .. 1 + a /\ 1 + (1 + i) = 2 + i
    BY <1>14
  <2> QED  BY <1>15, <1>21, <2>1
<1>23. f[1] = s1[1] /\ f[2] = s2[1]
  <2>1. f[1 + 1] = t1[1] /\ t1[1] = s2[1] /\ f[1] = s1[1]
    BY <1>14, <1>15, <1>21
  <2> QED  BY <2>1
<1> QED
  BY <1>1, <1>3, <1>4, <1>5, <1>6, <1>7, <1>8, <1>13, <1>l, <1>16, <1>18, <1>20,
     <1>22, <1>23 DEF a, d, za, zd

(* The sets come first for the kinds that they are for, then the validators *)
(* to enable and then those to disable: these and no others.                *)
LEMMA FullShape ==
  ASSUME NEW c \in Configs
  PROVE  /\ Full(c) \in Seq(StepSet) /\ Len(Full(c)) \in Nat
         /\ \A i \in 1 .. Len(Full(c)) :
              /\ Full(c)[i].op \in {"sets", "enable", "disable"}
              /\ Full(c)[i].kinds \in {OnRecords, OnZones}
              /\ Full(c)[i].op = "sets" => Full(c)[i].sets = c.sets
         /\ \A i, j \in 1 .. Len(Full(c)) : Full(c)[i].kinds = Full(c)[j].kinds =>
              /\ Full(c)[i].op = "sets" /\ i # j => i < j /\ Full(c)[j].op # "sets"
              /\ Full(c)[i].op = "enable" /\ Full(c)[j].op = "disable" => i < j
         /\ \A kinds \in {OnRecords, OnZones} : \E i \in 1 .. Len(Full(c)) :
              Full(c)[i].op = "sets" /\ Full(c)[i].kinds = kinds
<1> DEFINE f == Full(c)
           a == Len(c.add)
           d == Len(c.drop)
           za == Len(c.zadd)
           zd == Len(c.zdrop)
           In(i, op, kinds) == f[i].op = op /\ f[i].kinds = kinds
<1>1. a \in Nat /\ d \in Nat /\ za \in Nat /\ zd \in Nat
  BY FullForm
<1>2. f \in Seq(StepSet) /\ Len(f) = 2 + a + d + za + zd
  BY FullForm
<1>3. In(1, "sets", OnRecords) /\ f[1].sets = c.sets /\ In(2, "sets", OnZones) /\ f[2].sets = c.sets
  BY FullForm DEF IsStep
<1>4. /\ \A i \in 1 .. a : In(2 + i, "enable", OnRecords)
      /\ \A i \in 1 .. d : In(2 + a + i, "disable", OnRecords)
      /\ \A i \in 1 .. za : In(2 + a + d + i, "enable", OnZones)
      /\ \A i \in 1 .. zd : In(2 + a + d + za + i, "disable", OnZones)
  <2>1. /\ \A i \in 1 .. a : IsStep(f[2 + i], "enable", OnRecords, c.add[i].key, c.add[i].id)
        /\ \A i \in 1 .. d :
             IsStep(f[2 + a + i], "disable", OnRecords, c.drop[i].key, c.drop[i].id)
        /\ \A i \in 1 .. za :
             IsStep(f[2 + a + d + i], "enable", OnZones, c.zadd[i].key, c.zadd[i].id)
        /\ \A i \in 1 .. zd :
             IsStep(f[2 + a + d + za + i], "disable", OnZones, c.zdrop[i].key, c.zdrop[i].id)
    BY FullForm
  <2> HIDE DEF f, a, d, za, zd
  <2> QED  BY <2>1 DEF IsStep
<1> HIDE DEF f, a, d, za, zd, In
<1>5. ASSUME NEW i \in 1 .. Len(f)
      PROVE  \/ i = 1 /\ In(i, "sets", OnRecords)
             \/ i = 2 /\ In(i, "sets", OnZones)
             \/ i > 2 /\ i <= 2 + a /\ In(i, "enable", OnRecords)
             \/ i > 2 + a /\ i <= 2 + a + d /\ In(i, "disable", OnRecords)
             \/ i > 2 + a + d /\ i <= 2 + a + d + za /\ In(i, "enable", OnZones)
             \/ i > 2 + a + d + za /\ In(i, "disable", OnZones)
  <2>1. CASE i <= 2
    BY <1>1, <1>2, <1>3, <2>1
  <2>2. CASE i > 2 /\ i <= 2 + a
    <3>1. i - 2 \in 1 .. a /\ 2 + (i - 2) = i
      BY <1>1, <2>2
    <3>2. In(2 + (i - 2), "enable", OnRecords)
      BY <1>4, <3>1
    <3> QED  BY <2>2, <3>1, <3>2
  <2>3. CASE i > 2 + a /\ i <= 2 + a + d
    <3>1. i - 2 - a \in 1 .. d /\ 2 + a + (i - 2 - a) = i
      BY <1>1, <2>3
    <3>2. In(2 + a + (i - 2 - a), "disable", OnRecords)
      BY <1>4, <3>1
    <3> QED  BY <2>3, <3>1, <3>2
  <2>4. CASE i > 2 + a + d /\ i <= 2 + a + d + za
    <3>1. i - 2 - a - d \in 1 .. za /\ 2 + a + d + (i - 2 - a - d) = i
      BY <1>1, <2>4
    <3>2. In(2 + a + d + (i - 2 - a - d), "enable", OnZones)
      BY <1>4, <3>1
    <3> QED  BY <2>4, <3>1, <3>2
  <2>5. CASE i > 2 + a + d + za
    <3>1. i - 2 - a - d - za \in 1 .. zd /\ 2 + a + d + za + (i - 2 - a - d - za) = i
      BY <1>1, <1>2, <2>5
    <3>2. In(2 + a + d + za + (i - 2 - a - d - za), "disable", OnZones)
      BY <1>4, <3>1
    <3> QED  BY <2>5, <3>1, <3>2
  <2> QED  BY <1>1, <1>2, <2>1, <2>2, <2>3, <2>4, <2>5
<1>6. OnRecords # OnZones
  BY DEF OnRecords, OnZones
<1>7. Len(f) \in Nat /\ 1 \in 1 .. Len(f) /\ 2 \in 1 .. Len(f)
  BY <1>1, <1>2
<1>8. ASSUME NEW i \in 1 .. Len(f)
      PROVE  /\ f[i].op \in {"sets", "enable", "disable"}
             /\ f[i].kinds \in {OnRecords, OnZones}
             /\ f[i].op = "sets" => f[i].sets = c.sets
  BY <1>3, <1>5 DEF In
<1>9. ASSUME NEW i \in 1 .. Len(f), NEW j \in 1 .. Len(f), f[i].kinds = f[j].kinds
      PROVE  /\ f[i].op = "sets" /\ i # j => i < j /\ f[j].op # "sets"
             /\ f[i].op = "enable" /\ f[j].op = "disable" => i < j
  <2>1. /\ f[i].op = "sets" => i = IF f[i].kinds = OnRecords THEN 1 ELSE 2
        /\ f[j].op = "sets" => j = IF f[j].kinds = OnRecords THEN 1 ELSE 2
        /\ f[j].kinds = OnZones => j >= 2
    BY <1>1, <1>5, <1>6 DEF In
  <2>2. /\ f[i].op = "enable" => i <= IF f[i].kinds = OnRecords THEN 2 + a ELSE 2 + a + d + za
        /\ f[j].op = "disable" => j > IF f[j].kinds = OnRecords THEN 2 + a ELSE 2 + a + d + za
    BY <1>1, <1>5, <1>6 DEF In
  <2> QED  BY <1>1, <1>7, <1>8, <1>9, <2>1, <2>2
<1>10. \A kinds \in {OnRecords, OnZones} : \E i \in 1 .. Len(f) :
         f[i].op = "sets" /\ f[i].kinds = kinds
  BY <1>3, <1>7 DEF In
<1> QED  BY <1>2, <1>7, <1>8, <1>9, <1>10 DEF f

LEMMA PairsIn ==
  ASSUME NEW s \in Seq(Request), NEW key, NEW id
  PROVE  [key |-> key, id |-> id] \in Pairs(s)
           <=> \E i \in 1 .. Len(s) : s[i].key = key /\ s[i].id = id
<1>1. ToSet(s) = {s[i] : i \in 1 .. Len(s)}
  BY LenProperties DEF ToSet
<1>2. Pairs(s) = {[key |-> p.key, id |-> p.id] : p \in ToSet(s)}
  BY DEF Pairs
<1>3. ASSUME NEW p, [key |-> key, id |-> id] = [key |-> p.key, id |-> p.id]
      PROVE  p.key = key /\ p.id = id
  BY <1>3
<1>4. [key |-> key, id |-> id] \in Pairs(s) <=>
        \E i \in 1 .. Len(s) : [key |-> key, id |-> id] = [key |-> s[i].key, id |-> s[i].id]
  BY <1>1, <1>2
<1>5. \A i \in 1 .. Len(s) : s[i].key = key /\ s[i].id = id
        => [key |-> key, id |-> id] = [key |-> s[i].key, id |-> s[i].id]
  OBVIOUS
<1>6. \A i \in 1 .. Len(s) : [key |-> key, id |-> id] = [key |-> s[i].key, id |-> s[i].id]
        => s[i].key = key /\ s[i].id = id
  BY <1>3
<1> QED  BY <1>4, <1>5, <1>6

(* The names that Full enables and disables are those of the configuration. *)
LEMMA FullNames ==
  ASSUME NEW c \in Configs, NEW key, NEW id
  PROVE  /\ (\E i \in 1 .. Len(Full(c)) : IsEnabledBy(Full(c)[i], OnRecords, key, id))
              <=> [key |-> key, id |-> id] \in Pairs(c.add)
         /\ (\E i \in 1 .. Len(Full(c)) : IsEnabledBy(Full(c)[i], OnZones, key, id))
              <=> [key |-> key, id |-> id] \in Pairs(c.zadd)
         /\ (\E i \in 1 .. Len(Full(c)) : IsDisabledBy(Full(c)[i], OnRecords, key, id))
              <=> Drops(c.drop, key, id)
         /\ (\E i \in 1 .. Len(Full(c)) : IsDisabledBy(Full(c)[i], OnZones, key, id))
              <=> Drops(c.zdrop, key, id)
<1> DEFINE f == Full(c)
           a == Len(c.add)
           d == Len(c.drop)
           za == Len(c.zadd)
           zd == Len(c.zdrop)
<1>1. a \in Nat /\ d \in Nat /\ za \in Nat /\ zd \in Nat
  BY FullForm
<1>2. f \in Seq(StepSet) /\ Len(f) = 2 + a + d + za + zd
  BY FullForm
<1>3. f[1].op = "sets" /\ f[2].op = "sets"
  BY FullForm
<1>4. /\ \A i \in 1 .. a : IsStep(f[2 + i], "enable", OnRecords, c.add[i].key, c.add[i].id)
      /\ \A i \in 1 .. d :
           IsStep(f[2 + a + i], "disable", OnRecords, c.drop[i].key, c.drop[i].id)
      /\ \A i \in 1 .. za :
           IsStep(f[2 + a + d + i], "enable", OnZones, c.zadd[i].key, c.zadd[i].id)
      /\ \A i \in 1 .. zd :
           IsStep(f[2 + a + d + za + i], "disable", OnZones, c.zdrop[i].key, c.zdrop[i].id)
  BY FullForm
<1>5. OnRecords # OnZones
  BY DEF OnRecords, OnZones
<1>6. \A s \in {c.add, c.drop, c.zadd, c.zdrop} : s \in Seq(Request)
  BY FullForm
<1>7. /\ [key |-> key, id |-> id] \in Pairs(c.add)
           <=> \E i \in 1 .. a : c.add[i].key = key /\ c.add[i].id = id
      /\ [key |-> key, id |-> id] \in Pairs(c.zadd)
           <=> \E i \in 1 .. za : c.zadd[i].key = key /\ c.zadd[i].id = id
      /\ Drops(c.drop, key, id)
           <=> \E i \in 1 .. d : c.drop[i].key \in {All, key} /\ c.drop[i].id = id
      /\ Drops(c.zdrop, key, id)
           <=> \E i \in 1 .. zd : c.zdrop[i].key \in {All, key} /\ c.zdrop[i].id = id
  <2>1. \A s \in {c.add, c.drop, c.zadd, c.zdrop}, k \in {All, key} :
          [key |-> k, id |-> id] \in Pairs(s)
            <=> \E i \in 1 .. Len(s) : s[i].key = k /\ s[i].id = id
    <3> SUFFICES ASSUME NEW s \in {c.add, c.drop, c.zadd, c.zdrop}, NEW k
                 PROVE  [key |-> k, id |-> id] \in Pairs(s)
                          <=> \E i \in 1 .. Len(s) : s[i].key = k /\ s[i].id = id
      OBVIOUS
    <3>1. s \in Seq(Request)
      BY <1>6
    <3> QED  BY <3>1, PairsIn
  <2> QED  BY <2>1 DEF Drops
<1> HIDE DEF f, a, d, za, zd
<1>8. ASSUME NEW i \in 1 .. Len(f)
      PROVE  \/ f[i].op = "sets"
             \/ \E j \in 1 .. a :
                  IsStep(f[i], "enable", OnRecords, c.add[j].key, c.add[j].id)
             \/ \E j \in 1 .. d :
                  IsStep(f[i], "disable", OnRecords, c.drop[j].key, c.drop[j].id)
             \/ \E j \in 1 .. za :
                  IsStep(f[i], "enable", OnZones, c.zadd[j].key, c.zadd[j].id)
             \/ \E j \in 1 .. zd :
                  IsStep(f[i], "disable", OnZones, c.zdrop[j].key, c.zdrop[j].id)
  <2>1. CASE i <= 2
    BY <1>3, <2>1
  <2>2. CASE i > 2 /\ i <= 2 + a
    <3>1. i - 2 \in 1 .. a /\ i = 2 + (i - 2)
      BY <1>1, <2>2
    <3> QED  BY <1>4, <3>1
  <2>3. CASE i > 2 + a /\ i <= 2 + a + d
    <3>1. i - 2 - a \in 1 .. d /\ i = 2 + a + (i - 2 - a)
      BY <1>1, <2>3
    <3> QED  BY <1>4, <3>1
  <2>4. CASE i > 2 + a + d /\ i <= 2 + a + d + za
    <3>1. i - 2 - a - d \in 1 .. za /\ i = 2 + a + d + (i - 2 - a - d)
      BY <1>1, <2>4
    <3> QED  BY <1>4, <3>1
  <2>5. CASE i > 2 + a + d + za
    <3>1. i - 2 - a - d - za \in 1 .. zd /\ i = 2 + a + d + za + (i - 2 - a - d - za)
      BY <1>1, <1>2, <2>5
    <3> QED  BY <1>4, <3>1
  <2> QED  BY <1>1, <1>2, <2>1, <2>2, <2>3, <2>4, <2>5
<1>9. /\ \A j \in 1 .. a : \E i \in 1 .. Len(f) :
           IsStep(f[i], "enable", OnRecords, c.add[j].key, c.add[j].id)
      /\ \A j \in 1 .. d : \E i \in 1 .. Len(f) :
           IsStep(f[i], "disable", OnRecords, c.drop[j].key, c.drop[j].id)
      /\ \A j \in 1 .. za : \E i \in 1 .. Len(f) :
           IsStep(f[i], "enable", OnZones, c.zadd[j].key, c.zadd[j].id)
      /\ \A j \in 1 .. zd : \E i \in 1 .. Len(f) :
           IsStep(f[i], "disable", OnZones, c.zdrop[j].key, c.zdrop[j].id)
  <2>1. /\ \A j \in 1 .. a : 2 + j \in 1 .. Len(f)
        /\ \A j \in 1 .. d : 2 + a + j \in 1 .. Len(f)
        /\ \A j \in 1 .. za : 2 + a + d + j \in 1 .. Len(f)
        /\ \A j \in 1 .. zd : 2 + a + d + za + j \in 1 .. Len(f)
    BY <1>1, <1>2
  <2> QED  BY <1>4, <2>1
<1>10. (\E i \in 1 .. Len(f) : IsEnabledBy(f[i], OnRecords, key, id))
         <=> \E i \in 1 .. a : c.add[i].key = key /\ c.add[i].id = id
  BY <1>5, <1>8, <1>9 DEF IsEnabledBy, IsStep
<1>11. (\E i \in 1 .. Len(f) : IsEnabledBy(f[i], OnZones, key, id))
         <=> \E i \in 1 .. za : c.zadd[i].key = key /\ c.zadd[i].id = id
  <2>1. ASSUME NEW i \in 1 .. Len(f), IsEnabledBy(f[i], OnZones, key, id)
        PROVE  \E j \in 1 .. za : c.zadd[j].key = key /\ c.zadd[j].id = id
    BY <1>5, <1>8, <2>1 DEF IsEnabledBy, IsStep
  <2>2. ASSUME NEW j \in 1 .. za, c.zadd[j].key = key, c.zadd[j].id = id
        PROVE  \E i \in 1 .. Len(f) : IsEnabledBy(f[i], OnZones, key, id)
    BY <1>9, <2>2 DEF IsEnabledBy, IsStep
  <2> QED  BY <2>1, <2>2
<1>12. (\E i \in 1 .. Len(f) : IsDisabledBy(f[i], OnRecords, key, id))
         <=> \E i \in 1 .. d : c.drop[i].key \in {All, key} /\ c.drop[i].id = id
  BY <1>5, <1>8, <1>9 DEF IsDisabledBy, IsStep
<1>13. (\E i \in 1 .. Len(f) : IsDisabledBy(f[i], OnZones, key, id))
         <=> \E i \in 1 .. zd : c.zdrop[i].key \in {All, key} /\ c.zdrop[i].id = id
  BY <1>5, <1>8, <1>9 DEF IsDisabledBy, IsStep
<1> QED  BY <1>7, <1>10, <1>11, <1>12, <1>13 DEF f

LEMMA RegisteringSeq ==
  ASSUME NEW c \in Configs
  PROVE  /\ Registering(c) \in Seq(StepSet)
         /\ \A i \in 1 .. Len(Registering(c)) : Registers1(Registering(c)[i])
<1> DEFINE imports == IF c.imports \in imported THEN << >> ELSE c.imports
           r1 == Registers("register", imports)
           r2 == Registers("replace", c.custom)
<1>1. /\ imports \in Seq(Registration) /\ c.custom \in Seq(Registration)
      /\ OfAll(imports) /\ OfAll(c.custom)
  BY ConfigsAssumption, ZonesAssumption DEF OfAll
<1>2. ASSUME NEW op \in {"register", "replace"}, NEW s \in Seq(Registration), OfAll(s)
      PROVE  /\ Registers(op, s) \in Seq(StepSet) /\ Len(Registers(op, s)) \in Nat
             /\ \A i \in 1 .. Len(Registers(op, s)) : Registers1(Registers(op, s)[i])
  <2>1. Registers(op, s) \in Seq(StepSet) /\ Len(Registers(op, s)) = Len(s)
    BY <1>2, RegistersSeq
  <2>2. DOMAIN s = 1 .. Len(s) /\ Len(s) \in Nat
    BY LenProperties
  <2>3. \A i \in DOMAIN s : Registers(op, s)[i].op = op
    BY DEF Registers, Step
  <2> QED  BY <2>1, <2>2, <2>3 DEF Registers1
<1>3. /\ r1 \in Seq(StepSet) /\ Len(r1) \in Nat /\ \A i \in 1 .. Len(r1) : Registers1(r1[i])
      /\ r2 \in Seq(StepSet) /\ Len(r2) \in Nat /\ \A i \in 1 .. Len(r2) : Registers1(r2[i])
  BY <1>1, <1>2
<1>4. Registering(c) = r1 \o r2
  BY DEF Registering
<1> HIDE DEF imports, r1, r2
<1>5. /\ Registering(c) \in Seq(StepSet) /\ Len(Registering(c)) = Len(r1) + Len(r2)
      /\ \A i \in 1 .. Len(r1) : Registering(c)[i] = r1[i]
      /\ \A i \in 1 .. Len(r2) : Registering(c)[Len(r1) + i] = r2[i]
  BY <1>3, <1>4, Joined
<1>6. ASSUME NEW i \in 1 .. Len(Registering(c))
      PROVE  Registers1(Registering(c)[i])
  <2>1. CASE i <= Len(r1)
    BY <1>3, <1>5, <2>1
  <2>2. CASE i > Len(r1)
    <3>1. i - Len(r1) \in 1 .. Len(r2) /\ Len(r1) + (i - Len(r1)) = i
      BY <1>3, <1>5, <2>2
    <3>2. Registering(c)[Len(r1) + (i - Len(r1))] = r2[i - Len(r1)]
      BY <1>5, <3>1
    <3> QED  BY <1>3, <3>1, <3>2
  <2> QED  BY <1>3, <1>5, <2>1, <2>2
<1> QED  BY <1>5, <1>6

LEMMA MakeConfigured ==
  ASSUME ConfiguredInv, NEW c \in Configs, NewManager(c)
  PROVE  ConfiguredInv'
<1>1. /\ config' = {c} /\ UNCHANGED registry
      /\ todo' = Registering(c) \o Full(c)
  BY DEF NewManager, Make, Steps, Full
<1>2. /\ Registering(c) \in Seq(StepSet) /\ Len(Registering(c)) \in Nat
      /\ \A i \in 1 .. Len(Registering(c)) : Registers1(Registering(c)[i])
  BY RegisteringSeq, LenProperties
<1>3. Full(c) \in Seq(StepSet) /\ Len(Full(c)) \in Nat
  BY FullShape
<1> DEFINE n == Len(Registering(c))
<1>4. /\ Len(todo') = n + Len(Full(c))
      /\ \A i \in 1 .. n : todo'[i] = Registering(c)[i]
      /\ \A i \in 1 .. Len(Full(c)) : todo'[n + i] = Full(c)[i]
  BY <1>1, <1>2, <1>3, Joined
<1>5. Ahead(c)' = n /\ n \in Nat
  BY <1>2, <1>3, <1>4 DEF Ahead
<1>6. ASSUME NEW i \in 1 .. Len(todo')
      PROVE  /\ i <= n => Registers1(todo'[i])
             /\ i > n => todo'[i] = Full(c)[i - n]
  <2>1. CASE i <= n
    BY <1>2, <1>4, <2>1
  <2>2. CASE i > n
    <3>1. i - n \in 1 .. Len(Full(c)) /\ n + (i - n) = i
      BY <1>3, <1>4, <1>5, <2>2
    <3> QED  BY <1>4, <2>2, <3>1
  <2> QED  BY <1>5, <2>1, <2>2
<1>7. Aligned(c)'
  BY <1>5, <1>6 DEF Aligned
<1>8. DoneSteps(c)' = {}
  BY <1>3, <1>5 DEF DoneSteps
<1>9. ActiveSoFar(c, OnRecords)' /\ ActiveSoFar(c, OnZones)'
  BY <1>8 DEF ActiveSoFar, HasDone
<1> QED  BY <1>1, <1>7, <1>9 DEF ConfiguredInv, Underway, IsKinded, registry

(* A step of Full is done after those before it. *)
LEMMA NextStep ==
  ASSUME NEW c \in Configs, Aligned(c), todo \in Seq(StepSet), todo # << >>, todo' = Tail(todo)
  PROVE  /\ Aligned(c)'
         /\ Registers1(Now) => DoneSteps(c)' = {}
         /\ ~Registers1(Now) => \E n \in 1 .. Len(Full(c)) :
              /\ Now = Full(c)[n]
              /\ DoneSteps(c)' = DoneSteps(c) \cup {Now}
              /\ \A t \in DoneSteps(c) : \E j \in 1 .. Len(Full(c)) : j < n /\ t = Full(c)[j]
<1> DEFINE f == Full(c)
           n == 1 - Ahead(c)
<1>1. /\ Now = todo[1] /\ Len(todo) \in Nat \ {0} /\ Len(todo') = Len(todo) - 1
      /\ \A i \in 1 .. Len(todo') : todo'[i] = todo[i + 1]
  BY HeadTailProperties DEF Now
<1>2. Len(f) \in Nat /\ \A i \in 1 .. Len(f) : f[i].op \in {"sets", "enable", "disable"}
  BY FullShape
<1>3. Ahead(c) \in Int /\ Ahead(c)' = Ahead(c) - 1 /\ Len(todo) = Ahead(c) + Len(f)
  BY <1>1, <1>2 DEF Ahead
<1>4. /\ DoneSteps(c) = {f[i] : i \in {i \in 1 .. Len(f) : i + Ahead(c) <= 0}}
      /\ DoneSteps(c)' = {f[i] : i \in {i \in 1 .. Len(f) : i + Ahead(c)' <= 0}}
      /\ \A i \in 1 .. Len(todo) :
           /\ i <= Ahead(c) => Registers1(todo[i])
           /\ i > Ahead(c) => todo[i] = f[i - Ahead(c)]
  BY DEF DoneSteps, Aligned
<1> HIDE DEF f
<1>5. Aligned(c)'
  <2>1. ASSUME NEW i \in 1 .. Len(todo')
        PROVE  /\ i <= Ahead(c)' => Registers1(todo'[i])
               /\ i > Ahead(c)' => todo'[i] = f[i - Ahead(c)']
    <3> HIDE DEF n
    <3>1. PICK j \in 1 .. Len(todo) : j = i + 1
      BY <1>1
    <3>2. i \in Int /\ j \in Int /\ todo'[i] = todo[j]
      BY <1>1, <3>1
    <3>3. /\ j <= Ahead(c) => Registers1(todo[j])
          /\ j > Ahead(c) => todo[j] = f[j - Ahead(c)]
      BY <1>4
    <3>4. (j <= Ahead(c) <=> i <= Ahead(c)') /\ (j > Ahead(c) <=> i > Ahead(c)')
      BY <1>3, <3>1, <3>2
    <3>5. j - Ahead(c) = i - Ahead(c)'
      BY <1>3, <3>1, <3>2
    <3> QED  BY <3>2, <3>3, <3>4, <3>5
  <2> QED  BY <2>1 DEF Aligned, f
<1>6. /\ 1 <= Ahead(c) => Registers1(Now)
      /\ 1 > Ahead(c) => Now = f[n] /\ n \in 1 .. Len(f)
  <2>1. 1 \in 1 .. Len(todo)
    BY <1>1
  <2> QED  BY <1>1, <1>3, <1>4, <2>1
<1>7. ASSUME Registers1(Now) PROVE DoneSteps(c)' = {}
  <2>1. 1 <= Ahead(c)
    BY <1>2, <1>3, <1>6, <1>7 DEF Registers1
  <2>2. \A i \in 1 .. Len(f) : ~(i + Ahead(c)' <= 0)
    BY <1>2, <1>3, <2>1
  <2> QED  BY <1>4, <2>2
<1>8. ASSUME ~Registers1(Now)
      PROVE  /\ n \in 1 .. Len(f) /\ Now = f[n]
             /\ DoneSteps(c)' = DoneSteps(c) \cup {Now}
             /\ \A t \in DoneSteps(c) : \E j \in 1 .. Len(f) : j < n /\ t = f[j]
  <2>1. n \in 1 .. Len(f) /\ Now = f[n]
    BY <1>3, <1>6, <1>8
  <2>2. \A i \in 1 .. Len(f) : /\ (i + Ahead(c)' <= 0 <=> i + Ahead(c) <= 0 \/ i = n)
                               /\ (i + Ahead(c) <= 0 => i < n)
    BY <1>2, <1>3
  <2> HIDE DEF n
  <2>3. DoneSteps(c)' = DoneSteps(c) \cup {Now}
    BY <1>4, <2>1, <2>2
  <2> QED  BY <1>4, <2>1, <2>2, <2>3
<1> QED  BY <1>5, <1>7, <1>8 DEF f

(* A step for other kinds changes nothing. *)
LEMMA OtherKinds ==
  ASSUME NEW c \in Configs, NEW kinds, ActiveSoFar(c, kinds), Now.kinds # kinds,
         DoneSteps(c)' = DoneSteps(c) \cup {Now},
         \A k \in kinds : active'[k] = active[k] /\ available'[k] = available[k],
         \A k \in kinds \cap {"record", "zone"} : configured'[k] = configured[k]
  PROVE  ActiveSoFar(c, kinds)'
<1>1. HasDone(c, "sets", kinds)' <=> HasDone(c, "sets", kinds)
  BY DEF HasDone
<1>2. \A key, id :
        /\ (\E t \in DoneSteps(c)' : IsEnabledBy(t, kinds, key, id))
             <=> \E t \in DoneSteps(c) : IsEnabledBy(t, kinds, key, id)
        /\ (\E t \in DoneSteps(c)' : IsDisabledBy(t, kinds, key, id))
             <=> \E t \in DoneSteps(c) : IsDisabledBy(t, kinds, key, id)
  BY DEF IsEnabledBy, IsDisabledBy
<1>3. \A key, id :
        /\ ActiveIn(kinds, key, id)' <=> ActiveIn(kinds, key, id)
        /\ SelectedIn(kinds, key, id, c.sets)' <=> SelectedIn(kinds, key, id, c.sets)
  BY DEF ActiveIn, SelectedIn
<1> QED  BY <1>1, <1>2, <1>3 DEF ActiveSoFar, AskedSoFar

LEMMA SetsActive ==
  ASSUME Inv, ConfiguredInv, NEW c \in Configs, Underway(c), EnableSets
  PROVE  Underway(c)'
<1>1. /\ todo # << >> /\ Now.op = "sets" /\ WithSets(Now.kinds, Now.sets)
      /\ todo' = Tail(todo) /\ config' = config /\ available' = available
  BY DEF EnableSets, Doing, Done, progress, WithSets
<1>2. ~Registers1(Now) /\ Aligned(c) /\ todo \in Seq(StepSet)
  BY <1>1 DEF Registers1, Underway, Inv, Shape
<1>3. Aligned(c)'
  BY <1>1, <1>2, NextStep
<1>4. PICK n \in 1 .. Len(Full(c)) :
        /\ Now = Full(c)[n]
        /\ DoneSteps(c)' = DoneSteps(c) \cup {Now}
        /\ \A t \in DoneSteps(c) : \E j \in 1 .. Len(Full(c)) : j < n /\ t = Full(c)[j]
  BY <1>1, <1>2, NextStep
<1>5. Now.kinds \in {OnRecords, OnZones} /\ Now.sets = c.sets
  BY <1>1, <1>4, FullShape
<1>6. \A t \in DoneSteps(c) : t.kinds # Now.kinds
  <2> SUFFICES ASSUME NEW t \in DoneSteps(c), t.kinds = Now.kinds PROVE FALSE
    OBVIOUS
  <2>1. PICK j \in 1 .. Len(Full(c)) : j < n /\ t = Full(c)[j]
    BY <1>4
  <2>2. n < j
    BY <1>1, <1>4, <2>1, FullShape
  <2> QED  BY <2>1, <2>2, FullShape
<1>7. ASSUME NEW kinds, kinds = Now.kinds
      PROVE  ActiveSoFar(c, kinds)'
  <2>1. \A key, id :
          /\ ~\E t \in DoneSteps(c)' : IsEnabledBy(t, kinds, key, id)
          /\ ~\E t \in DoneSteps(c)' : IsDisabledBy(t, kinds, key, id)
    BY <1>1, <1>4, <1>6, <1>7 DEF IsEnabledBy, IsDisabledBy
  <2>2. /\ \A k \in kinds : active'[k] = Selected(available[k], c.sets)
        /\ \A k \in kinds \cap {"record", "zone"} : configured'[k]
    BY <1>1, <1>5, <1>7 DEF WithSets, OnRecords, OnZones, Kinds
  <2>3. \A key, id : ActiveIn(kinds, key, id)' <=> SelectedIn(kinds, key, id, c.sets)'
    BY <1>1, <2>2 DEF ActiveIn, SelectedIn
  <2> QED  BY <2>1, <2>2, <2>3 DEF ActiveSoFar, AskedSoFar
<1>8. ASSUME NEW kinds \in {OnRecords, OnZones}, kinds # Now.kinds
      PROVE  ActiveSoFar(c, kinds)'
  <2>1. \A k \in kinds : k \in Kinds /\ k \notin Now.kinds
    BY <1>5, <1>8 DEF OnRecords, OnZones, Kinds
  <2>2. /\ \A k \in kinds : active'[k] = active[k]
        /\ \A k \in kinds \cap {"record", "zone"} : configured'[k] = configured[k]
    BY <1>1, <2>1 DEF WithSets, Inv, Shape
  <2> QED  BY <1>1, <1>4, <1>8, <2>2, OtherKinds DEF Underway
<1>9. \A kinds \in {OnRecords, OnZones} : ActiveSoFar(c, kinds)'
  BY <1>7, <1>8
<1> QED  BY <1>1, <1>3, <1>9 DEF Underway

(* enable adds the name to its kinds, where nothing is disabled yet, *)
LEMMA EnableActive ==
  ASSUME Inv, ConfiguredInv, NEW c \in Configs, Underway(c), Enable
  PROVE  Underway(c)'
<1>1. /\ todo # << >> /\ Now.op = "enable" /\ todo' = Tail(todo) /\ config' = config
      /\ UNCHANGED <<available, configured>>
  BY DEF Enable, Doing, Done, progress
<1>2. ~Registers1(Now) /\ Aligned(c) /\ todo \in Seq(StepSet)
  BY <1>1 DEF Registers1, Underway, Inv, Shape
<1>3. Aligned(c)'
  BY <1>1, <1>2, NextStep
<1>4. PICK n \in 1 .. Len(Full(c)) :
        /\ Now = Full(c)[n]
        /\ DoneSteps(c)' = DoneSteps(c) \cup {Now}
        /\ \A t \in DoneSteps(c) : \E j \in 1 .. Len(Full(c)) : j < n /\ t = Full(c)[j]
  BY <1>1, <1>2, NextStep
<1>5. Now.kinds \in {OnRecords, OnZones}
  BY <1>4, FullShape
<1>6. \A t \in DoneSteps(c) : t.kinds = Now.kinds => t.op # "disable"
  <2> SUFFICES ASSUME NEW t \in DoneSteps(c), t.kinds = Now.kinds, t.op = "disable"
               PROVE  FALSE
    OBVIOUS
  <2>1. PICK j \in 1 .. Len(Full(c)) : j < n /\ t = Full(c)[j]
    BY <1>4
  <2>2. n < j
    BY <1>1, <1>4, <2>1, FullShape
  <2> QED  BY <2>1, <2>2, FullShape
<1>7. PICK e \in Found(Now.kinds, Now.id) :
        active' = [active EXCEPT
          ![e.val.kind] = Activate(@, [key |-> Now.key, val |-> e.val])]
  BY DEF Enable
<1>8. e.val.id = Now.id /\ e.val.kind \in Now.kinds
  <2>1. ASSUME NEW k \in Kinds, e \in FirstOf(available[k], Now.id)
        PROVE  e.val.id = Now.id /\ e.val.kind = k
    <3>1. PICK i \in DOMAIN available[k] : e = available[k][i] /\ e.val.id = Now.id
      BY <2>1 DEF FirstOf
    <3>2. DOMAIN available[k] = 1 .. Len(available[k])
      BY LenProperties DEF Inv, Shape
    <3> QED  BY <3>1, <3>2 DEF ConfiguredInv, IsKinded, Suits
  <2>2. {"record", "value", "zone"} = Kinds /\ OnRecords = {"record", "value"} /\ OnZones = {"zone"}
    BY DEF Kinds, OnRecords, OnZones
  <2>3. \E k \in Now.kinds : e \in FirstOf(available[k], Now.id)
    BY <1>5, <1>7, <2>2 DEF Found
  <2> QED  BY <1>5, <2>1, <2>2, <2>3
<1>9. Now.kinds \subseteq Kinds /\ active \in [Kinds -> SUBSET Registration]
  BY <1>5 DEF OnRecords, OnZones, Kinds, Inv, Shape
<1>10. ASSUME NEW kinds, kinds = Now.kinds, NEW key, NEW id
       PROVE  ActiveIn(kinds, key, id)'
                <=> ActiveIn(kinds, key, id) \/ (key = Now.key /\ id = Now.id)
  <2> DEFINE new == [key |-> Now.key, val |-> e.val]
  <2>1. /\ active'[e.val.kind] = Activate(active[e.val.kind], new)
        /\ \A k \in kinds : k # e.val.kind => active'[k] = active[k]
    BY <1>7, <1>8, <1>9, <1>10
  <2>2. new.key = Now.key /\ new.val.id = Now.id
    BY <1>8
  <2> HIDE DEF new
  <2>3. (\E f \in active'[e.val.kind] : f.key = key /\ f.val.id = id)
          <=> \/ \E f \in active[e.val.kind] : f.key = key /\ f.val.id = id
              \/ key = Now.key /\ id = Now.id
    BY <2>1, <2>2 DEF Activate
  <2> QED  BY <1>8, <1>10, <2>1, <2>3 DEF ActiveIn
<1>11. ASSUME NEW kinds, kinds = Now.kinds
       PROVE  ActiveSoFar(c, kinds)'
  <2>1. \A key, id :
          /\ ~\E t \in DoneSteps(c) : IsDisabledBy(t, kinds, key, id)
          /\ ~\E t \in DoneSteps(c)' : IsDisabledBy(t, kinds, key, id)
          /\ (\E t \in DoneSteps(c)' : IsEnabledBy(t, kinds, key, id))
               <=> \/ \E t \in DoneSteps(c) : IsEnabledBy(t, kinds, key, id)
                   \/ key = Now.key /\ id = Now.id
    BY <1>1, <1>4, <1>6, <1>11 DEF IsEnabledBy, IsDisabledBy
  <2>2. HasDone(c, "sets", kinds)' => HasDone(c, "sets", kinds)
    BY <1>1, <1>4 DEF HasDone
  <2>3. ActiveSoFar(c, kinds)
    BY <1>5, <1>11 DEF Underway
  <2>4. \A key, id : SelectedIn(kinds, key, id, c.sets)' <=> SelectedIn(kinds, key, id, c.sets)
    BY <1>1 DEF SelectedIn
  <2> QED  BY <1>1, <1>10, <1>11, <2>1, <2>2, <2>3, <2>4 DEF ActiveSoFar, AskedSoFar
<1>12. ASSUME NEW kinds \in {OnRecords, OnZones}, kinds # Now.kinds
       PROVE  ActiveSoFar(c, kinds)'
  <2>1. \A k \in kinds : k \in Kinds /\ k \notin Now.kinds
    BY <1>5, <1>12 DEF OnRecords, OnZones, Kinds
  <2>2. \A k \in kinds : active'[k] = active[k]
    BY <1>7, <1>8, <1>9, <2>1
  <2> QED  BY <1>1, <1>4, <1>12, <2>2, OtherKinds DEF Underway
<1>13. \A kinds \in {OnRecords, OnZones} : ActiveSoFar(c, kinds)'
  BY <1>11, <1>12
<1> QED  BY <1>1, <1>3, <1>13 DEF Underway

(* and disable takes it away, after all that enables it. *)
LEMMA DisableActive ==
  ASSUME Inv, ConfiguredInv, NEW c \in Configs, Underway(c), Disable
  PROVE  Underway(c)'
<1>1. /\ todo # << >> /\ Now.op = "disable" /\ todo' = Tail(todo) /\ config' = config
      /\ UNCHANGED <<available, configured>>
  BY DEF Disable, Doing, Done, progress
<1>2. ~Registers1(Now) /\ Aligned(c) /\ todo \in Seq(StepSet)
  BY <1>1 DEF Registers1, Underway, Inv, Shape
<1>3. Aligned(c)'
  BY <1>1, <1>2, NextStep
<1>4. PICK n \in 1 .. Len(Full(c)) :
        Now = Full(c)[n] /\ DoneSteps(c)' = DoneSteps(c) \cup {Now}
  BY <1>1, <1>2, NextStep
<1>5. Now.kinds \in {OnRecords, OnZones}
  BY <1>4, FullShape
<1>6. active' = [k \in Kinds |->
        IF k \in Now.kinds
          THEN {e \in active[k] : ~(e.val.id = Now.id /\ Now.key \in {All, e.key})}
          ELSE active[k]]
  BY DEF Disable
<1>7. ASSUME NEW kinds, kinds = Now.kinds
      PROVE  ActiveSoFar(c, kinds)'
  <2>1. \A key, id : ActiveIn(kinds, key, id)'
          <=> ActiveIn(kinds, key, id) /\ ~(id = Now.id /\ Now.key \in {All, key})
    <3>1. \A k \in kinds :
            active'[k] = {e \in active[k] : ~(e.val.id = Now.id /\ Now.key \in {All, e.key})}
      BY <1>5, <1>6, <1>7 DEF OnRecords, OnZones, Kinds
    <3> QED  BY <3>1 DEF ActiveIn
  <2>2. \A key, id :
          /\ (\E t \in DoneSteps(c)' : IsDisabledBy(t, kinds, key, id))
               <=> \/ \E t \in DoneSteps(c) : IsDisabledBy(t, kinds, key, id)
                   \/ id = Now.id /\ Now.key \in {All, key}
          /\ (\E t \in DoneSteps(c)' : IsEnabledBy(t, kinds, key, id))
               <=> \E t \in DoneSteps(c) : IsEnabledBy(t, kinds, key, id)
    BY <1>1, <1>4, <1>7 DEF IsEnabledBy, IsDisabledBy
  <2>3. HasDone(c, "sets", kinds)' => HasDone(c, "sets", kinds)
    BY <1>1, <1>4 DEF HasDone
  <2>4. ActiveSoFar(c, kinds)
    BY <1>5, <1>7 DEF Underway
  <2>5. \A key, id : SelectedIn(kinds, key, id, c.sets)' <=> SelectedIn(kinds, key, id, c.sets)
    BY <1>1 DEF SelectedIn
  <2> QED  BY <1>1, <2>1, <2>2, <2>3, <2>4, <2>5 DEF ActiveSoFar, AskedSoFar
<1>8. ASSUME NEW kinds \in {OnRecords, OnZones}, kinds # Now.kinds
      PROVE  ActiveSoFar(c, kinds)'
  <2>1. \A k \in kinds : k \in Kinds /\ k \notin Now.kinds
    BY <1>5, <1>8 DEF OnRecords, OnZones, Kinds
  <2>2. \A k \in kinds : active'[k] = active[k]
    BY <1>6, <2>1
  <2> QED  BY <1>1, <1>4, <1>8, <2>2, OtherKinds DEF Underway
<1>9. \A kinds \in {OnRecords, OnZones} : ActiveSoFar(c, kinds)'
  BY <1>7, <1>8
<1> QED  BY <1>1, <1>3, <1>9 DEF Underway

-----------------------------------------------------------------------------
(* The other steps.  What is registered is registered before the sets, *)
LEMMA PutSuits ==
  ASSUME NEW s \in Seq(Registration), NEW e \in Registration, NEW k,
         \A i \in 1 .. Len(s) : Suits(s[i], k), Suits(e, k)
  PROVE  \A i \in 1 .. Len(Put(s, e)) : Suits(Put(s, e)[i], k)
<1>1. DOMAIN s = 1 .. Len(s) /\ Len(s) \in Nat
  BY LenProperties
<1>2. CASE HasId(s, e.key, e.val.id)
  <2>1. Put(s, e) = [i \in 1 .. Len(s) |->
          IF s[i].key = e.key /\ s[i].val.id = e.val.id THEN e ELSE s[i]]
    BY <1>1, <1>2 DEF Put
  <2>2. DOMAIN Put(s, e) = 1 .. Len(s)
    BY <2>1
  <2>3. Len(Put(s, e)) = Len(s)
    BY <1>1, <2>2, PutSeq, LenProperties
  <2> QED  BY <2>1, <2>3
<1>3. CASE ~HasId(s, e.key, e.val.id)
  BY <1>1, <1>3, AppendProperties DEF Put
<1> QED  BY <1>2, <1>3

LEMMA RegisterConfigured ==
  ASSUME Inv, ConfiguredInv, RegisterNew \/ Override
  PROVE  ConfiguredInv'
<1>1. /\ todo # << >> /\ Registers1(Now) /\ todo' = Tail(todo)
      /\ config' = config /\ raised' = raised
      /\ available' = [available EXCEPT
           ![Now.val.kind] = Put(@, [key |-> Now.key, val |-> Now.val])]
  BY DEF RegisterNew, Override, Doing, Done, progress, Registers1
<1>2. /\ Now.val \in Validator /\ Now.key \in Buckets
      /\ Now.val.kind = "zone" => Now.key = All
  BY <1>1, TakeStep DEF IsRegistration
<1>3. IsKinded'
  <2> DEFINE e == [key |-> Now.key, val |-> Now.val]
  <2>1. e \in Registration /\ Suits(e, Now.val.kind) /\ Now.val.kind \in Kinds
    BY <1>2, ValidatorAssumption DEF Registration, Suits
  <2> HIDE DEF e
  <2>2. available \in [Kinds -> Seq(Registration)]
    BY DEF Inv, Shape
  <2>3. available' = [available EXCEPT ![Now.val.kind] = Put(@, e)]
    BY <1>1 DEF e
  <2>4. ASSUME NEW k \in Kinds
        PROVE  \A i \in 1 .. Len(available'[k]) : Suits(available'[k][i], k)
    <3>1. \A i \in 1 .. Len(available[k]) : Suits(available[k][i], k)
      BY DEF ConfiguredInv, IsKinded
    <3>2. CASE k = Now.val.kind
      <4>1. available'[k] = Put(available[k], e) /\ available[k] \in Seq(Registration)
        BY <2>2, <2>3, <3>2
      <4> QED  BY <2>1, <3>1, <3>2, <4>1, PutSuits
    <3>3. CASE k # Now.val.kind
      <4>1. available'[k] = available[k]
        BY <2>2, <2>3, <3>3
      <4> QED  BY <3>1, <4>1
    <3> QED  BY <3>2, <3>3
  <2> QED  BY <2>4 DEF IsKinded
<1>4. ASSUME NEW c \in Configs, Underway(c)
      PROVE  Underway(c)'
  <2>1. Aligned(c) /\ todo \in Seq(StepSet)
    BY <1>4 DEF Underway, Inv, Shape
  <2>2. Aligned(c)' /\ DoneSteps(c)' = {}
    BY <1>1, <2>1, NextStep
  <2> QED  BY <1>1, <1>4, <2>2 DEF Underway, ActiveSoFar, HasDone
<1> QED  BY <1>1, <1>3, <1>4 DEF ConfiguredInv

LEMMA RaiseConfigured ==
  ASSUME ConfiguredInv, Raise
  PROVE  ConfiguredInv'
BY DEF ConfiguredInv, IsKinded, Raise, registry

(* and what is active is not touched after the configuration, since it      *)
(* leaves the registries configured.                                        *)
LEMMA AllDone ==
  ASSUME NEW c \in Configs, todo = << >>
  PROVE  /\ DoneSteps(c) = {Full(c)[i] : i \in 1 .. Len(Full(c))}
         /\ \A kinds \in {OnRecords, OnZones} : HasDone(c, "sets", kinds)
<1>1. Len(todo) = 0 /\ Len(Full(c)) \in Nat
  BY FullShape
<1>2. \A i \in 1 .. Len(Full(c)) : i + Ahead(c) <= 0
  BY <1>1 DEF Ahead
<1>3. DoneSteps(c) = {Full(c)[i] : i \in 1 .. Len(Full(c))}
  BY <1>2 DEF DoneSteps
<1> QED  BY <1>3, FullShape DEF HasDone

LEMMA UseConfigured ==
  ASSUME ConfiguredInv, Ready, UNCHANGED <<todo, progress>>, ProcessRecord \/ ProcessZone
  PROVE  ConfiguredInv'
<1>1. available' = available /\ config' = config /\ raised' = raised /\ todo' = todo
  BY DEF ProcessRecord, ProcessZone, WithSets, registry, progress
<1>2. ASSUME NEW c \in Configs, Underway(c)
      PROVE  Underway(c)'
  <2>1. configured["record"] /\ configured["zone"]
    <3>1. \A kinds \in {OnRecords, OnZones} : HasDone(c, "sets", kinds) /\ ActiveSoFar(c, kinds)
      BY <1>2, AllDone DEF Ready, Underway
    <3>2. \A kinds \in {OnRecords, OnZones} : \A k \in kinds \cap {"record", "zone"} : configured[k]
      BY <3>1 DEF ActiveSoFar
    <3> QED  BY <3>2 DEF OnRecords, OnZones
  <2>2. UNCHANGED registry
    BY <2>1 DEF ProcessRecord, ProcessZone
  <2> QED
    BY <1>1, <1>2, <2>2 DEF Underway, registry, Aligned, Ahead, ActiveSoFar, HasDone,
       DoneSteps, ActiveIn, AskedSoFar, SelectedIn
<1> QED  BY <1>1, <1>2 DEF ConfiguredInv, IsKinded

LEMMA InitConfigured ==
  ASSUME Init
  PROVE  ConfiguredInv
<1>1. available = Builtins /\ todo = << >> /\ config = {}
  BY DEF Init, RegistryInit
<1>2. \A k \in Kinds : \A i \in 1 .. Len(Builtins[k]) : Suits(Builtins[k][i], k)
  <2>1. \A k \in Kinds : DOMAIN Builtins[k] = 1 .. Len(Builtins[k])
    BY ConfigsAssumption, LenProperties
  <2> QED  BY <2>1, ConfigsAssumption, ZonesAssumption DEF OfAll, Suits
<1> QED  BY <1>1, <1>2 DEF ConfiguredInv, IsKinded

LEMMA ConfiguredInvHolds == Spec => []ConfiguredInv
<1>1. Init => ConfiguredInv
  BY InitConfigured
<1>2. Inv /\ ConfiguredInv /\ [Next]_vars => ConfiguredInv'
  <2> SUFFICES ASSUME Inv, ConfiguredInv, [Next]_vars PROVE ConfiguredInv'
    OBVIOUS
  <2>1. CASE \E c \in Configs : NewManager(c)
    BY <2>1, MakeConfigured
  <2>2. CASE Configure
    <3>1. CASE RegisterNew \/ Override
      BY <3>1, RegisterConfigured
    <3>2. CASE RegisterTwice \/ EnableUnknown \/ DisableBridge
      BY <3>2, RaiseConfigured DEF RegisterTwice, EnableUnknown, DisableBridge
    <3>3. CASE EnableSets \/ Enable \/ Disable
      <4>1. /\ todo # << >> /\ config' = config /\ raised' = raised /\ available' = available
        BY <3>3 DEF EnableSets, Enable, Disable, Doing, Done, progress, WithSets
      <4>2. ASSUME NEW c \in Configs, Underway(c) PROVE Underway(c)'
        BY <3>3, <4>2, SetsActive, EnableActive, DisableActive
      <4> QED  BY <4>1, <4>2 DEF ConfiguredInv, IsKinded
    <3> QED  BY <2>2, <3>1, <3>2, <3>3 DEF Configure
  <2>3. CASE \E r \in settings.sources : AddRecord(r)
    BY <2>3, UseConfigured DEF AddRecord
  <2>4. CASE Validate
    BY <2>4, UseConfigured DEF Validate
  <2>5. CASE UNCHANGED vvars
    <3>1. UNCHANGED <<available, active, configured, todo, config, raised>>
      BY <2>5 DEF vvars, registry, progress
    <3>2. ASSUME NEW c \in Configs, Underway(c) PROVE Underway(c)'
      BY <3>1, <3>2 DEF Underway, Aligned, Ahead, ActiveSoFar, HasDone, DoneSteps,
         ActiveIn, AskedSoFar, SelectedIn
    <3> QED  BY <3>1, <3>2 DEF ConfiguredInv, IsKinded
  <2> QED
    BY <2>1, <2>2, <2>3, <2>4, <2>5 DEF Next, vars, NewZone, AddUnknown
<1> QED  BY <1>1, <1>2, InvHolds, PTL DEF Spec

(* When all steps are done, what is active is what is Wanted. *)
LEMMA WantedWhenDone ==
  ASSUME Inv, NEW c \in Configs, Underway(c), todo = << >>, Config = c,
         NEW kinds, NEW add, NEW drop, NEW key \in Buckets, NEW id \in Id,
         \/ kinds = OnRecords /\ add = c.add /\ drop = c.drop
         \/ kinds = OnZones /\ add = c.zadd /\ drop = c.zdrop
  PROVE  ActiveIn(kinds, key, id) <=> Wanted(kinds, key, id, add, drop)
<1>1. /\ DoneSteps(c) = {Full(c)[i] : i \in 1 .. Len(Full(c))}
      /\ HasDone(c, "sets", kinds)
  BY AllDone
<1>2. ActiveIn(kinds, key, id) <=> AskedSoFar(c, kinds, key, id)
  BY <1>1 DEF Underway, ActiveSoFar
<1>3. /\ (\E t \in DoneSteps(c) : IsEnabledBy(t, kinds, key, id))
           <=> [key |-> key, id |-> id] \in Pairs(add)
      /\ (\E t \in DoneSteps(c) : IsDisabledBy(t, kinds, key, id)) <=> Drops(drop, key, id)
  <2>1. /\ (\E t \in DoneSteps(c) : IsEnabledBy(t, kinds, key, id))
             <=> \E i \in 1 .. Len(Full(c)) : IsEnabledBy(Full(c)[i], kinds, key, id)
        /\ (\E t \in DoneSteps(c) : IsDisabledBy(t, kinds, key, id))
             <=> \E i \in 1 .. Len(Full(c)) : IsDisabledBy(Full(c)[i], kinds, key, id)
    BY <1>1
  <2> QED  BY <2>1, FullNames
<1>4. SelectedIn(kinds, key, id, c.sets)
        <=> \E k \in kinds : \E e \in ToSet(available[k]) :
              e.key = key /\ e.val.id = id /\ InSets(e.val, Config.sets)
  BY DEF SelectedIn, Selected
<1> QED  BY <1>2, <1>3, <1>4 DEF AskedSoFar, Wanted

(* The zones' validators are in the bucket of every type. *)
LEMMA ZonesOfAll ==
  ASSUME Inv, ConfiguredInv, NEW c \in Configs, Underway(c), todo = << >>,
         NEW e \in active["zone"]
  PROVE  e.key = All
<1>1. e.key \in Buckets /\ e.val.id \in Id
  BY ValidatorAssumption DEF Inv, Shape, Kinds, Registration
<1>2. ActiveIn(OnZones, e.key, e.val.id)
  BY DEF ActiveIn, OnZones
<1>3. AskedSoFar(c, OnZones, e.key, e.val.id)
  BY <1>1, <1>2, AllDone DEF Underway, ActiveSoFar
<1>4. CASE SelectedIn(OnZones, e.key, e.val.id, c.sets)
  <2>1. PICK f \in ToSet(available["zone"]) : f.key = e.key
    BY <1>4 DEF SelectedIn, Selected, OnZones
  <2>2. ToSet(available["zone"]) = {available["zone"][i] : i \in 1 .. Len(available["zone"])}
    BY LenProperties DEF Inv, Shape, Kinds, ToSet
  <2> QED  BY <2>1, <2>2 DEF ConfiguredInv, IsKinded, Suits, Kinds
<1>5. CASE \E t \in DoneSteps(c) : IsEnabledBy(t, OnZones, e.key, e.val.id)
  <2>1. [key |-> e.key, id |-> e.val.id] \in Pairs(c.zadd)
    BY <1>5, AllDone, FullNames
  <2>2. c.zadd \in Seq(Request)
    BY ConfigsAssumption
  <2>3. PICK i \in 1 .. Len(c.zadd) : c.zadd[i].key = e.key
    BY <2>1, <2>2, PairsIn
  <2> QED  BY <2>2, <2>3, ZonesAssumption, LenProperties
<1> QED  BY <1>3, <1>4, <1>5 DEF AskedSoFar

(* ActiveAsConfigured: when a Manager has been made, exactly the validators *)
(* are active that its configuration asks for, whatever was registered and  *)
(* enabled before it in the process.                                        *)
THEOREM ConfigurationTakesEffect == Spec => []ActiveAsConfigured
<1>1. Inv /\ ConfiguredInv => ActiveAsConfigured
  <2> SUFFICES ASSUME Inv, ConfiguredInv, todo = << >>, ~raised, config # {}
               PROVE  /\ \A key \in Buckets, id \in Id :
                           (\E k \in OnRecords, e \in active["record"] \cup active["value"] :
                              e.key = key /\ e.val.id = id)
                           <=> Wanted(OnRecords, key, id, Config.add, Config.drop)
                      /\ \A id \in Id :
                           (\E e \in active["zone"] : e.val.id = id)
                           <=> Wanted(OnZones, All, id, Config.zadd, Config.zdrop)
    BY DEF ActiveAsConfigured, Ready
  <2>1. PICK c \in Configs : Underway(c)
    BY DEF ConfiguredInv
  <2>2. Config = c
    BY <2>1 DEF Underway, Config
  <2>3. \A key \in Buckets, id \in Id :
          ActiveIn(OnRecords, key, id) <=> Wanted(OnRecords, key, id, c.add, c.drop)
    BY <2>1, <2>2, WantedWhenDone
  <2>4. \A id \in Id : ActiveIn(OnZones, All, id) <=> Wanted(OnZones, All, id, c.zadd, c.zdrop)
    BY <2>1, <2>2, WantedWhenDone DEF Buckets
  <2>5. \A key, id :
          (\E k \in OnRecords, e \in active["record"] \cup active["value"] :
             e.key = key /\ e.val.id = id) <=> ActiveIn(OnRecords, key, id)
    BY DEF ActiveIn, OnRecords
  <2>6. \A id : (\E e \in active["zone"] : e.val.id = id) <=> ActiveIn(OnZones, All, id)
    <3>1. \A e \in active["zone"] : e.key = All
      BY <2>1, ZonesOfAll
    <3> QED  BY <3>1 DEF ActiveIn, OnZones
  <2> QED  BY <2>2, <2>3, <2>4, <2>5, <2>6
<1> QED  BY <1>1, InvHolds, ConfiguredInvHolds, PTL

-----------------------------------------------------------------------------
(* The loops of a zone.  Each order in which Zone.validate may walk it is a *)
(* list of all of its records, so that what holds of such lists holds of    *)
(* the zone.                                                                *)

ZoneInv == IsFiniteSet(zone) /\ IsKeyed(zone)

LEMMA ListOfSet ==
  ASSUME NEW S, IsFiniteSet(S), NEW f \in [1 .. Cardinality(S) -> S],
         \A i, j \in 1 .. Cardinality(S) : f[i] = f[j] => i = j
  PROVE  f \in Seq(S) /\ ToSet(f) = S
<1> DEFINE n == Cardinality(S)
<1>1. n \in Nat
  BY FS_CardinalityType
<1>2. IsFiniteSet(1 .. n) /\ Cardinality(1 .. n) = n
  BY <1>1, FS_Interval
<1>3. f \in Injection(1 .. n, S)
  BY DEF Injection, IsInjective
<1>4. f \in Surjection(1 .. n, S)
  BY <1>2, <1>3, FS_Injection
<1>5. \A x \in S : \E i \in 1 .. n : f[i] = x
  BY <1>4 DEF Surjection
<1> HIDE DEF n
<1>6. f \in Seq(S)
  BY <1>1, SeqDef DEF n
<1>7. ToSet(f) = S
  BY <1>5 DEF ToSet, n
<1> QED  BY <1>6, <1>7

LEMMA SetToSeqLists ==
  ASSUME NEW S, IsFiniteSet(S)
  PROVE  SetToSeq(S) \in Seq(S) /\ ToSet(SetToSeq(S)) = S
<1> DEFINE n == Cardinality(S)
<1>1. n \in Nat /\ ExistsBijection(1 .. n, S)
  BY FS_CardinalityType
<1>2. PICK f \in [1 .. n -> S] : IsInjective(f)
  BY <1>1 DEF ExistsBijection, Bijection, Injection
<1>3. SetToSeq(S) \in [1 .. n -> S] /\ IsInjective(SetToSeq(S))
  BY <1>2 DEF SetToSeq
<1>4. DOMAIN SetToSeq(S) = 1 .. n
  BY <1>3
<1>5. \A i, j \in 1 .. n : SetToSeq(S)[i] = SetToSeq(S)[j] => i = j
  BY <1>3, <1>4 DEF IsInjective
<1> QED  BY <1>3, <1>5, ListOfSet

LEMMA SeqIsList ==
  ASSUME NEW S, NEW s \in Seq(S)
  PROVE  IsList(s)
BY LenProperties DEF IsList

LEMMA ToSetJoined ==
  ASSUME NEW S, NEW p \in Seq(S), NEW q \in Seq(S)
  PROVE  p \o q \in Seq(S) /\ ToSet(p \o q) = ToSet(p) \cup ToSet(q)
<1> DEFINE m == Len(p)
           n == Len(q)
<1>1. /\ m \in Nat /\ n \in Nat /\ p \o q \in Seq(S) /\ Len(p \o q) = m + n
      /\ DOMAIN p = 1 .. m /\ DOMAIN q = 1 .. n /\ DOMAIN (p \o q) = 1 .. m + n
      /\ \A i \in 1 .. m + n : (p \o q)[i] = IF i <= m THEN p[i] ELSE q[i - m]
  BY ConcatProperties, LenProperties
<1> HIDE DEF m, n
<1>2. \A i \in 1 .. m : i \in 1 .. m + n /\ (p \o q)[i] = p[i]
  BY <1>1
<1>3. \A i \in 1 .. n : m + i \in 1 .. m + n /\ (p \o q)[m + i] = q[i]
  BY <1>1
<1>4. ASSUME NEW i \in 1 .. m + n
      PROVE  \/ i \in 1 .. m /\ (p \o q)[i] = p[i]
             \/ i - m \in 1 .. n /\ (p \o q)[i] = q[i - m]
  BY <1>1
<1>5. ToSet(p \o q) \subseteq ToSet(p) \cup ToSet(q)
  BY <1>1, <1>4 DEF ToSet
<1>6. ToSet(p) \subseteq ToSet(p \o q) /\ ToSet(q) \subseteq ToSet(p \o q)
  <2>1. ASSUME NEW x \in ToSet(p) PROVE x \in ToSet(p \o q)
    <3>1. PICK i \in 1 .. m : x = p[i]
      BY <1>1 DEF ToSet
    <3> QED  BY <1>1, <1>2, <3>1 DEF ToSet
  <2>2. ASSUME NEW x \in ToSet(q) PROVE x \in ToSet(p \o q)
    <3>1. PICK i \in 1 .. n : x = q[i]
      BY <1>1 DEF ToSet
    <3> QED  BY <1>1, <1>3, <3>1 DEF ToSet
  <2> QED  BY <2>1, <2>2
<1> QED  BY <1>1, <1>5, <1>6

LEMMA OrdersList ==
  ASSUME ZoneInv, NEW order \in Orders
  PROVE  IsList(order) /\ ToSet(order) = zone
<1> DEFINE aliases == {r \in zone : IsAlias(r)}
<1>1. PICK p \in SetToSeqs(aliases) : order = p \o SetToSeq(zone \ aliases)
  BY DEF Orders
<1>2. IsFiniteSet(aliases) /\ IsFiniteSet(zone \ aliases)
  BY FS_Subset DEF ZoneInv
<1>3. p \in Seq(aliases) /\ ToSet(p) = aliases
  <2> HIDE DEF aliases
  <2>1. /\ p \in [1 .. Cardinality(aliases) -> aliases]
        /\ \A i, j \in 1 .. Cardinality(aliases) : i # j => p[i] # p[j]
    BY <1>1 DEF SetToSeqs
  <2> QED  BY <1>2, <2>1, ListOfSet
<1>4. SetToSeq(zone \ aliases) \in Seq(zone \ aliases) /\ ToSet(SetToSeq(zone \ aliases)) = zone \ aliases
  BY <1>2, SetToSeqLists
<1>5. p \in Seq(zone) /\ SetToSeq(zone \ aliases) \in Seq(zone)
  <2>1. aliases \subseteq zone /\ zone \ aliases \subseteq zone
    OBVIOUS
  <2> HIDE DEF aliases
  <2> QED  BY <1>3, <1>4, <2>1, SeqMonotonic
<1>6. aliases \cup (zone \ aliases) = zone
  OBVIOUS
<1> DEFINE q == SetToSeq(zone \ aliases)
<1> HIDE DEF aliases, q
<1>7. order \in Seq(zone) /\ ToSet(order) = zone
  <2>1. order = p \o q /\ p \in Seq(zone) /\ q \in Seq(zone)
    BY <1>1, <1>5 DEF q
  <2>2. ToSet(p) = aliases /\ ToSet(q) = zone \ aliases
    BY <1>3, <1>4 DEF q
  <2>3. p \o q \in Seq(zone) /\ ToSet(p \o q) = ToSet(p) \cup ToSet(q)
    BY <2>1, ToSetJoined
  <2> QED  BY <1>6, <2>1, <2>2, <2>3
<1> QED  BY <1>7, SeqIsList

(* Where no name has two aliases, `targets` holds them all. *)
LEMMA DictIsAliases ==
  ASSUME ZoneInv, OneAliasEach, NEW order \in Orders
  PROVE  Dict(order) = Aliases
<1>1. IsList(order) /\ ToSet(order) = zone
  BY OrdersList
<1>2. Dict(order) \subseteq Aliases
  BY <1>1, AliasHeld DEF Dict, Aliases
<1>3. ASSUME NEW r \in Aliases PROVE r \in Dict(order)
  <2>1. PICK i \in 1 .. Len(order) : r = order[i]
    BY <1>1 DEF Aliases, ToSet, IsList
  <2>2. PICK s : s \in Alias(order, r.name)
    BY <1>1, <2>1, AliasHeld DEF Aliases
  <2>3. s.name = r.name /\ s \in Dict(order)
    BY <1>1, <2>2, AliasHeld
  <2>4. s = r
    BY <1>2, <2>3 DEF OneAliasEach
  <2> QED  BY <2>3, <2>4
<1> QED  BY <1>2, <1>3

LEMMA ZoneInvHolds == Spec => []ZoneInv
<1>1. Init => ZoneInv
  BY FS_EmptySet DEF Init, ZoneInv, IsKeyed
<1>2. ZoneInv /\ [Next]_vars => ZoneInv'
  <2> SUFFICES ASSUME ZoneInv, [Next]_vars PROVE ZoneInv'
    OBVIOUS
  <2>1. zone' = {} \/ zone' = zone \/ \E r : ~HasSame(zone, r) /\ zone' = zone \cup {r}
    BY DEF Next, vars, zvars, NewManager, NewZone, AddRecord, AddValid, AddInvalid,
           AddUnknown, Validate
  <2>2. \A S, x : IsFiniteSet(S) => IsFiniteSet(S \cup {x})
    BY FS_AddElement
  <2>3. IsFiniteSet({})
    BY FS_EmptySet
  <2>4. ASSUME NEW r, ~HasSame(zone, r), IsKeyed(zone) PROVE IsKeyed(zone \cup {r})
    BY <2>4 DEF IsKeyed, HasSame, SameRecord
  <2>5. IsKeyed({})
    BY DEF IsKeyed
  <2> QED  BY <2>1, <2>2, <2>3, <2>4, <2>5 DEF ZoneInv
<1> QED  BY <1>1, <1>2, PTL DEF Spec

(* LoopsFound: whatever records a zone has, with one alias for a name, and  *)
(* in whatever order they are walked, the validator reports each loop of    *)
(* aliases once and nothing else.                                           *)
THEOREM LoopsAreFound == Spec => []LoopsFound
<1>1. ZoneInv => LoopsFound
  BY OrdersList, DictIsAliases, EachLoopOnce DEF LoopsFound
<1> QED  BY <1>1, ZoneInvHolds, PTL

-----------------------------------------------------------------------------
(* The zones that passed: what passed stays as it was validated, so that    *)
(* what is active then has nothing against a record that is not lenient.    *)

PassedInv ==
  state = "valid" =>
    /\ todo = << >>
    /\ configured["zone"]
    /\ \E order \in Orders : Passes(order)

(* What is active for zones once one is processed is what ran on it. *)
LEMMA ProcessedZone ==
  ASSUME Inv, ProcessZone
  PROVE  configured'["zone"] /\ active'["zone"] = ActiveNow("zone")
<1>1. "zone" \in Kinds /\ "zone" \in OnZones
  BY DEF Kinds, OnZones
<1>2. CASE configured["zone"]
  BY <1>2 DEF ProcessZone, registry, ActiveNow
<1>3. CASE ~configured["zone"]
  <2>1. WithSets(OnZones, {Legacy})
    BY <1>3 DEF ProcessZone
  <2> QED  BY <1>1, <1>3, <2>1 DEF WithSets, ActiveNow
<1> QED  BY <1>2, <1>3

LEMMA PassesKept ==
  ASSUME UNCHANGED <<zone, settings>>, ActiveNow("zone")' = ActiveNow("zone")
  PROVE  Orders' = Orders /\ \A order : Passes(order)' <=> Passes(order)
<1>1. Orders' = Orders
  BY DEF Orders
<1>2. ZoneIds' = ZoneIds
  BY DEF ZoneIds
<1>3. \A order : Reasons(order)' = Reasons(order)
  BY <1>2 DEF Reasons
<1> QED  BY <1>1, <1>3 DEF Passes

LEMMA ValidatePassed ==
  ASSUME Inv, Validate
  PROVE  PassedInv'
<1>1. /\ ProcessZone /\ UNCHANGED <<zone, settings, todo>> /\ todo = << >>
      /\ \E order \in Orders : state' = IF Passes(order) THEN "valid" ELSE "invalid zone"
  BY DEF Validate, Ready
<1>2. configured'["zone"] /\ active'["zone"] = ActiveNow("zone")
  BY <1>1, ProcessedZone
<1>3. ActiveNow("zone")' = ActiveNow("zone")
  BY <1>2 DEF ActiveNow
<1>4. Orders' = Orders /\ \A order : Passes(order)' <=> Passes(order)
  BY <1>1, <1>3, PassesKept
<1>5. state' = "valid" => \E order \in Orders : Passes(order)
  BY <1>1
<1> QED  BY <1>1, <1>2, <1>4, <1>5 DEF PassedInv

LEMMA PassedInvHolds == Spec => []PassedInv
<1>1. Init => PassedInv
  BY DEF Init, PassedInv
<1>2. Inv /\ PassedInv /\ [Next]_vars => PassedInv'
  <2> SUFFICES ASSUME Inv, PassedInv, [Next]_vars PROVE PassedInv'
    OBVIOUS
  <2>1. CASE \E c \in Configs : NewManager(c)
    BY <2>1 DEF NewManager, PassedInv
  <2>2. CASE Configure /\ UNCHANGED zvars
    <3>1. todo # << >>
      BY <2>2 DEF Configure, RegisterNew, RegisterTwice, Override, EnableSets, Enable,
                  EnableUnknown, Disable, DisableBridge, Doing
    <3> QED  BY <2>2, <3>1 DEF PassedInv, zvars
  <2>3. CASE \E s \in ZoneConfigs : NewZone(s)
    BY <2>3 DEF NewZone, PassedInv
  <2>4. CASE \E r \in settings.sources : AddRecord(r) \/ AddUnknown(r)
    BY <2>4 DEF AddRecord, AddUnknown, AddValid, AddInvalid, PassedInv
  <2>5. CASE Validate
    BY <2>5, ValidatePassed
  <2>6. CASE UNCHANGED vars
    <3>1. UNCHANGED <<zone, settings, state, todo, available, active, configured>>
      BY <2>6 DEF vars, zvars, vvars, registry
    <3>2. ActiveNow("zone")' = ActiveNow("zone")
      BY <3>1 DEF ActiveNow
    <3> QED  BY <3>1, <3>2, PassesKept DEF PassedInv
  <2> QED  BY <2>1, <2>2, <2>3, <2>4, <2>5, <2>6 DEF Next
<1> QED  BY <1>1, <1>2, InvHolds, PTL DEF Spec

(* A validator that ran on a zone that passed reports no record of it but   *)
(* those that are lenient.                                                  *)
LEMMA Unreported ==
  ASSUME PassedInv, NEW ids, Accepted(ids)
  PROVE  \E order \in Orders : \A id \in ids : \A q \in ReasonsOf(id, order) : IsLenient(q)
<1>1. PICK order \in Orders : Passes(order)
  BY DEF PassedInv, Accepted
<1>2. \A q \in Reasons(order) : IsLenient(q)
  BY <1>1 DEF Passes, Accepted
<1>3. \A id \in ids : ReasonsOf(id, order) \subseteq Reasons(order)
  BY DEF Reasons, Accepted
<1> QED  BY <1>2, <1>3

(* MailAgrees: in a zone without lenient records that passed the mail       *)
(* check, MX, SPF and DMARC agree, whatever the records are.                *)
THEOREM AcceptedMailAgrees == Spec => []MailAgrees
<1>1. AdmittedInv /\ ZoneInv /\ PassedInv => MailAgrees
  <2> SUFFICES ASSUME AdmittedInv, ZoneInv, PassedInv, Accepted({"mail"}), MailMode = "auto",
                      \A r \in zone : ~r.lenient
               PROVE  MailAgrees
    BY DEF MailAgrees
  <2>1. PICK order \in Orders : \A q \in ReasonsOf("mail", order) : IsLenient(q)
    BY Unreported
  <2>2. \A q \in Mail(zone) : IsLenient(q)
    <3>1. ToSet(order) = zone
      BY OrdersList
    <3> QED  BY <2>1, <3>1 DEF ReasonsOf
  <2>3. \A q \in Mail(zone) : q.records \subseteq zone
    BY MailParts
  <2>4. Mail(zone) = {}
    BY <2>2, <2>3 DEF IsLenient
  <2>5. \A r \in zone : r.spf \in Seq(STRING) /\ r.dmarc \in Seq(STRING)
    BY ValuesAssumption DEF AdmittedInv
  <2> QED  BY <2>4, <2>5, MailFits DEF MailAgrees
<1> QED  BY <1>1, AdmittedInvHolds, ZoneInvHolds, PassedInvHolds, PTL

-----------------------------------------------------------------------------
(* What a resolver meets in a zone that passed *)

Firm == {r \in zone : ~r.lenient}
Fine(reasons) == \A q \in reasons : \A r \in q.records : r.lenient
TypesOfTargets == {"CNAME", "ALIAS", "NS", "MX", "SRV"}

LEMMA ChecksFine ==
  ASSUME PassedInv, ZoneInv, Accepted(ResolverChecks)
  PROVE  /\ \E order \in Orders : Fine(NoCnameLoop(order))
         /\ Fine(CnameCoexistence(zone)) /\ Fine(RootCname(zone))
         /\ Fine(CnameTargetNotCname(zone)) /\ Fine(CnameTargetResolvable(zone))
         /\ Fine(DnameCoexistence(zone)) /\ Fine(Glue(zone))
         /\ \A type \in {"NS", "SRV", "MX"} : \E id : Fine(TargetNotCname(zone, type, id))
         /\ \A type \in {"SRV", "MX"} : \E id : Fine(TargetResolvable(zone, type, id))
<1>1. PICK order \in Orders :
        \A id \in ResolverChecks : \A q \in ReasonsOf(id, order) : IsLenient(q)
  BY Unreported
<1>2. \A id \in ResolverChecks : Fine(ReasonsOf(id, order))
  BY <1>1 DEF Fine, IsLenient
<1>3. ToSet(order) = zone
  BY OrdersList
<1>4. /\ "cname-coexistence" \in ResolverChecks /\ "root-cname" \in ResolverChecks
      /\ "no-cname-loop" \in ResolverChecks /\ "cname-target-not-cname" \in ResolverChecks
      /\ "cname-target-resolvable-in-zone" \in ResolverChecks
      /\ "dname-coexistence" \in ResolverChecks /\ "glue-for-in-zone-ns" \in ResolverChecks
      /\ "ns-target-not-cname" \in ResolverChecks /\ "srv-target-not-cname" \in ResolverChecks
      /\ "mx-target-not-cname" \in ResolverChecks
      /\ "srv-target-resolvable-in-zone" \in ResolverChecks
      /\ "mx-target-resolvable-in-zone" \in ResolverChecks
  BY DEF ResolverChecks
<1>5. Fine(NoCnameLoop(order))
  BY <1>2, <1>3, <1>4 DEF ReasonsOf
<1>6. Fine(CnameCoexistence(zone)) /\ Fine(RootCname(zone))
  BY <1>2, <1>3, <1>4 DEF ReasonsOf
<1>7. Fine(CnameTargetNotCname(zone)) /\ Fine(CnameTargetResolvable(zone))
  BY <1>2, <1>3, <1>4 DEF ReasonsOf
<1>8. Fine(DnameCoexistence(zone)) /\ Fine(Glue(zone))
  BY <1>2, <1>3, <1>4 DEF ReasonsOf
<1>9. /\ Fine(TargetNotCname(zone, "NS", "ns-target-not-cname"))
      /\ Fine(TargetNotCname(zone, "SRV", "srv-target-not-cname"))
      /\ Fine(TargetNotCname(zone, "MX", "mx-target-not-cname"))
  BY <1>2, <1>3, <1>4 DEF ReasonsOf
<1>10. /\ Fine(TargetResolvable(zone, "SRV", "srv-target-resolvable-in-zone"))
       /\ Fine(TargetResolvable(zone, "MX", "mx-target-resolvable-in-zone"))
  BY <1>2, <1>3, <1>4 DEF ReasonsOf
<1> QED  BY <1>5, <1>6, <1>7, <1>8, <1>9, <1>10

(* each check that points at targets, for a record that is not lenient *)
LEMMA FirmTargets ==
  ASSUME PassedInv, ZoneInv, Accepted(ResolverChecks), NEW r \in Firm, NEW t \in r.targets
  PROVE  /\ r.type \in TypesOfTargets /\ Owns("A", t) => Named(zone, t) # {}
         /\ r.type \in {"NS", "MX", "SRV", "CNAME"} /\ Owns("CNAME", t) =>
              Get(zone, t, "CNAME") = {}
         /\ r.type = "NS" /\ Owns("A", t) => \E s \in Named(zone, t) : s.type \in {"A", "AAAA"}
<1>1. r \in zone /\ ~r.lenient
  BY DEF Firm
<1>2. \A id : Reason(id, {r}).records = {r}
  BY DEF Reason
<1>3. ASSUME r.type \in {"CNAME", "ALIAS"}, Owns("A", t) PROVE Named(zone, t) # {}
  <2> SUFFICES ASSUME Named(zone, t) = {} PROVE FALSE
    OBVIOUS
  <2>1. Reason("cname-target-resolvable-in-zone", {r}) \in CnameTargetResolvable(zone)
    BY <1>1, <1>3 DEF CnameTargetResolvable, Pointing
  <2> QED  BY <1>1, <1>2, <2>1, ChecksFine DEF Fine
<1>4. ASSUME r.type \in {"SRV", "MX"}, Owns("A", t) PROVE Named(zone, t) # {}
  <2> SUFFICES ASSUME Named(zone, t) = {} PROVE FALSE
    OBVIOUS
  <2>1. PICK id : Fine(TargetResolvable(zone, r.type, id))
    BY <1>4, ChecksFine
  <2>2. Reason(id, {r}) \in TargetResolvable(zone, r.type, id)
    BY <1>1, <1>4 DEF TargetResolvable, Pointing
  <2> QED  BY <1>1, <1>2, <2>1, <2>2 DEF Fine
<1>5. ASSUME r.type = "NS", Owns("A", t)
      PROVE  \E s \in Named(zone, t) : s.type \in {"A", "AAAA"}
  <2> SUFFICES ASSUME Get(zone, t, "A") \cup Get(zone, t, "AAAA") = {} PROVE FALSE
    BY DEF Get, OfType
  <2>1. Reason("glue-for-in-zone-ns", {r}) \in Glue(zone)
    BY <1>1, <1>5 DEF Glue, Pointing
  <2> QED  BY <1>1, <1>2, <2>1, ChecksFine DEF Fine
<1>6. ASSUME r.type \in {"NS", "MX", "SRV"}, Owns("CNAME", t) PROVE Get(zone, t, "CNAME") = {}
  <2> SUFFICES ASSUME Get(zone, t, "CNAME") # {} PROVE FALSE
    OBVIOUS
  <2>1. PICK id : Fine(TargetNotCname(zone, r.type, id))
    BY <1>6, ChecksFine
  <2>2. Reason(id, {r}) \in TargetNotCname(zone, r.type, id)
    BY <1>1, <1>6 DEF TargetNotCname, Pointing
  <2> QED  BY <1>1, <1>2, <2>1, <2>2 DEF Fine
<1>7. ASSUME r.type = "CNAME", Owns("CNAME", t) PROVE Get(zone, t, "CNAME") = {}
  <2> SUFFICES ASSUME Get(zone, t, "CNAME") # {} PROVE FALSE
    OBVIOUS
  <2>1. Reason("cname-target-not-cname", {r}) \in CnameTargetNotCname(zone)
    BY <1>1, <1>7 DEF CnameTargetNotCname, Pointing
  <2> QED  BY <1>1, <1>2, <2>1, ChecksFine DEF Fine
<1> QED  BY <1>3, <1>4, <1>5, <1>6, <1>7 DEF TypesOfTargets

(* what stands at the name of a record that is not lenient *)
LEMMA FirmNames ==
  ASSUME PassedInv, ZoneInv, Accepted(ResolverChecks), NEW r \in Firm
  PROVE  /\ r.type = "CNAME" => r.name # Apex /\ Named(zone, r.name) = {r}
         /\ \A d \in OfType(zone, "DNAME") : ~IsUnder(r.name, d.name)
         /\ IsAlias(r) => \A s \in Aliases : s.name = r.name => s = r
<1> DEFINE m == Named(zone, r.name)
<1>1. r \in zone /\ ~r.lenient /\ r \in m /\ m \subseteq zone /\ m \in Nodes(zone)
  BY DEF Firm, Named, Nodes
<1>2. IsFiniteSet(m)
  BY <1>1, FS_Subset DEF ZoneInv
<1>3. \A id, some : Reason(id, some).records = some
  BY DEF Reason
<1> HIDE DEF m
<1>4. ASSUME NEW s \in m, s # r, OfType(m, "CNAME") # {} PROVE FALSE
  <2>1. Cardinality(m) > 1
    BY <1>1, <1>2, <1>4, ManyOf
  <2>2. Reason("cname-coexistence", m) \in CnameCoexistence(zone)
    BY <1>1, <1>4, <2>1 DEF CnameCoexistence
  <2> QED  BY <1>1, <1>3, <2>2, ChecksFine DEF Fine
<1>5. ASSUME r.type = "CNAME" PROVE r.name # Apex /\ Named(zone, r.name) = {r}
  <2>1. r \in OfType(m, "CNAME")
    BY <1>1, <1>5 DEF OfType
  <2>2. m = {r}
    BY <1>1, <1>4, <2>1
  <2>3. ASSUME r.name = Apex PROVE FALSE
    <3>1. Reason("root-cname", {r}) \in RootCname(zone)
      BY <1>1, <1>5, <2>3 DEF RootCname, Get, Named, OfType
    <3> QED  BY <1>1, <1>3, <3>1, ChecksFine DEF Fine
  <2> QED  BY <2>2, <2>3 DEF m
<1>6. ASSUME NEW d \in OfType(zone, "DNAME"), IsUnder(r.name, d.name) PROVE FALSE
  <2>1. Reason("dname-coexistence", {r}) \in DnameCoexistence(zone)
    BY <1>1, <1>6 DEF DnameCoexistence
  <2> QED  BY <1>1, <1>3, <2>1, ChecksFine DEF Fine
<1>7. ASSUME IsAlias(r), NEW s \in Aliases, s.name = r.name, s # r PROVE FALSE
  <2>1. s \in m /\ s \in zone /\ IsAlias(s)
    BY <1>7 DEF m, Named, Aliases
  <2>2. r.type # "CNAME" /\ s.type # "CNAME"
    BY <1>1, <1>4, <1>7, <2>1 DEF OfType
  <2>3. SameRecord(r, s)
    BY <1>7, <2>1, <2>2 DEF IsAlias, SameRecord
  <2> QED  BY <1>1, <1>7, <2>1, <2>3 DEF ZoneInv, IsKeyed
<1> QED  BY <1>5, <1>6, <1>7

(* Aliases that are not lenient go round in no circle: it would be found in *)
(* any order, for `targets` holds each of them.                             *)
LEMMA FirmOpen ==
  ASSUME PassedInv, ZoneInv, Accepted(ResolverChecks), NEW c, c \subseteq Firm \cap Aliases
  PROVE  ~Closed(c)
<1> SUFFICES ASSUME Closed(c) PROVE FALSE
  OBVIOUS
<1>1. PICK order \in Orders : Fine(NoCnameLoop(order))
  BY ChecksFine
<1>2. IsList(order) /\ ToSet(order) = zone
  BY OrdersList
<1>3. ASSUME NEW r \in c PROVE r \in Dict(order)
  <2>1. r \in Firm /\ r \in Aliases /\ r \in zone /\ IsAlias(r)
    BY DEF Aliases
  <2>2. PICK i \in 1 .. Len(order) : r = order[i]
    BY <1>2, <2>1 DEF ToSet, IsList
  <2>3. PICK s : s \in Alias(order, r.name)
    BY <1>2, <2>1, <2>2, AliasHeld
  <2>4. s.name = r.name /\ IsAlias(s) /\ s \in Dict(order)
    BY <1>2, <2>3, AliasHeld
  <2>5. s \in Aliases
    BY <1>2, <2>4 DEF Dict, Aliases
  <2>6. s = r
    BY <2>1, <2>4, <2>5, FirmNames
  <2> QED  BY <2>4, <2>6
<1>4. PICK d \in SUBSET c : IsLoop(d)
  <2>1. c \in SUBSET zone
    BY DEF Firm
  <2>2. IsFiniteSet(c)
    BY <2>1, FS_Subset DEF ZoneInv
  <2> QED  BY <2>2, LoopWithin
<1>5. d \in ToSet(Loops(order))
  <2>1. d \in SUBSET Dict(order)
    BY <1>3
  <2>2. ToSet(Loops(order)) = {l \in SUBSET Dict(order) : IsLoop(l)}
    BY <1>2, EachLoopOnce
  <2> QED  BY <1>4, <2>1, <2>2
<1>6. Reason("no-cname-loop", d) \in NoCnameLoop(order) /\ Reason("no-cname-loop", d).records = d
  BY <1>5 DEF NoCnameLoop, Reason
<1>7. PICK r : r \in d
  BY <1>4 DEF IsLoop, Closed
<1> QED  BY <1>1, <1>6, <1>7 DEF Fine, Firm

(* The names that a resolver goes through, with at most so many aliases to  *)
(* go.                                                                      *)
AliasAt(n) == CHOOSE r \in Named(Aliases, n) : TRUE
Turn(left, next) ==
  [n \in ZoneNames |->
     LET met == MetAt(n)
     IN  IF met # "alias" THEN met ELSE IF left = 0 THEN "loop" ELSE next[Follow(AliasAt(n))]]
IsMeets(f, k) == f = [left \in 0 .. k |-> Turn(left, f[left - 1])]

LEMMA MeetsExists ==
  ASSUME NEW k \in Nat
  PROVE  \E f : IsMeets(f, k)
<1> DEFINE T == {n \in Nat : ~\E f : IsMeets(f, n)}
<1> SUFFICES ASSUME T # {} PROVE FALSE
  OBVIOUS
<1>1. PICK m \in T : \A n \in T : m <= n
  BY LeastOf
<1>2. \A next, last : Turn(0, next) = Turn(0, last)
  BY DEF Turn
<1>3. m # 0
  <2> DEFINE f == [left \in 0 .. 0 |-> Turn(0, << >>)]
  <2>1. \A left \in 0 .. 0 : f[left] = Turn(left, f[left - 1])
    BY <1>2
  <2>2. f = [left \in 0 .. 0 |-> f[left]]
    OBVIOUS
  <2> HIDE DEF f
  <2>3. IsMeets(f, 0)
    BY <2>1, <2>2 DEF IsMeets
  <2> QED  BY <2>3
<1>4. PICK f : IsMeets(f, m - 1)
  BY <1>1, <1>3
<1> DEFINE g == [left \in 0 .. m |-> IF left < m THEN f[left] ELSE Turn(m, f[m - 1])]
<1>5. \A left \in 0 .. m - 1 : g[left] = f[left]
  BY <1>1
<1>6. \A left \in 0 .. m - 1 : f[left] = Turn(left, f[left - 1])
  BY <1>4 DEF IsMeets
<1>7. m \in Nat /\ g[m] = Turn(m, f[m - 1])
  BY <1>1
<1> HIDE DEF g
<1>8. ASSUME NEW left \in 0 .. m PROVE g[left] = Turn(left, g[left - 1])
  <2>1. CASE left = 0
    <3>1. 0 \in 0 .. m - 1
      BY <1>3, <1>7
    <3> QED  BY <1>2, <1>5, <1>6, <2>1, <3>1
  <2>2. CASE left # 0 /\ left # m
    <3>1. left \in 0 .. m - 1 /\ left - 1 \in 0 .. m - 1
      BY <1>7, <2>2
    <3> QED  BY <1>5, <1>6, <3>1
  <2>3. CASE left = m
    <3>1. m - 1 \in 0 .. m - 1
      BY <1>3, <1>7
    <3> QED  BY <1>5, <1>7, <2>3, <3>1
  <2> QED  BY <2>1, <2>2, <2>3
<1>9. IsMeets(g, m)
  <2>1. g = [left \in 0 .. m |-> g[left]]
    BY DEF g
  <2> QED  BY <1>8, <2>1 DEF IsMeets
<1> QED  BY <1>1, <1>9

LEMMA MeetsSteps ==
  ASSUME ZoneInv
  PROVE  LET N == Cardinality(zone)
         IN  /\ N \in Nat
             /\ \E f : /\ \A left \in 0 .. N : f[left] = Turn(left, f[left - 1])
                       /\ \A name : Meets(name) = f[N][name]
<1> DEFINE N == Cardinality(zone)
           f == CHOOSE g : IsMeets(g, N)
<1>1. N \in Nat
  BY FS_CardinalityType DEF ZoneInv
<1>2. \A name : Meets(name) = f[N][name]
  BY DEF Meets, IsMeets, Turn, AliasAt
<1>3. IsMeets(f, N)
  BY <1>1, MeetsExists
<1> HIDE DEF f, N
<1>4. \A left \in 0 .. N : f[left] = Turn(left, f[left - 1])
  BY <1>3 DEF IsMeets
<1>5. \E g : /\ \A left \in 0 .. N : g[left] = Turn(left, g[left - 1])
             /\ \A name : Meets(name) = g[N][name]
  BY <1>2, <1>4
<1> QED  BY <1>1, <1>5 DEF N

(* A name that a check has seen has something, whatever is made of it. *)
Kept(n) == n \in ZoneNames /\ (Owns("A", n) => Named(zone, n) # {})

LEMMA AliasGoesOn ==
  ASSUME AdmittedInv, PassedInv, ZoneInv, Accepted(ResolverChecks),
         NEW n \in ZoneNames, MetAt(n) = "alias"
  PROVE  /\ AliasAt(n) \in Firm \cap Aliases /\ AliasAt(n).name = n
         /\ Kept(Follow(AliasAt(n)))
<1> DEFINE r == AliasAt(n)
<1>1. r \in Aliases /\ r.name = n /\ ~r.lenient
  <2>1. Named(Aliases, n) # {} /\ \A s \in Named(Aliases, n) : ~s.lenient
    BY DEF MetAt
  <2>2. r \in Named(Aliases, n)
    BY <2>1 DEF AliasAt
  <2> QED  BY <2>1, <2>2 DEF Named
<1> HIDE DEF r
<1>2. r \in zone /\ IsAlias(r) /\ r \in Firm
  BY <1>1 DEF Aliases, Firm
<1>3. Follow(r) \in r.targets
  <2>1. \E t \in r.targets : r.targets = {t}
    BY <1>2, ValuesAssumption DEF AdmittedInv
  <2> QED  BY <2>1 DEF Follow
<1>4. Follow(r) \in ZoneNames
  BY <1>2, <1>3 DEF ZoneNames
<1>5. Owns("A", Follow(r)) => Named(zone, Follow(r)) # {}
  BY <1>2, <1>3, FirmTargets DEF IsAlias, TypesOfTargets
<1> QED  BY <1>1, <1>2, <1>4, <1>5 DEF Kept, r

(* a way over aliases from a name *)
IsWay(p, left, n) ==
  /\ p \in [0 .. left -> Firm \cap Aliases]
  /\ p[0].name = n
  /\ \A i \in 1 .. left : p[i].name = Follow(p[i - 1])

(* From a name that has something one comes to data, elsewhere, to a        *)
(* lenient record, or over that many aliases and one.                       *)
Arrives(next, left) ==
  \A n \in ZoneNames : Kept(n) =>
    /\ next[n] \in {"data", "elsewhere", "lenient", "loop"}
    /\ next[n] = "loop" => \E p : IsWay(p, left, n)

LEMMA FirstArrives ==
  ASSUME AdmittedInv, PassedInv, ZoneInv, Accepted(ResolverChecks), NEW next
  PROVE  Arrives(Turn(0, next), 0)
<1> SUFFICES ASSUME NEW n \in ZoneNames, Kept(n)
             PROVE  /\ Turn(0, next)[n] \in {"data", "elsewhere", "lenient", "loop"}
                    /\ Turn(0, next)[n] = "loop" => \E p : IsWay(p, 0, n)
  BY DEF Arrives
<1>1. Turn(0, next)[n] = IF MetAt(n) # "alias" THEN MetAt(n) ELSE "loop"
  BY DEF Turn
<1>2. MetAt(n) \in {"data", "elsewhere", "lenient", "alias"}
  BY DEF MetAt, Kept
<1>3. ASSUME MetAt(n) = "alias" PROVE \E p : IsWay(p, 0, n)
  <2>1. AliasAt(n) \in Firm \cap Aliases /\ AliasAt(n).name = n
    BY <1>3, AliasGoesOn
  <2> DEFINE p == [i \in 0 .. 0 |-> AliasAt(n)]
  <2>2. IsWay(p, 0, n)
    BY <2>1 DEF IsWay
  <2> QED  BY <2>2
<1> QED  BY <1>1, <1>2, <1>3

LEMMA NextArrives ==
  ASSUME AdmittedInv, PassedInv, ZoneInv, Accepted(ResolverChecks),
         NEW left \in Nat \ {0}, NEW next, Arrives(next, left - 1)
  PROVE  Arrives(Turn(left, next), left)
<1> SUFFICES ASSUME NEW n \in ZoneNames, Kept(n)
             PROVE  /\ Turn(left, next)[n] \in {"data", "elsewhere", "lenient", "loop"}
                    /\ Turn(left, next)[n] = "loop" => \E p : IsWay(p, left, n)
  BY DEF Arrives
<1> DEFINE r == AliasAt(n)
<1>1. Turn(left, next)[n] = IF MetAt(n) # "alias" THEN MetAt(n) ELSE next[Follow(r)]
  BY DEF Turn
<1>2. MetAt(n) \in {"data", "elsewhere", "lenient", "alias"}
  BY DEF MetAt, Kept
<1>3. ASSUME MetAt(n) = "alias"
      PROVE  /\ next[Follow(r)] \in {"data", "elsewhere", "lenient", "loop"}
             /\ next[Follow(r)] = "loop" => \E p : IsWay(p, left, n)
  <2>1. r \in Firm \cap Aliases /\ r.name = n /\ Kept(Follow(r))
    BY <1>3, AliasGoesOn
  <2> HIDE DEF r
  <2>2. /\ next[Follow(r)] \in {"data", "elsewhere", "lenient", "loop"}
        /\ next[Follow(r)] = "loop" => \E p : IsWay(p, left - 1, Follow(r))
    BY <2>1 DEF Arrives, Kept
  <2>3. ASSUME NEW p, IsWay(p, left - 1, Follow(r)) PROVE \E q : IsWay(q, left, n)
    <3> DEFINE q == [i \in 0 .. left |-> IF i = 0 THEN r ELSE p[i - 1]]
    <3>1. /\ p \in [0 .. left - 1 -> Firm \cap Aliases] /\ p[0].name = Follow(r)
          /\ \A i \in 1 .. left - 1 : p[i].name = Follow(p[i - 1])
      BY <2>3 DEF IsWay
    <3>2. q \in [0 .. left -> Firm \cap Aliases] /\ q[0] = r
      <4>1. \A i \in 0 .. left : i # 0 => i - 1 \in 0 .. left - 1
        OBVIOUS
      <4> QED  BY <2>1, <3>1, <4>1
    <3>3. \A i \in 1 .. left : q[i] = p[i - 1]
      OBVIOUS
    <3> HIDE DEF q
    <3>4. ASSUME NEW i \in 1 .. left PROVE q[i].name = Follow(q[i - 1])
      <4>1. CASE i = 1
        BY <3>1, <3>2, <3>3, <4>1
      <4>2. CASE i # 1
        <5>1. i - 1 \in 1 .. left - 1 /\ i - 1 \in 1 .. left
          BY <4>2
        <5>2. q[i] = p[i - 1] /\ q[i - 1] = p[(i - 1) - 1]
          BY <3>3, <5>1
        <5> QED  BY <3>1, <5>1, <5>2
      <4> QED  BY <4>1, <4>2
    <3>5. IsWay(q, left, n)
      BY <2>1, <3>2, <3>4 DEF IsWay
    <3> QED  BY <3>5
  <2> QED  BY <2>2, <2>3
<1> QED  BY <1>1, <1>2, <1>3

LEMMA MeetsWell ==
  ASSUME AdmittedInv, PassedInv, ZoneInv, Accepted(ResolverChecks),
         NEW n \in ZoneNames, Kept(n)
  PROVE  Meets(n) \in {"data", "elsewhere", "lenient"}
<1> DEFINE N == Cardinality(zone)
<1>1. /\ N \in Nat
      /\ \E f : /\ \A left \in 0 .. N : f[left] = Turn(left, f[left - 1])
                /\ \A name : Meets(name) = f[N][name]
  BY MeetsSteps
<1>2. PICK f : /\ \A left \in 0 .. N : f[left] = Turn(left, f[left - 1])
               /\ \A name : Meets(name) = f[N][name]
  BY <1>1
<1> HIDE DEF N
<1> DEFINE T == {left \in 0 .. N : ~Arrives(f[left], left)}
<1>3. ASSUME T # {} PROVE FALSE
  <2>1. T \subseteq Nat
    BY <1>1
  <2> HIDE DEF T
  <2>2. PICK m \in T : \A left \in T : m <= left
    BY <1>3, <2>1, LeastOf
  <2> USE DEF T
  <2>3. m # 0
    BY <1>1, <1>2, <2>2, FirstArrives
  <2>4. m \in Nat \ {0} /\ m - 1 \in 0 .. N /\ m - 1 < m /\ m \in 0 .. N
    BY <1>1, <2>2, <2>3
  <2>5. Arrives(f[m - 1], m - 1)
    BY <1>1, <2>2, <2>4
  <2>6. Arrives(Turn(m, f[m - 1]), m)
    BY <2>4, <2>5, NextArrives
  <2> QED  BY <1>2, <2>2, <2>4, <2>6
<1>4. Arrives(f[N], N)
  BY <1>1, <1>3
<1>5. ASSUME NEW p, IsWay(p, N, n) PROVE FALSE
  <2> DEFINE S == Firm \cap Aliases
  <2>1. S \in SUBSET zone
    BY DEF Firm
  <2>2. IsFiniteSet(S) /\ Cardinality(S) <= N
    BY <2>1, FS_Subset DEF ZoneInv, N
  <2>3. p \in [0 .. N -> S] /\ \A i \in 1 .. N : p[i].name = Follow(p[i - 1])
    BY <1>5 DEF IsWay
  <2> HIDE DEF S
  <2>4. \E c \in SUBSET S : Closed(c)
    BY <1>1, <2>2, <2>3, ChainCloses
  <2> QED  BY <2>4, FirmOpen DEF S
<1> QED  BY <1>2, <1>4, <1>5 DEF Arrives

(* AcceptedZonesResolve: in each zone that passed the strict and the        *)
(* best-practice checks, whatever its records are and in whatever order     *)
(* they were walked, a resolver finds what the records that are not lenient *)
(* point at: the loops that the search reports are all there are, so that   *)
(* following aliases ends, and at each of them a check has seen that the    *)
(* next name is there.                                                      *)
THEOREM AcceptedZonesAlwaysResolve == Spec => []AcceptedZonesResolve
<1>1. AdmittedInv /\ ZoneInv /\ PassedInv => AcceptedZonesResolve
  <2> SUFFICES ASSUME AdmittedInv, ZoneInv, PassedInv, Accepted(ResolverChecks)
               PROVE  AcceptedZonesResolve
    BY DEF AcceptedZonesResolve
  <2>1. {s \in zone : ~s.lenient} = Firm
    BY DEF Firm
  <2>2. ASSUME NEW r \in Firm, NEW t \in r.targets, r.type \in TypesOfTargets
        PROVE  /\ Meets(t) \in {"data", "elsewhere", "lenient"}
               /\ r.type \in {"NS", "MX", "SRV", "CNAME"} =>
                    Get(zone, t, "CNAME") = {} \/ ~Owns("CNAME", t)
               /\ r.type = "NS" /\ Owns("A", t) =>
                    \E s \in Named(zone, t) : s.type \in {"A", "AAAA"}
    <3>1. t \in ZoneNames
      BY DEF ZoneNames, Firm
    <3>2. Kept(t)
      BY <2>2, <3>1, FirmTargets DEF Kept
    <3> QED  BY <3>1, <3>2, FirmTargets, MeetsWell
  <2>3. ASSUME NEW r \in Firm
        PROVE  /\ r.type = "CNAME" => r.name # Apex /\ Named(zone, r.name) = {r}
               /\ \A d \in OfType(zone, "DNAME") : ~IsUnder(r.name, d.name)
    BY FirmNames
  <2>4. ASSUME OneAliasEach, NEW l \in SUBSET Aliases, IsLoop(l) PROVE \A r \in l : r.lenient
    <3>1. PICK order \in Orders : Fine(NoCnameLoop(order))
      BY ChecksFine
    <3>2. l \in ToSet(Loops(order))
      <4>1. Dict(order) = Aliases
        BY <2>4, DictIsAliases
      <4>2. ToSet(Loops(order)) = {c \in SUBSET Dict(order) : IsLoop(c)}
        BY OrdersList, EachLoopOnce
      <4> QED  BY <2>4, <4>1, <4>2
    <3>3. Reason("no-cname-loop", l) \in NoCnameLoop(order) /\ Reason("no-cname-loop", l).records = l
      BY <3>2 DEF NoCnameLoop, Reason
    <3> QED  BY <3>1, <3>3 DEF Fine
  <2> QED  BY <2>1, <2>2, <2>3, <2>4 DEF AcceptedZonesResolve, TypesOfTargets
<1> QED  BY <1>1, AdmittedInvHolds, ZoneInvHolds, PassedInvHolds, PTL
=============================================================================
