---------------------------- MODULE ZoneProofs ----------------------------
(***************************************************************************)
(* Proofs about Zone: for every set of records, every choice of sub-zones  *)
(* and any number of copies.                                               *)
(***************************************************************************)
EXTENDS Zone, FiniteSetTheorems, TLAPS

-----------------------------------------------------------------------------
(* The chain of origins *)

(* A nonempty set of objects has one that was made first.  Were there none,  *)
(* counting the earlier objects would number n objects with 1 .. n-1: two of *)
(* them would have the same count, though the later one also counts the      *)
(* earlier one.                                                              *)
LEMMA FirstObject ==
  ASSUME NEW S, S \subseteq Ids, S # {}
  PROVE  \E z \in S : \A y \in S : ~(y < z)
<1> DEFINE earlier(z) == {y \in S : y < z}
           n == Cardinality(S)
           count == [z \in S |-> Cardinality(earlier(z))]
<1>1. S \subseteq Nat /\ IsFiniteSet(S)
  <2>1. 1 \in Int /\ MaxZones \in Int /\ S \subseteq Nat
    BY MaxZonesAssumption DEF Ids
  <2>2. IsFiniteSet(1 .. MaxZones) /\ S \in SUBSET (1 .. MaxZones)
    BY <2>1, FS_Interval DEF Ids
  <2> QED
    BY <2>1, <2>2, FS_Subset
<1>2. n \in Nat
  BY <1>1, FS_CardinalityType
<1>3. \A z \in S : IsFiniteSet(earlier(z)) /\ Cardinality(earlier(z)) \in Nat
  BY <1>1, FS_Subset, FS_CardinalityType
<1>4. \A z \in S : Cardinality(earlier(z)) < n
  <2>1. TAKE z \in S
  <2>2. earlier(z) \subseteq S /\ z \notin earlier(z)
    BY <1>1
  <2>3. Cardinality(earlier(z)) <= n /\ Cardinality(earlier(z)) # n
    BY <1>1, <2>2, FS_Subset
  <2> QED
    BY <2>3, <1>2, <1>3
<1>5. SUFFICES ASSUME \A z \in S : earlier(z) # {}
               PROVE  FALSE
  OBVIOUS
<1>6. \A z \in S : Cardinality(earlier(z)) \in 1 .. n - 1
  <2>1. TAKE z \in S
  <2>2. Cardinality(earlier(z)) # 0
    BY <1>3, <1>5, FS_EmptySet
  <2> HIDE DEF earlier, n
  <2> QED
    BY <1>2, <1>3, <1>4, <2>2
<1>7. IsFiniteSet(1 .. n - 1) /\ Cardinality(1 .. n - 1) < n
  <2>1. n # 0
    BY <1>1, FS_EmptySet
  <2> HIDE DEF n
  <2>2. 1 \in Int /\ n - 1 \in Int
    BY <1>2
  <2>3. /\ IsFiniteSet(1 .. n - 1)
        /\ Cardinality(1 .. n - 1) = IF 1 > n - 1 THEN 0 ELSE (n - 1) - 1 + 1
    BY <2>2, FS_Interval
  <2> QED
    BY <1>2, <2>1, <2>3
<1>8. PICK y \in S, z \in S : y # z /\ count[y] = count[z]
  <2>1. count \in [S -> 1 .. n - 1]
    BY <1>6
  <2> HIDE DEF count
  <2> QED
    BY <1>1, <1>7, <2>1, FS_PigeonHole
<1>9. ASSUME NEW a \in S, NEW b \in S, a < b, count[a] = count[b]
      PROVE  FALSE
  <2>0. a < b /\ a \in Nat /\ b \in Nat /\ \A e \in S : e \in Nat
    BY <1>1, <1>9
  <2>1. earlier(a) \subseteq earlier(b) /\ a \in earlier(b) /\ a \notin earlier(a)
    <3>1. \A e \in S : e < a => e < b
      BY <2>0
    <3>2. earlier(a) \subseteq earlier(b)
      BY <3>1
    <3>3. a \in earlier(b)
      BY <1>9
    <3>4. ~(a < a)
      BY <2>0
    <3> QED
      BY <3>2, <3>3, <3>4
  <2>2. Cardinality(earlier(a)) = Cardinality(earlier(b))
    BY <1>9
  <2> QED
    BY <1>3, <2>1, <2>2, FS_Subset
<1> QED
  BY <1>1, <1>8, <1>9

(* An object's origin was made before it. *)
IsForest(orig) ==
  /\ orig \in [Ids -> {NoOrigin} \cup Ids]
  /\ \A z \in Ids : orig[z] # NoOrigin => orig[z] < z

(* The objects that z reads through, whoever they may be: those in every set *)
(* that has z in it and the origin of each of its members.                   *)
Reach(orig, z) ==
  {h \in Ids :
     \A S \in SUBSET Ids :
        (z \in S /\ \A s \in S : orig[s] # NoOrigin => orig[s] \in S) => h \in S}
Bearers(orig, z) == {h \in Reach(orig, z) : orig[h] = NoOrigin}

LEMMA BearersOfHydrated ==
  ASSUME NEW orig, NEW z \in Ids, orig[z] = NoOrigin
  PROVE  Bearers(orig, z) = {z}
<1>1. {z} \in SUBSET Ids /\ \A s \in {z} : orig[s] # NoOrigin => orig[s] \in {z}
  OBVIOUS
<1>2. \A h \in Reach(orig, z) : h = z
  BY <1>1 DEF Reach
<1>3. z \in Reach(orig, z)
  BY DEF Reach
<1> QED
  BY <1>2, <1>3 DEF Bearers

LEMMA BearersOfCopy ==
  ASSUME NEW orig, IsForest(orig), NEW z \in Ids, orig[z] # NoOrigin
  PROVE  Bearers(orig, z) = Bearers(orig, orig[z])
<1>0. orig[z] \in Ids
  BY DEF IsForest
<1>1. ASSUME NEW h \in Bearers(orig, z)
      PROVE  h \in Bearers(orig, orig[z])
  <2>1. SUFFICES ASSUME NEW S \in SUBSET Ids,
                        orig[z] \in S,
                        \A s \in S : orig[s] # NoOrigin => orig[s] \in S
                 PROVE  h \in S
    BY DEF Bearers, Reach
  <2>2. S \cup {z} \in SUBSET Ids
    BY <2>1
  <2>3. \A s \in S \cup {z} : orig[s] # NoOrigin => orig[s] \in S \cup {z}
    BY <2>1
  <2>4. h \in S \cup {z}
    BY <2>2, <2>3 DEF Bearers, Reach
  <2>5. h # z
    BY DEF Bearers
  <2> QED
    BY <2>4, <2>5
<1>2. ASSUME NEW h \in Bearers(orig, orig[z])
      PROVE  h \in Bearers(orig, z)
  BY <1>0 DEF Bearers, Reach
<1> QED
  BY <1>1, <1>2

(* The recursive definition of the model has a solution, so it can be used. *)
LEMMA HolderUnfolds ==
  ASSUME NEW orig, IsForest(orig)
  PROVE  HolderIn(orig) =
           [z \in Ids |-> IF orig[z] = NoOrigin THEN z ELSE HolderIn(orig)[orig[z]]]
<1> DEFINE solves(f) ==
             f = [z \in Ids |-> IF orig[z] = NoOrigin THEN z ELSE f[orig[z]]]
           bearer == [z \in Ids |-> CHOOSE h : h \in Bearers(orig, z)]
<1>1. \A z \in Ids : orig[z] = NoOrigin => bearer[z] = z
  BY BearersOfHydrated
<1>2. \A z \in Ids : orig[z] # NoOrigin =>
                       orig[z] \in Ids /\ bearer[z] = bearer[orig[z]]
  BY BearersOfCopy DEF IsForest
<1>3. solves(bearer)
  <2> DEFINE rhs == [z \in Ids |-> IF orig[z] = NoOrigin THEN z ELSE bearer[orig[z]]]
  <2>1. \A z \in Ids : bearer[z] = rhs[z]
    BY <1>1, <1>2
  <2> QED
    BY <2>1
<1>4. HolderIn(orig) = CHOOSE f : solves(f)
  BY DEF HolderIn
<1> HIDE DEF bearer, solves
<1>5. solves(HolderIn(orig))
  BY <1>3, <1>4
<1> QED
  BY <1>5 DEF solves

(* Every object shows the records of a hydrated one, its own if it is. *)
LEMMA HolderIsHydrated ==
  ASSUME NEW orig, IsForest(orig), NEW z \in Ids
  PROVE  /\ HolderIn(orig)[z] \in Ids
         /\ HolderIn(orig)[z] <= z
         /\ orig[HolderIn(orig)[z]] = NoOrigin
         /\ orig[z] = NoOrigin => HolderIn(orig)[z] = z
<1> DEFINE holder == HolderIn(orig)
           bad == {x \in Ids : ~(holder[x] \in Ids /\ holder[x] <= x
                                  /\ orig[holder[x]] = NoOrigin)}
<1>1. \A x \in Ids : orig[x] = NoOrigin => holder[x] = x
  BY HolderUnfolds
<1>2. \A x \in Ids : orig[x] # NoOrigin => holder[x] = holder[orig[x]]
  BY HolderUnfolds
<1>3. \A x \in Ids : x \in Nat /\ (orig[x] # NoOrigin => orig[x] \in Ids /\ orig[x] < x)
  BY MaxZonesAssumption DEF IsForest, Ids
<1> HIDE DEF holder
<1>4. bad = {}
  <2>1. SUFFICES ASSUME bad # {} PROVE FALSE
    OBVIOUS
  <2>2. PICK x \in bad : \A y \in bad : ~(y < x)
    BY <2>1, FirstObject
  <2>3. orig[x] # NoOrigin
    BY <1>1, <1>3, <2>2
  <2>4. orig[x] \in Ids /\ orig[x] < x /\ orig[x] \notin bad
    BY <1>3, <2>2, <2>3
  <2>5. holder[x] \in Ids /\ holder[x] <= orig[x] /\ orig[holder[x]] = NoOrigin
    BY <1>2, <2>3, <2>4
  <2> QED
    BY <1>3, <2>2, <2>4, <2>5
<1> QED
  BY <1>1, <1>4 DEF holder

-----------------------------------------------------------------------------
(* Type correctness *)

LEMMA ForestOfOrigins == TypeOK => IsForest(origin)
  BY DEF TypeOK, IsForest

LEMMA HolderType ==
  ASSUME TypeOK, NEW z \in Zones
  PROVE  /\ z \in Ids /\ Holder(z) \in Zones
         /\ origin[Holder(z)] = NoOrigin
         /\ origin[z] = NoOrigin => Holder(z) = z
         /\ Records(z) \subseteq Record
<1>1. made \in Nat /\ made <= MaxZones /\ Zones \subseteq Ids
  BY MaxZonesAssumption DEF TypeOK, Ids, Zones
<1>2. /\ Holder(z) \in Ids /\ Holder(z) <= z
      /\ origin[Holder(z)] = NoOrigin
      /\ origin[z] = NoOrigin => Holder(z) = z
  BY <1>1, ForestOfOrigins, HolderIsHydrated DEF Holder
<1>3. Holder(z) \in Zones
  BY <1>1, <1>2 DEF Ids, Zones
<1> QED
  BY <1>1, <1>2, <1>3 DEF Records, TypeOK

(* The step of a call that writes one object. *)
LEMMA StoreType ==
  ASSUME TypeOK, NEW z \in Zones,
         NEW contents \in SUBSET Record, NEW root \in SUBSET Record,
         Store(z, contents, root), outcome' \in Outcomes
  PROVE  TypeOK'
<1>1. Zones' = Zones /\ Zones \subseteq Ids
  BY MaxZonesAssumption DEF TypeOK, Store, Zones, Ids
<1> QED
  BY <1>1 DEF TypeOK, Store

LEMMA OwnType ==
  ASSUME TypeOK, NEW z \in Zones
  PROVE  OwnRecords(z) \in SUBSET Record /\ OwnRootNs(z) \in SUBSET Record
  BY HolderType DEF TypeOK, OwnRecords, OwnRootNs, RootNsIn

LEMMA InitType == Init => TypeOK
  BY MaxZonesAssumption DEF Init, TypeOK, Ids, Outcomes

LEMMA CopyType ==
  ASSUME TypeOK, NEW z \in Zones, Copy(z)
  PROVE  TypeOK'
<1>1. /\ made \in Nat /\ MaxZones \in Nat /\ made < MaxZones
      /\ made + 1 \in Ids /\ z \in Ids /\ z < made + 1
  BY MaxZonesAssumption DEF TypeOK, Copy, Ids, Zones
<1>2. /\ made' = made + 1
      /\ records' \in [Ids -> SUBSET Record]
      /\ root_ns' \in [Ids -> SUBSET Record]
      /\ origin' \in [Ids -> {NoOrigin} \cup Ids]
      /\ ignore_adds' \in [Ids -> BOOLEAN]
      /\ outcome' \in Outcomes
  BY <1>1 DEF TypeOK, Copy, Outcomes
<1>3. ASSUME NEW y \in Ids, origin'[y] # NoOrigin
      PROVE  y \in Zones' /\ origin'[y] < y
  <2>1. CASE y = made + 1
    BY <1>1, <1>2, <2>1 DEF TypeOK, Copy, Zones
  <2>2. CASE y # made + 1
    BY <1>1, <1>2, <1>3, <2>2 DEF TypeOK, Copy, Zones
  <2> QED
    BY <2>1, <2>2
<1> QED
  BY <1>1, <1>2, <1>3 DEF TypeOK

LEMMA NextType == TypeOK /\ [Next]_vars => TypeOK'
<1> SUFFICES ASSUME TypeOK, [Next]_vars PROVE TypeOK'
  OBVIOUS
<1>1. ASSUME NEW z \in Zones, NEW r \in Record,
             NEW replace \in BOOLEAN, NEW lenient \in BOOLEAN,
             AddRecord(z, r, replace, lenient)
      PROVE  TypeOK'
  <2>1. AddTo(z, r, replace) \in SUBSET Record
    BY OwnType DEF AddTo, Discard
  <2>2. CASE AddBarred(z, r, lenient)
    BY <2>2, OwnType, StoreType DEF AddBarred, Outcomes
  <2>3. CASE AddDuplicate(z, r, replace, lenient)
    BY <2>1, <2>3, OwnType, StoreType DEF AddDuplicate, Outcomes
  <2>4. CASE AddNew(z, r, replace, lenient)
    <3>1. /\ AddTo(z, r, replace) \cup {r} \in SUBSET Record
          /\ (IF IsRootNs(r) THEN {r} ELSE OwnRootNs(z)) \in SUBSET Record
      BY <2>1, OwnType
    <3> QED
      BY <2>4, <3>1, StoreType DEF AddNew, Outcomes
  <2> QED
    BY <1>1, <2>2, <2>3, <2>4 DEF AddRecord
<1>2. ASSUME NEW z \in Zones, NEW r \in Record, RemoveRecord(z, r)
      PROVE  TypeOK'
  <2>1. /\ Discard(OwnRecords(z), r) \in SUBSET Record
        /\ (IF IsRootNs(r) THEN {} ELSE OwnRootNs(z)) \in SUBSET Record
    BY OwnType DEF Discard
  <2> QED
    BY <1>2, <2>1, StoreType DEF RemoveRecord, Outcomes
<1>3. ASSUME NEW z \in Zones, Hydrate(z)
      PROVE  TypeOK'
  BY <1>3, OwnType, StoreType DEF Hydrate, Outcomes
<1>4. ASSUME NEW z \in Zones, Copy(z)
      PROVE  TypeOK'
  BY <1>4, CopyType
<1>5. CASE UNCHANGED vars
  BY <1>5 DEF vars, TypeOK, Zones
<1> QED
  BY <1>1, <1>2, <1>3, <1>4, <1>5 DEF Next

(* Zone's variables always have the shape of the code's attributes, and an  *)
(* object is only ever a copy of one made before it, for any number of      *)
(* copies and whatever the order of the calls.                              *)
THEOREM TypeCorrect == Spec => []TypeOK
  BY InitType, NextType, PTL DEF Spec

-----------------------------------------------------------------------------
(* The cached root NS, and one record to a key *)

LEMMA DiscardFacts ==
  ASSUME NEW S, NEW r
  PROVE  /\ Discard(S, r) \subseteq S
         /\ ~HasSame(Discard(S, r), r)
         /\ IsKeyed(S) => IsKeyed(Discard(S, r))
         /\ ~IsRootNs(r) => RootNsIn(Discard(S, r)) = RootNsIn(S)
         /\ IsRootNs(r) => RootNsIn(Discard(S, r)) = {}
  BY DEF Discard, HasSame, IsKeyed, SameRecord, IsRootNs, RootNsIn

LEMMA InsertFacts ==
  ASSUME NEW S, NEW r, IsKeyed(S), ~HasSame(S, r)
  PROVE  /\ IsKeyed(S \cup {r})
         /\ ~IsRootNs(r) => RootNsIn(S \cup {r}) = RootNsIn(S)
         /\ IsRootNs(r) => RootNsIn(S \cup {r}) = {r}
  BY DEF HasSame, IsKeyed, SameRecord, IsRootNs, RootNsIn

IndInv == TypeOK /\ OwnStoreSound

(* What an object starts a call from, hydrated or about to be. *)
LEMMA OwnSound ==
  ASSUME IndInv, NEW z \in Zones
  PROVE  OwnRootNs(z) = RootNsIn(OwnRecords(z)) /\ IsKeyed(OwnRecords(z))
  BY HolderType DEF IndInv, OwnStoreSound, OwnRecords, OwnRootNs, Records

LEMMA StoreSound ==
  ASSUME IndInv, NEW z \in Zones, NEW contents, NEW root,
         Store(z, contents, root),
         root = RootNsIn(contents), IsKeyed(contents)
  PROVE  OwnStoreSound'
<1>1. Zones' = Zones /\ \A y \in Zones : y \in Ids
  BY MaxZonesAssumption DEF IndInv, TypeOK, Store, Zones, Ids
<1>2. ASSUME NEW y \in Zones, origin'[y] = NoOrigin
      PROVE  root_ns'[y] = RootNsIn(records'[y]) /\ IsKeyed(records'[y])
  BY <1>1, <1>2 DEF IndInv, TypeOK, OwnStoreSound, Store
<1> QED
  BY <1>1, <1>2 DEF OwnStoreSound, RootNsIn, IsKeyed

LEMMA NextSound == IndInv /\ [Next]_vars => IndInv'
<1> SUFFICES ASSUME IndInv, [Next]_vars PROVE OwnStoreSound'
  BY NextType DEF IndInv
<1>1. ASSUME NEW z \in Zones, NEW r \in Record,
             NEW replace \in BOOLEAN, NEW lenient \in BOOLEAN,
             AddRecord(z, r, replace, lenient)
      PROVE  OwnStoreSound'
  <2>1. CASE AddBarred(z, r, lenient)
    BY <2>1, OwnSound, StoreSound DEF AddBarred
  <2>2. CASE AddDuplicate(z, r, replace, lenient)
    <3>1. AddTo(z, r, replace) = OwnRecords(z)
      BY <2>2, DiscardFacts DEF AddDuplicate, AddTo
    <3> QED
      BY <2>2, <3>1, OwnSound, StoreSound DEF AddDuplicate
  <2>3. CASE AddNew(z, r, replace, lenient)
    <3> DEFINE base == AddTo(z, r, replace)
               root == IF IsRootNs(r) THEN {r} ELSE OwnRootNs(z)
    <3>1. IsKeyed(base) /\ (~IsRootNs(r) => RootNsIn(base) = OwnRootNs(z))
      BY OwnSound, DiscardFacts DEF AddTo
    <3>2. ~HasSame(base, r) /\ Store(z, base \cup {r}, root)
      BY <2>3 DEF AddNew
    <3> HIDE DEF base
    <3>3. root = RootNsIn(base \cup {r}) /\ IsKeyed(base \cup {r})
      BY <3>1, <3>2, InsertFacts
    <3> HIDE DEF root
    <3> QED
      BY <3>2, <3>3, StoreSound
  <2> QED
    BY <1>1, <2>1, <2>2, <2>3 DEF AddRecord
<1>2. ASSUME NEW z \in Zones, NEW r \in Record, RemoveRecord(z, r)
      PROVE  OwnStoreSound'
  <2> DEFINE rest == Discard(OwnRecords(z), r)
             root == IF IsRootNs(r) THEN {} ELSE OwnRootNs(z)
  <2>1. root = RootNsIn(rest) /\ IsKeyed(rest)
    BY OwnSound, DiscardFacts
  <2>2. Store(z, rest, root)
    BY <1>2 DEF RemoveRecord
  <2> HIDE DEF rest, root
  <2> QED
    BY <2>1, <2>2, StoreSound
<1>3. ASSUME NEW z \in Zones, Hydrate(z)
      PROVE  OwnStoreSound'
  BY <1>3, OwnSound, StoreSound DEF Hydrate
<1>4. ASSUME NEW z \in Zones, Copy(z)
      PROVE  OwnStoreSound'
  <2>1. made \in Nat /\ made + 1 \in Ids /\ \A y \in Zones : y \in Ids /\ y # made + 1
    BY <1>4, MaxZonesAssumption DEF IndInv, TypeOK, Copy, Zones, Ids
  <2>2. \A y \in Zones' : y \in Zones \/ y = made + 1
    BY <1>4, <2>1 DEF Copy, Zones
  <2>3. z # NoOrigin
    BY <2>1 DEF Zones, NoOrigin
  <2>4. ASSUME NEW y \in Zones', origin'[y] = NoOrigin
        PROVE  root_ns'[y] = RootNsIn(records'[y]) /\ IsKeyed(records'[y])
    <3>1. y \in Zones /\ y # made + 1
      BY <1>4, <2>1, <2>2, <2>3, <2>4 DEF IndInv, TypeOK, Copy
    <3> QED
      BY <1>4, <2>1, <2>4, <3>1 DEF IndInv, TypeOK, OwnStoreSound, Copy
  <2> QED
    BY <2>4 DEF OwnStoreSound, RootNsIn, IsKeyed
<1>5. CASE UNCHANGED vars
  BY <1>5 DEF vars, IndInv, OwnStoreSound, Zones, RootNsIn, IsKeyed
<1> QED
  BY <1>1, <1>2, <1>3, <1>4, <1>5 DEF Next

LEMMA Inductive == Spec => []IndInv
<1>1. Init => IndInv
  <2> SUFFICES ASSUME Init PROVE OwnStoreSound
    BY InitType DEF IndInv
  <2>1. \A z \in Zones : z \in Ids
    BY MaxZonesAssumption DEF Init, Zones, Ids
  <2>2. \A z \in Zones : records[z] = {} /\ root_ns[z] = {}
    BY <2>1 DEF Init
  <2>3. RootNsIn({}) = {} /\ IsKeyed({})
    BY DEF RootNsIn, IsKeyed
  <2> QED
    BY <2>2, <2>3 DEF OwnStoreSound
<1> QED
  BY <1>1, NextSound, PTL DEF Spec

(* The cached root_ns of every object is the apex NS among the records it    *)
(* shows: what raise_if_unsafe and the handling of the root NS rely on.      *)
THEOREM RootNsCorrect == Spec => []RootNsAgrees
<1>1. IndInv => RootNsAgrees
  BY HolderType DEF IndInv, OwnStoreSound, RootNsAgrees, RootNs, Records
<1> QED
  BY <1>1, Inductive, PTL

(* No object ever shows two records of one name and type. *)
THEOREM KeysCorrect == Spec => []ShowsKeyed
<1>1. IndInv => ShowsKeyed
  BY HolderType DEF IndInv, OwnStoreSound, ShowsKeyed, Records
<1> QED
  BY <1>1, Inductive, PTL

-----------------------------------------------------------------------------
(* What a call does to the records that the objects show *)

(* A write shows on the object it is made on.  It shows nowhere else, if it *)
(* leaves the contents as they were or no copy reads the object's records.  *)
LEMMA StoreShows ==
  ASSUME TypeOK, TypeOK', NEW z \in Zones, NEW contents, NEW root,
         Store(z, contents, root),
         contents = Records(z) \/ \A y \in Zones : origin[y] # z,
         NEW x \in Zones
  PROVE  Records(x)' = IF x = z THEN contents ELSE Records(x)
<1> DEFINE holder == HolderIn(origin)
           after == HolderIn(origin')
           shows(y) == IF y = z THEN contents ELSE records[holder[y]]
           bad == {y \in Zones : records'[after[y]] # shows(y)}
<1>1. /\ Zones' = Zones /\ Zones \subseteq Ids
      /\ origin' = [origin EXCEPT ![z] = NoOrigin]
      /\ records' = [records EXCEPT ![z] = contents]
  BY MaxZonesAssumption DEF TypeOK, Store, Zones, Ids
<1>2. IsForest(origin) /\ IsForest(origin')
  BY DEF TypeOK, IsForest
<1>3. \A y \in Ids : /\ origin[y] = NoOrigin => holder[y] = y
                     /\ origin[y] # NoOrigin => holder[y] = holder[origin[y]]
  BY <1>2, HolderUnfolds
<1>4. \A y \in Ids : /\ origin'[y] = NoOrigin => after[y] = y
                     /\ origin'[y] # NoOrigin => after[y] = after[origin'[y]]
  BY <1>2, HolderUnfolds
<1>5. \A y \in Zones : origin[y] # NoOrigin => origin[y] \in Zones /\ origin[y] < y
  BY <1>1, MaxZonesAssumption DEF TypeOK, Zones, Ids
<1>6. contents = records[holder[z]] \/ \A y \in Zones : origin[y] # z
  BY DEF Records, Holder
<1> HIDE DEF holder, after
<1>7. bad = {}
  <2>1. SUFFICES ASSUME bad # {} PROVE FALSE
    OBVIOUS
  <2>2. bad \subseteq Ids
    BY <1>1
  <2>3. PICK y \in bad : \A w \in bad : ~(w < y)
    BY <2>1, <2>2, FirstObject
  <2>4. y # z
    BY <1>1, <1>4, <2>3 DEF TypeOK
  <2>5. origin'[y] = origin[y] /\ y \in Ids
    BY <1>1, <2>3, <2>4 DEF TypeOK
  <2>6. origin[y] # NoOrigin
    BY <1>1, <1>3, <1>4, <2>3, <2>4, <2>5 DEF TypeOK
  <2>7. origin[y] \in Zones /\ origin[y] \notin bad
    BY <1>5, <2>3, <2>6
  <2>8. records'[after[y]] = shows(origin[y])
    BY <1>4, <2>5, <2>6, <2>7
  <2>9. shows(origin[y]) = records[holder[y]]
    BY <1>3, <1>6, <2>3, <2>5, <2>6
  <2> QED
    BY <2>3, <2>4, <2>8, <2>9
<1>8. Records(x)' = records'[after[x]]
  BY DEF Records, Holder, after
<1> QED
  BY <1>7, <1>8 DEF Records, Holder, holder

(* A new copy shows what its original shows; nothing else changes. *)
LEMMA CopyShows ==
  ASSUME TypeOK, TypeOK', NEW z \in Zones, Copy(z), NEW x \in Zones'
  PROVE  Records(x)' = IF x = made + 1 THEN Records(z) ELSE Records(x)
<1> DEFINE holder == HolderIn(origin)
           after == HolderIn(origin')
           shows(y) == IF y = made + 1 THEN records[holder[z]] ELSE records[holder[y]]
           bad == {y \in Zones' : records'[after[y]] # shows(y)}
<1>1. /\ made \in Nat /\ made' = made + 1 /\ made + 1 \in Ids /\ made + 1 \notin Zones
      /\ Zones' = Zones \cup {made + 1} /\ Zones' \subseteq Ids /\ z # NoOrigin
      /\ origin' = [origin EXCEPT ![made + 1] = z]
      /\ records' = [records EXCEPT ![made + 1] = {}]
  BY MaxZonesAssumption DEF TypeOK, Copy, Zones, Ids, NoOrigin
<1>2. IsForest(origin) /\ IsForest(origin')
  BY DEF TypeOK, IsForest
<1>3. \A y \in Ids : /\ origin[y] = NoOrigin => holder[y] = y
                     /\ origin[y] # NoOrigin => holder[y] = holder[origin[y]]
  BY <1>2, HolderUnfolds
<1>4. \A y \in Ids : /\ origin'[y] = NoOrigin => after[y] = y
                     /\ origin'[y] # NoOrigin => after[y] = after[origin'[y]]
  BY <1>2, HolderUnfolds
<1>5. \A y \in Zones : origin[y] # NoOrigin => origin[y] \in Zones /\ origin[y] < y
  BY <1>1, MaxZonesAssumption DEF TypeOK, Zones, Ids
<1> HIDE DEF holder, after
<1>6. bad = {}
  <2>1. SUFFICES ASSUME bad # {} PROVE FALSE
    OBVIOUS
  <2>2. bad \subseteq Ids
    BY <1>1
  <2>3. PICK y \in bad : \A w \in bad : ~(w < y)
    BY <2>1, <2>2, FirstObject
  <2>4. CASE y = made + 1
    <3>1. origin'[y] = z /\ z < y /\ z \in Zones' /\ z # made + 1
      BY <1>1, <2>4 DEF TypeOK, Zones
    <3>2. records'[after[z]] = records[holder[z]]
      BY <2>3, <3>1
    <3> QED
      BY <1>1, <1>4, <2>3, <2>4, <3>1, <3>2
  <2>5. CASE y # made + 1
    <3>1. origin'[y] = origin[y] /\ y \in Zones /\ y \in Ids
      BY <1>1, <2>3, <2>5 DEF TypeOK
    <3>2. origin[y] # NoOrigin
      BY <1>1, <1>3, <1>4, <2>3, <2>5, <3>1 DEF TypeOK
    <3>3. origin[y] \in Zones /\ origin[y] \notin bad /\ origin[y] # made + 1
      BY <1>1, <1>5, <2>3, <3>1, <3>2
    <3> QED
      BY <1>1, <1>3, <1>4, <2>3, <2>5, <3>1, <3>2, <3>3
  <2> QED
    BY <2>4, <2>5
<1>7. Records(x)' = records'[after[x]]
  BY DEF Records, Holder, after
<1> QED
  BY <1>6, <1>7 DEF Records, Holder, holder

(* A call that is refused takes no record away from any object, not from the *)
(* one it is made on and not from those that share its records.              *)
THEOREM RefusalsKeepRecords == Spec => RefusalKeepsRecords
<1>1. TypeOK /\ TypeOK' /\ [Next]_vars
      => [outcome' # "ok" => \A z \in Zones : Records(z)' = Records(z)]_vars
  <2>1. SUFFICES ASSUME TypeOK, TypeOK', Next, outcome' # "ok", NEW x \in Zones
                 PROVE  Records(x)' = Records(x)
    OBVIOUS
  <2>2. PICK z \in Zones, r \in Record, replace \in BOOLEAN, lenient \in BOOLEAN :
           AddRecord(z, r, replace, lenient)
    BY <2>1 DEF Next, RemoveRecord, Hydrate, Copy
  <2>3. CASE AddBarred(z, r, lenient)
    BY <2>1, <2>3, StoreShows DEF AddBarred, OwnRecords
  <2>4. CASE AddDuplicate(z, r, replace, lenient)
    <3>1. AddTo(z, r, replace) = Records(z)
      BY <2>4, DiscardFacts DEF AddDuplicate, AddTo, OwnRecords
    <3> QED
      BY <2>1, <2>4, <3>1, StoreShows DEF AddDuplicate
  <2> QED
    BY <2>1, <2>2, <2>3, <2>4 DEF AddRecord, AddNew
<1> QED
  BY <1>1, TypeCorrect, PTL DEF Spec, RefusalKeepsRecords

-----------------------------------------------------------------------------
(* The copies are snapshots *)

(* In the order of calls that octoDNS keeps, a write changes what the one   *)
(* object shows.                                                            *)
LEMMA StoreIsChange ==
  ASSUME TypeOK, TypeOK', NEW z \in Zones, NEW contents, NEW root,
         Store(z, contents, root),
         contents = Records(z) \/ \A y \in Zones : origin[y] # z
  PROVE  /\ Shown' = [Shown EXCEPT ![z] = contents]
         /\ UNCHANGED <<made, ignore_adds>>
<1>1. Zones' = Zones /\ UNCHANGED <<made, ignore_adds>>
  BY DEF Store, Zones
<1>2. \A x \in Zones : Records(x)' = IF x = z THEN contents ELSE Records(x)
  BY StoreShows
<1>3. Shown' = [x \in Ids |-> IF x \in Zones THEN Records(x)' ELSE {}]
  BY <1>1 DEF Shown
<1> HIDE DEF Shown
<1>4. \A x \in Ids : Shown'[x] = [Shown EXCEPT ![z] = contents][x]
  BY <1>2, <1>3 DEF Shown
<1> QED
  BY <1>1, <1>3, <1>4 DEF Shown

LEMMA StoreKeeps ==
  ASSUME TypeOK, TypeOK', NEW z \in Zones, NEW root, Store(z, Records(z), root)
  PROVE  Shown' = Shown /\ UNCHANGED <<made, ignore_adds>>
<1>1. /\ Shown' = [Shown EXCEPT ![z] = Records(z)]
      /\ UNCHANGED <<made, ignore_adds>>
  BY StoreIsChange
<1>2. z \in Ids /\ Shown[z] = Records(z) /\ Shown = [x \in Ids |-> Shown[x]]
  BY HolderType DEF Shown
<1> HIDE DEF Shown
<1> QED
  BY <1>1, <1>2

LEMMA StepIsSnapshotStep ==
  ASSUME ~SharedWrites, TypeOK, TypeOK', [Next]_vars
  PROVE  [Snapshots!Next]_(Snapshots!vars)
<1> DEFINE Kept == Shown' = Shown /\ UNCHANGED <<made, ignore_adds>>
<1>0. \A z \in Zones : z \in Ids /\ Shown[z] = Records(z)
  BY MaxZonesAssumption DEF TypeOK, Shown, Zones, Ids
<1>00. Snapshots!Zones = Zones
  BY DEF Snapshots!Zones, Zones
<1>1. ASSUME NEW z \in Zones, NEW r \in Record,
             NEW replace \in BOOLEAN, NEW lenient \in BOOLEAN,
             AddRecord(z, r, replace, lenient)
      PROVE  Snapshots!Next
  <2>0. \A y \in Zones : origin[y] # z
    BY <1>1 DEF AddRecord, Writable
  <2>1. CASE AddBarred(z, r, lenient)
    <3>1. Kept
      BY <2>1, StoreKeeps DEF AddBarred, OwnRecords
    <3>2. Snapshots!Refuse(z, r)
      BY <2>1, <3>1 DEF AddBarred, Barred, Snapshots!Refuse
    <3> QED
      BY <1>00, <3>2 DEF Snapshots!Next
  <2>2. CASE AddDuplicate(z, r, replace, lenient)
    <3>1. AddTo(z, r, replace) = Records(z) /\ HasSame(Records(z), r)
      BY <2>2, DiscardFacts DEF AddDuplicate, AddTo, OwnRecords
    <3>2. Kept
      BY <2>2, <3>1, StoreKeeps DEF AddDuplicate
    <3>3. Snapshots!Others(Shown[z], r) # Shown[z]
      BY <1>0, <3>1 DEF HasSame, SameRecord, Snapshots!Others
    <3>4. Snapshots!Refuse(z, r)
      BY <2>2, <3>2, <3>3 DEF AddDuplicate, Snapshots!Refuse
    <3> QED
      BY <1>00, <3>4 DEF Snapshots!Next
  <2>3. CASE AddNew(z, r, replace, lenient)
    <3> DEFINE new == Snapshots!Others(Shown[z], r) \cup {r}
    <3>1. AddTo(z, r, replace) \cup {r} = new
      BY <1>0, <2>3 DEF AddNew, AddTo, OwnRecords, Discard, HasSame, SameRecord,
                        Snapshots!Others
    <3>2. Shown' = [Shown EXCEPT ![z] = new] /\ UNCHANGED <<made, ignore_adds>>
      BY <2>0, <2>3, <3>1, StoreIsChange DEF AddNew
    <3>3. Snapshots!Put(z, r)
      BY <2>3, <3>2 DEF AddNew, Snapshots!Put, Snapshots!Change
    <3> QED
      BY <1>00, <3>3 DEF Snapshots!Next
  <2> QED
    BY <1>1, <2>1, <2>2, <2>3 DEF AddRecord
<1>2. ASSUME NEW z \in Zones, NEW r \in Record, RemoveRecord(z, r)
      PROVE  Snapshots!Next
  <2> DEFINE rest == Snapshots!Others(Shown[z], r)
  <2>1. Discard(OwnRecords(z), r) = rest
    BY <1>0 DEF OwnRecords, Discard, SameRecord, Snapshots!Others
  <2>2. Shown' = [Shown EXCEPT ![z] = rest] /\ UNCHANGED <<made, ignore_adds>>
    BY <1>2, <2>1, StoreIsChange DEF RemoveRecord, Writable
  <2>3. Snapshots!Remove(z, r)
    BY <1>2, <2>2 DEF RemoveRecord, Snapshots!Remove, Snapshots!Change
  <2> QED
    BY <1>00, <2>3 DEF Snapshots!Next
<1>3. ASSUME NEW z \in Zones, Hydrate(z)
      PROVE  Snapshots!Next
  <2>1. Kept
    BY <1>3, StoreKeeps DEF Hydrate, OwnRecords
  <2>2. Snapshots!Touch
    BY <1>3, <2>1 DEF Hydrate, Snapshots!Touch
  <2> QED
    BY <2>2 DEF Snapshots!Next
<1>4. ASSUME NEW z \in Zones, Copy(z)
      PROVE  Snapshots!Next
  <2>1. /\ made + 1 \in Ids /\ made + 1 \notin Zones
        /\ Zones' = Zones \cup {made + 1} /\ Zones' \subseteq Ids
    BY <1>4, MaxZonesAssumption DEF TypeOK, Copy, Zones, Ids
  <2>2. \A x \in Zones' :
           Records(x)' = IF x = made + 1 THEN Records(z) ELSE Records(x)
    BY <1>4, CopyShows
  <2>3. Shown' = [x \in Ids |-> IF x \in Zones' THEN Records(x)' ELSE {}]
    BY DEF Shown
  <2>4. Shown' = [Shown EXCEPT ![made + 1] = Shown[z]]
    BY <1>0, <2>1, <2>2, <2>3 DEF Shown
  <2>5. Snapshots!Copy(z)
    BY <1>4, <2>4 DEF Copy, Snapshots!Copy
  <2> QED
    BY <1>00, <2>5 DEF Snapshots!Next
<1>5. CASE UNCHANGED vars
  BY <1>5 DEF vars, Snapshots!vars, Shown, Records, Holder, Zones
<1> QED
  BY <1>1, <1>2, <1>3, <1>4, <1>5 DEF Next

(* The copies made with Zone.copy() behave as snapshots, so one target's    *)
(* processing of its copy cannot reach another's: it holds for any number   *)
(* of copies and copies of copies, provided that no object is written while *)
(* copies share its records.                                                *)
THEOREM CopiesCorrect == ASSUME ~SharedWrites PROVE Spec => CopiesAreSnapshots
<1>1. Init => Snapshots!Init
  <2> SUFFICES ASSUME Init PROVE Snapshots!Init
    OBVIOUS
  <2>1. Shown = [z \in Ids |-> {}]
    <3>1. \A z \in Zones : z \in Ids
      BY MaxZonesAssumption DEF Init, Zones, Ids
    <3>2. \A z \in Zones : Records(z) = {}
      BY <3>1, InitType, HolderType DEF Init, Records
    <3> QED
      BY <3>2 DEF Shown
  <2> QED
    BY <2>1 DEF Init, Snapshots!Init, Shown, Ids, Snapshots!Ids
<1>2. TypeOK /\ TypeOK' /\ [Next]_vars => [Snapshots!Next]_(Snapshots!vars)
  BY StepIsSnapshotStep
<1> QED
  BY <1>1, <1>2, TypeCorrect, PTL DEF Spec, CopiesAreSnapshots, Snapshots!Spec
=============================================================================
