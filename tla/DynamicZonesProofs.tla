------------------------ MODULE DynamicZonesProofs ------------------------
(***************************************************************************)
(* Whatever is configured and listed: a zone is claimed by the first       *)
(* dynamic configuration that matches it, and once all of them were        *)
(* expanded, the sub-zones that were computed are those of every later     *)
(* call, so that each name is at home in one zone.                         *)
(***************************************************************************)
EXTENDS DynamicZones, SequenceTheorems, WellFoundedInduction, TLAPS

(* a state of the expansion *)
St == [zones : [Zone -> ConfigId \cup {None}], dynamic : Seq(ConfigId),
       popped : SUBSET ConfigId, raised : BOOLEAN]
Start == [zones |-> zones, dynamic |-> dynamic, popped |-> popped, raised |-> FALSE]

IsOnce(s) == \A i, j \in 1 .. Len(s) : s[i] = s[j] => i = j

Shape ==
  /\ setup \in Setups
  /\ zones \in [Zone -> ConfigId \cup {None}]
  /\ dynamic \in Seq(ConfigId) /\ IsOnce(dynamic)
  /\ popped \in SUBSET ConfigId
  /\ listed \in Listings

-----------------------------------------------------------------------------
(* The expansion is a recursive function: it exists, one stage after the    *)
(* other.                                                                   *)

LEMMA Least ==
  ASSUME NEW T, T \subseteq Nat, T # {}
  PROVE  \E x \in T : \A y \in T : x <= y
<1> DEFINE R == OpToRel(<, Nat)
<1>1. R = {ss \in Nat \X Nat : ss[1] < ss[2]}
  BY DEF OpToRel
<1>2. IsWellFoundedOn(R, Nat)
  BY NatLessThanWellFounded
<1> HIDE DEF R
<1>3. PICK x \in T : \A y \in T : ~(<<y, x>> \in R)
  BY <1>2, WFMin
<1>4. ASSUME NEW y \in T PROVE x <= y
  <2>1. x \in Nat /\ y \in Nat
    OBVIOUS
  <2>2. ~(y < x)
    BY <1>1, <1>3, <2>1
  <2> QED  BY <2>1, <2>2
<1> QED  BY <1>3, <1>4

(* f holds the stages up to the n-th. *)
IsExpansion(f, n, given, eligible) ==
  f = [i \in 0 .. n |-> IF i = 0 THEN Start
                        ELSE Expand(f[i - 1], dynamic[i], given, eligible)]

LEMMA ExpansionExists ==
  ASSUME NEW given, NEW eligible, NEW n \in Nat
  PROVE  \E f : IsExpansion(f, n, given, eligible)
<1> DEFINE T == {m \in Nat : ~\E f : IsExpansion(f, m, given, eligible)}
<1> SUFFICES ASSUME T # {} PROVE FALSE
  OBVIOUS
<1>1. PICK m \in T : \A y \in T : m <= y
  BY Least
<1>2. m # 0
  <2>1. IsExpansion([i \in 0 .. 0 |-> Start], 0, given, eligible)
    BY DEF IsExpansion
  <2> QED  BY <2>1
<1>3. PICK f : IsExpansion(f, m - 1, given, eligible)
  BY <1>1, <1>2
<1> DEFINE g == [i \in 0 .. m |-> IF i < m THEN f[i]
                                  ELSE Expand(f[m - 1], dynamic[m], given, eligible)]
<1>4. \A i \in 0 .. m - 1 : g[i] = f[i]
  BY <1>1
<1>5. ASSUME NEW i \in 0 .. m
      PROVE  g[i] = IF i = 0 THEN Start ELSE Expand(g[i - 1], dynamic[i], given, eligible)
  <2>1. CASE i = 0
    BY <1>1, <1>2, <1>3, <2>1 DEF IsExpansion
  <2>2. CASE i # 0 /\ i < m
    <3>1. i \in 0 .. m - 1 /\ i - 1 \in 0 .. m - 1
      BY <2>2
    <3>2. f[i] = Expand(f[i - 1], dynamic[i], given, eligible)
      BY <1>3, <2>2, <3>1 DEF IsExpansion
    <3> QED  BY <1>4, <2>2, <3>1, <3>2
  <2>3. CASE i = m
    <3>1. i - 1 \in 0 .. m - 1
      BY <1>2, <2>3
    <3>2. g[i] = Expand(f[i - 1], dynamic[i], given, eligible)
      BY <1>1, <2>3
    <3> QED  BY <1>2, <1>4, <2>3, <3>1, <3>2
  <2> QED  BY <2>1, <2>2, <2>3
<1>6. IsExpansion(g, m, given, eligible)
  <2>1. g = [i \in 0 .. m |-> g[i]]
    OBVIOUS
  <2> HIDE DEF g
  <2> QED  BY <1>5, <2>1 DEF IsExpansion
<1> QED  BY <1>1, <1>6

LEMMA PreprocessStages ==
  ASSUME NEW given, NEW eligible, Len(dynamic) \in Nat
  PROVE  \E f : /\ Preprocess(given, eligible) = f[Len(dynamic)]
                /\ f[0] = Start
                /\ \A i \in 1 .. Len(dynamic) :
                     f[i] = Expand(f[i - 1], dynamic[i], given, eligible)
<1> DEFINE n == Len(dynamic)
           f == CHOOSE g : IsExpansion(g, n, given, eligible)
<1>1. IsExpansion(f, n, given, eligible)
  BY ExpansionExists
<1>2. Preprocess(given, eligible) = f[n]
  BY DEF Preprocess, IsExpansion, Start
<1> HIDE DEF f
<1>3. f[0] = Start
  BY <1>1 DEF IsExpansion
<1>4. \A i \in 1 .. n : f[i] = Expand(f[i - 1], dynamic[i], given, eligible)
  BY <1>1 DEF IsExpansion
<1> QED  BY <1>2, <1>3, <1>4

-----------------------------------------------------------------------------
(* One stage *)

FoundFor(c, given) == IF given # {} THEN given ELSE Config[c].sources

LEMMA ExpandOne ==
  ASSUME NEW st \in St, NEW c \in ConfigId, NEW given, NEW eligible,
         st.raised \/ st.dynamic # << >>
  PROVE  /\ Expand(st, c, given, eligible) \in St
         /\ \/ /\ Expand(st, c, given, eligible).raised
               /\ Expand(st, c, given, eligible).zones = st.zones
               /\ Expand(st, c, given, eligible).dynamic = st.dynamic
            \/ /\ ~st.raised
               /\ ~Expand(st, c, given, eligible).raised
               /\ FoundFor(c, given) \subseteq Listers
               /\ Expand(st, c, given, eligible) = Expanded(st, c, FoundFor(c, given))
<1> DEFINE e == Expand(st, c, given, eligible)
           found == FoundFor(c, given)
<1>0. found = IF given # {} THEN given ELSE Config[c].sources
  BY DEF FoundFor
<1>1. CASE st.raised
  BY <1>1 DEF Expand
<1>2. CASE ~st.raised /\ (\/ given = {} /\ LacksSources(c, eligible)
                          \/ ~(found \subseteq Listers))
  <2>1. e = [st EXCEPT !.raised = TRUE]
    BY <1>0, <1>2 DEF Expand
  <2> QED  BY <2>1 DEF St
<1>3. CASE ~st.raised /\ found \subseteq Listers /\ e = [st EXCEPT !.raised = TRUE, !.popped = @ \cup {c}]
  <2>1. e = [zones |-> st.zones, dynamic |-> st.dynamic,
             popped |-> st.popped \cup {c}, raised |-> TRUE]
    BY <1>3 DEF St
  <2>2. e \in St
    BY <2>1 DEF St
  <2> HIDE DEF e
  <2> QED  BY <2>1, <2>2 DEF e
<1>4. CASE ~st.raised /\ found \subseteq Listers /\ e = Expanded(st, c, found)
  <2> DEFINE spellings == UNION {listed[s] : s \in found}
             candidates == spellings \ TakenBy(st.zones, spellings)
             matches == {IdnaEncode[s] : s \in Matching(c, st.popped, candidates)}
             zs == [z \in Zone |-> IF z \in matches THEN c ELSE st.zones[z]]
  <2>1. e = [st EXCEPT !.zones = [z \in Zone |-> IF z \in matches THEN c ELSE @[z]],
                       !.dynamic = Tail(@), !.popped = @ \cup {c}]
    BY <1>4 DEF Expanded
  <2>2. st.zones \in [Zone -> ConfigId \cup {None}] /\ st.dynamic \in Seq(ConfigId)
        /\ st.popped \subseteq ConfigId
    BY DEF St
  <2> HIDE DEF matches
  <2>3. zs \in [Zone -> ConfigId \cup {None}]
    BY <2>2
  <2>4. Tail(st.dynamic) \in Seq(ConfigId)
    BY <1>4, <2>2, HeadTailProperties
  <2>5. e = [zones |-> zs, dynamic |-> Tail(st.dynamic), popped |-> st.popped \cup {c},
             raised |-> st.raised]
    BY <2>1 DEF St
  <2> HIDE DEF zs
  <2>6. e \in St /\ ~e.raised
    BY <1>4, <2>2, <2>3, <2>4, <2>5 DEF St
  <2> QED  BY <1>4, <2>6
<1> QED  BY <1>0, <1>1, <1>2, <1>3, <1>4 DEF Expand

(* What an expansion does to one zone: nobody's becomes c's if c claims it. *)
ClaimedBy(z, c, given, taken) ==
  \E s \in FoundFor(c, given) : \E n \in listed[s] :
    IdnaEncode[n] = z /\ n \in Matching(c, taken, {n})

LEMMA ExpandedZone ==
  ASSUME NEW st \in St, NEW c \in ConfigId, NEW given, listed \in Listings,
         FoundFor(c, given) \subseteq Listers,
         NEW z \in Zone
  PROVE  LET e == Expanded(st, c, FoundFor(c, given))
         IN  /\ st.dynamic # << >> => e.dynamic = Tail(st.dynamic)
             /\ e.popped = st.popped \cup {c}
             /\ st.zones[z] # None /\ ~ListedInUtf8(z) => e.zones[z] = st.zones[z]
             /\ st.zones[z] = None /\ ~ListedInUtf8(z) =>
                  e.zones[z] = IF ClaimedBy(z, c, given, st.popped) THEN c ELSE None
<1> DEFINE found == FoundFor(c, given)
           spellings == UNION {listed[s] : s \in found}
           candidates == spellings \ TakenBy(st.zones, spellings)
           matched == Matching(c, st.popped, candidates)
           matches == {IdnaEncode[s] : s \in matched}
           e == Expanded(st, c, found)
<1>1. /\ e.zones = [y \in Zone |-> IF y \in matches THEN c ELSE st.zones[y]]
      /\ e.dynamic = Tail(st.dynamic)
      /\ e.popped = st.popped \cup {c}
  BY DEF Expanded, St
<1>2. found \subseteq Source
  BY ListersAssumption
<1>3. ASSUME ~ListedInUtf8(z), NEW n \in spellings, IdnaEncode[n] = z
      PROVE  /\ n \in candidates <=> st.zones[z] = None
             /\ n \in matched <=> n \in candidates /\ n \in Matching(c, st.popped, {n})
  <2>1. n \notin Utf8
    BY <1>2, <1>3 DEF ListedInUtf8
  <2>2. n \in TakenBy(st.zones, spellings) <=> st.zones[z] # None
    BY <1>3, <2>1 DEF TakenBy
  <2> QED  BY <2>2 DEF Matching
<1>4. matched \subseteq candidates
  BY DEF Matching
<1>5. ASSUME ~ListedInUtf8(z)
      PROVE  z \in matches <=> st.zones[z] = None /\ ClaimedBy(z, c, given, st.popped)
  <2>1. ASSUME z \in matches
        PROVE  st.zones[z] = None /\ ClaimedBy(z, c, given, st.popped)
    <3>1. PICK n \in matched : IdnaEncode[n] = z
      BY <2>1
    <3>2. n \in spellings
      BY <1>4
    <3>3. st.zones[z] = None /\ n \in Matching(c, st.popped, {n})
      BY <1>3, <1>4, <1>5, <3>1, <3>2
    <3> QED  BY <3>1, <3>2, <3>3 DEF ClaimedBy
  <2>2. ASSUME st.zones[z] = None, ClaimedBy(z, c, given, st.popped)
        PROVE  z \in matches
    <3>1. PICK s \in found : \E n \in listed[s] :
            IdnaEncode[n] = z /\ n \in Matching(c, st.popped, {n})
      BY <2>2 DEF ClaimedBy
    <3>2. PICK n \in listed[s] : IdnaEncode[n] = z /\ n \in Matching(c, st.popped, {n})
      BY <3>1
    <3>3. n \in matched
      BY <1>3, <1>5, <2>2, <3>2
    <3> QED  BY <3>2, <3>3
  <2> QED  BY <2>1, <2>2
<1> HIDE DEF matches, e
<1> QED  BY <1>1, <1>5 DEF e

-----------------------------------------------------------------------------
(* What is known of the i-th stage *)

(* the dynamic configurations after the k-th are left *)
IsLeft(s, k) ==
  /\ Len(s) = Len(dynamic) - k
  /\ \A j \in 1 .. Len(s) : s[j] = dynamic[k + j]

Untouched(z, given, i) == zones[z] # None \/ \A j \in 1 .. i : j \notin Claimants(z, given)
IsFirst(z, given, j) ==
  j \in Claimants(z, given) /\ \A l \in 1 .. j - 1 : l \notin Claimants(z, given)
Belongs(z, given, i, to) ==
  \/ Untouched(z, given, i) /\ to = zones[z]
  \/ zones[z] = None /\ \E j \in 1 .. i : IsFirst(z, given, j) /\ to = dynamic[j]

Stage(st, given, i) ==
  /\ st \in St
  /\ \E k \in 0 .. i :
       /\ IsLeft(st.dynamic, k)
       /\ \A z \in Zone : ~ListedInUtf8(z) => Belongs(z, given, k, st.zones[z])
       /\ ~st.raised => k = i /\ st.popped = popped \cup {dynamic[j] : j \in 1 .. i}

LEMMA FirstStage ==
  ASSUME Shape, NEW given
  PROVE  Stage(Start, given, 0)
<1>1. Start \in St /\ Len(dynamic) \in Nat
  BY LenProperties DEF Shape, St, Start
<1>2. IsLeft(Start.dynamic, 0)
  BY <1>1 DEF IsLeft, Start
<1>3. Start.popped = popped \cup {dynamic[j] : j \in 1 .. 0}
  BY DEF Start
<1>4. \A z \in Zone : Belongs(z, given, 0, Start.zones[z])
  BY DEF Belongs, Untouched, Start
<1> QED  BY <1>1, <1>2, <1>3, <1>4 DEF Stage

LEMMA ClaimantIs ==
  ASSUME Shape, NEW given, NEW i \in 1 .. Len(dynamic), NEW z
  PROVE  i \in Claimants(z, given)
           <=> ClaimedBy(z, dynamic[i], given, popped \cup {dynamic[j] : j \in 1 .. i - 1})
<1>1. DOMAIN dynamic = 1 .. Len(dynamic) /\ Len(dynamic) \in Nat
  BY LenProperties DEF Shape
<1>2. dynamic[i] \notin {dynamic[j] : j \in 1 .. i - 1}
  <2> SUFFICES ASSUME NEW j \in 1 .. i - 1, dynamic[i] = dynamic[j] PROVE FALSE
    OBVIOUS
  <2>1. j \in 1 .. Len(dynamic) /\ j # i
    BY <1>1
  <2> QED  BY <2>1 DEF Shape, IsOnce
<1> DEFINE taken == popped \cup {dynamic[j] : j \in 1 .. i - 1}
<1>3. dynamic[i] \in taken <=> dynamic[i] \in popped
  BY <1>2
<1> HIDE DEF taken
<1>4. \A n : n \in Matching(dynamic[i], taken, {n}) <=> n \in Matching(dynamic[i], popped, {n})
  BY <1>3 DEF Matching
<1>5. FoundFor(dynamic[i], given) = IF given = {} THEN Config[dynamic[i]].sources ELSE given
  BY DEF FoundFor
<1>6. i \in Claimants(z, given) <=> ClaimedBy(z, dynamic[i], given, popped)
  BY <1>1, <1>5 DEF Claimants, ClaimedBy
<1>7. ClaimedBy(z, dynamic[i], given, popped) <=> ClaimedBy(z, dynamic[i], given, taken)
  BY <1>4 DEF ClaimedBy
<1> QED  BY <1>6, <1>7 DEF taken

LEMMA NextStage ==
  ASSUME Shape, NEW given, NEW eligible, NEW i \in 1 .. Len(dynamic), NEW st,
         Stage(st, given, i - 1)
  PROVE  Stage(Expand(st, dynamic[i], given, eligible), given, i)
<1> DEFINE c == dynamic[i]
           e == Expand(st, c, given, eligible)
           found == FoundFor(c, given)
<1> SUFFICES Stage(e, given, i)
  OBVIOUS
<1>1. Len(dynamic) \in Nat /\ c \in ConfigId
  BY LenProperties, ElementOfSeq DEF Shape
<1>2. st \in St /\ st.dynamic \in Seq(ConfigId)
  BY DEF Stage, St
<1>3. PICK k \in 0 .. i - 1 :
        /\ IsLeft(st.dynamic, k)
        /\ \A z \in Zone : ~ListedInUtf8(z) => Belongs(z, given, k, st.zones[z])
        /\ ~st.raised => /\ k = i - 1
                         /\ st.popped = popped \cup {dynamic[j] : j \in 1 .. i - 1}
  BY DEF Stage
<1>4. ~st.raised => st.dynamic # << >>
  <2> SUFFICES ASSUME ~st.raised, Len(st.dynamic) = 0 PROVE FALSE
    BY <1>2
  <2> QED  BY <1>1, <1>3 DEF IsLeft
<1>5. /\ e \in St
      /\ \/ e.raised /\ e.zones = st.zones /\ e.dynamic = st.dynamic
         \/ /\ ~st.raised /\ ~e.raised /\ found \subseteq Listers
            /\ e = Expanded(st, c, found)
  BY <1>1, <1>2, <1>4, ExpandOne
<1> HIDE DEF e, c
<1>6. CASE e.raised /\ e.zones = st.zones /\ e.dynamic = st.dynamic
  <2>1. k \in 0 .. i
    BY <1>1
  <2> QED  BY <1>3, <1>5, <1>6, <2>1 DEF Stage
<1>7. CASE ~st.raised /\ ~e.raised /\ found \subseteq Listers /\ e = Expanded(st, c, found)
  <2>0. listed \in Listings
    BY DEF Shape
  <2>1. e.dynamic = Tail(st.dynamic) /\ e.popped = st.popped \cup {c}
    BY <1>4, <1>7 DEF Expanded, St, Stage
  <2>2. st.popped = popped \cup {dynamic[j] : j \in 1 .. i - 1} /\ k = i - 1
    BY <1>3, <1>7
  <2>3. e.popped = popped \cup {dynamic[j] : j \in 1 .. i}
    BY <1>1, <2>1, <2>2 DEF c
  <2>4. IsLeft(e.dynamic, i)
    <3>1. /\ Len(Tail(st.dynamic)) = Len(st.dynamic) - 1
          /\ \A j \in 1 .. Len(Tail(st.dynamic)) : Tail(st.dynamic)[j] = st.dynamic[j + 1]
      BY <1>2, <1>4, <1>7, HeadTailProperties
    <3>2. Len(st.dynamic) = Len(dynamic) - (i - 1) /\ Len(e.dynamic) = Len(dynamic) - i
      BY <1>1, <1>3, <2>1, <2>2, <3>1 DEF IsLeft
    <3>3. ASSUME NEW j \in 1 .. Len(e.dynamic) PROVE e.dynamic[j] = dynamic[i + j]
      <4>1. j + 1 \in 1 .. Len(st.dynamic) /\ (i - 1) + (j + 1) = i + j
        BY <1>1, <3>2
      <4>2. st.dynamic[j + 1] = dynamic[(i - 1) + (j + 1)]
        BY <1>3, <2>2, <4>1 DEF IsLeft
      <4> QED  BY <2>1, <3>1, <4>1, <4>2
    <3> QED  BY <3>2, <3>3 DEF IsLeft
  <2>5. ASSUME NEW z \in Zone, ~ListedInUtf8(z)
        PROVE  Belongs(z, given, i, e.zones[z])
    <3>1. Belongs(z, given, i - 1, st.zones[z])
      BY <1>3, <2>2, <2>5
    <3>2. /\ st.zones[z] # None => e.zones[z] = st.zones[z]
          /\ st.zones[z] = None =>
               e.zones[z] = IF ClaimedBy(z, c, given, st.popped) THEN c ELSE None
      BY <1>1, <1>2, <1>7, <2>0, <2>5, ExpandedZone
    <3>3. ClaimedBy(z, c, given, st.popped) <=> i \in Claimants(z, given)
      <4> DEFINE taken == popped \cup {dynamic[j] : j \in 1 .. i - 1}
      <4>1. i \in Claimants(z, given) <=> ClaimedBy(z, dynamic[i], given, taken)
        BY ClaimantIs
      <4>2. st.popped = taken
        BY <2>2
      <4> HIDE DEF taken
      <4> QED  BY <4>1, <4>2 DEF c
    <3>4. \A j \in 1 .. i : j = i \/ j \in 1 .. i - 1
      BY <1>1
    <3>5. CASE zones[z] # None
      <4>1. st.zones[z] = zones[z]
        BY <3>1, <3>5 DEF Belongs
      <4> QED  BY <3>2, <3>5, <4>1 DEF Belongs, Untouched
    <3>6. CASE zones[z] = None /\ \A j \in 1 .. i - 1 : j \notin Claimants(z, given)
      <4>1. st.zones[z] = None
        BY <3>1, <3>6 DEF Belongs, IsFirst
      <4>2. CASE i \in Claimants(z, given)
        BY <3>2, <3>3, <3>6, <4>1, <4>2 DEF Belongs, IsFirst, c
      <4>3. CASE i \notin Claimants(z, given)
        BY <3>2, <3>3, <3>4, <3>6, <4>1, <4>3 DEF Belongs, Untouched
      <4> QED  BY <4>2, <4>3
    <3>7. CASE zones[z] = None /\ \E j \in 1 .. i - 1 : j \in Claimants(z, given)
      <4>1. PICK j \in 1 .. i - 1 : IsFirst(z, given, j) /\ st.zones[z] = dynamic[j]
        BY <3>1, <3>7 DEF Belongs, Untouched
      <4>2. j \in 1 .. Len(dynamic) /\ j \in 1 .. i
        BY <1>1
      <4>3. dynamic[j] \in ConfigId
        BY <4>2, ElementOfSeq DEF Shape
      <4>4. e.zones[z] = dynamic[j]
        BY <3>2, <4>1, <4>3, NamesAssumption
      <4> QED  BY <3>7, <4>1, <4>2, <4>4 DEF Belongs
    <3> QED  BY <3>5, <3>6, <3>7
  <2>6. i \in 0 .. i
    BY <1>1
  <2> QED  BY <1>5, <2>3, <2>4, <2>5, <2>6 DEF Stage
<1> QED  BY <1>5, <1>6, <1>7 DEF c, e

LEMMA Expansion ==
  ASSUME Shape, NEW given, NEW eligible
  PROVE  /\ Stage(Preprocess(given, eligible), given, Len(dynamic))
         /\ dynamic = << >> => Preprocess(given, eligible) = Start
<1> DEFINE n == Len(dynamic)
<1>1. n \in Nat
  BY LenProperties DEF Shape
<1>2. PICK f : /\ Preprocess(given, eligible) = f[n]
               /\ f[0] = Start
               /\ \A i \in 1 .. n : f[i] = Expand(f[i - 1], dynamic[i], given, eligible)
  BY <1>1, PreprocessStages
<1> DEFINE T == {i \in 0 .. n : ~Stage(f[i], given, i)}
<1>3. T = {}
  <2> SUFFICES ASSUME T # {} PROVE FALSE
    OBVIOUS
  <2>0. T \subseteq Nat
    BY <1>1
  <2>1. PICK i \in T : \A j \in T : i <= j
    <3> HIDE DEF T
    <3> QED  BY <2>0, Least
  <2>2. i # 0
    BY <1>2, FirstStage
  <2>3. Stage(f[i - 1], given, i - 1) /\ i \in 1 .. n
    BY <1>1, <2>1, <2>2
  <2>4. Stage(Expand(f[i - 1], dynamic[i], given, eligible), given, i)
    BY <2>3, NextStage
  <2> QED  BY <1>2, <2>1, <2>3, <2>4
<1>4. n \in 0 .. n
  BY <1>1
<1> QED  BY <1>2, <1>3, <1>4

(* FirstClaims: whichever call expands the dynamic configurations, a zone   *)
(* that is configured keeps its configuration, and a listed one goes to the *)
(* first dynamic configuration in order that matches it, for any number of  *)
(* configurations, sources and zones.                                       *)
LEMMA FirstClaim ==
  ASSUME Shape
  PROVE  FirstClaims
<1> SUFFICES ASSUME NEW given \in SUBSET Listers, ~Preprocess(given, {}).raised,
                    NEW z \in Zone, ~ListedInUtf8(z)
             PROVE  Preprocess(given, {}).zones[z] =
                      IF zones[z] # None \/ Claimants(z, given) = {} THEN zones[z]
                      ELSE dynamic[CHOOSE i \in Claimants(z, given) :
                                     \A j \in Claimants(z, given) : i <= j]
  BY DEF FirstClaims
<1> DEFINE to == Preprocess(given, {}).zones[z]
           n == Len(dynamic)
<1>1. n \in Nat /\ Claimants(z, given) \subseteq 1 .. n
  BY LenProperties DEF Shape, Claimants
<1>2. Belongs(z, given, n, to)
  BY Expansion DEF Stage
<1>3. CASE Untouched(z, given, n) /\ to = zones[z]
  BY <1>1, <1>3 DEF Untouched
<1>4. CASE zones[z] = None /\ \E j \in 1 .. n : IsFirst(z, given, j) /\ to = dynamic[j]
  <2>1. PICK j \in 1 .. n : IsFirst(z, given, j) /\ to = dynamic[j]
    BY <1>4
  <2> DEFINE i == CHOOSE i \in Claimants(z, given) : \A l \in Claimants(z, given) : i <= l
  <2>2. j \in Claimants(z, given) /\ \A l \in Claimants(z, given) : j <= l
    BY <1>1, <2>1 DEF IsFirst
  <2>3. i \in Claimants(z, given) /\ \A l \in Claimants(z, given) : i <= l
    BY <2>2
  <2> HIDE DEF i
  <2>4. i = j
    BY <1>1, <2>1, <2>2, <2>3
  <2> QED  BY <1>4, <2>1, <2>2, <2>4 DEF i
<1> QED  BY <1>2, <1>3, <1>4 DEF Belongs

-----------------------------------------------------------------------------
(* Types.  What is expanded is taken from the front. *)

LEMMA PreprocessShape ==
  ASSUME Shape, NEW given, NEW eligible, Preprocessed(Preprocess(given, eligible)),
         UNCHANGED <<setup, listed>>
  PROVE  Shape'
<1> DEFINE p == Preprocess(given, eligible)
           n == Len(dynamic)
<1>1. Stage(p, given, n) /\ n \in Nat
  BY Expansion, LenProperties DEF Shape
<1>2. zones' = p.zones /\ dynamic' = p.dynamic /\ popped' = p.popped
  BY DEF Preprocessed
<1> HIDE DEF p
<1>3. /\ p.zones \in [Zone -> ConfigId \cup {None}]
      /\ p.dynamic \in Seq(ConfigId) /\ p.popped \in SUBSET ConfigId
  BY <1>1 DEF Stage, St
<1>4. PICK k \in 0 .. n : IsLeft(p.dynamic, k)
  BY <1>1 DEF Stage
<1>5. IsOnce(p.dynamic)
  <2> SUFFICES ASSUME NEW i \in 1 .. Len(p.dynamic), NEW j \in 1 .. Len(p.dynamic),
                      p.dynamic[i] = p.dynamic[j]
               PROVE  i = j
    BY DEF IsOnce
  <2>1. /\ k + i \in 1 .. n /\ k + j \in 1 .. n
        /\ p.dynamic[i] = dynamic[k + i] /\ p.dynamic[j] = dynamic[k + j]
    BY <1>1, <1>4 DEF IsLeft
  <2>2. dynamic[k + i] = dynamic[k + j]
    BY <2>1
  <2>3. IsOnce(dynamic)
    BY DEF Shape
  <2>4. k + i = k + j
    BY <2>1, <2>2, <2>3 DEF IsOnce
  <2> QED  BY <1>1, <2>4
<1> QED  BY <1>2, <1>3, <1>5 DEF Shape, IsOnce

LEMMA MakeShape ==
  ASSUME Shape, MakeManager
  PROVE  Shape'
<1>1. /\ setup' = setup /\ listed' = listed /\ popped' = popped
      /\ zones' = AsDict(setup) /\ dynamic' = setup.dynamic
  BY DEF MakeManager
<1>2. setup \in Setups
  BY DEF Shape
<1>3. AsDict(setup) \in [Zone -> ConfigId \cup {None}]
  <2>1. ASSUME NEW z \in Zone PROVE AsDict(setup)[z] \in ConfigId \cup {None}
    <3>1. CASE \E n \in DOMAIN setup.zones : IdnaEncode[n] = z
      <4> DEFINE m == CHOOSE n \in DOMAIN setup.zones : IdnaEncode[n] = z
      <4>1. m \in DOMAIN setup.zones
        BY <3>1
      <4>2. AsDict(setup)[z] = setup.zones[m]
        BY <3>1 DEF AsDict
      <4> HIDE DEF m
      <4> QED  BY <1>2, <4>1, <4>2, SetupsAssumption
    <3>2. CASE ~\E n \in DOMAIN setup.zones : IdnaEncode[n] = z
      BY <3>2 DEF AsDict
    <3> QED  BY <3>1, <3>2
  <2> DEFINE d == AsDict(setup)
  <2>2. d = [z \in Zone |-> d[z]]
    BY DEF AsDict
  <2> HIDE DEF d
  <2>3. \A z \in Zone : d[z] \in ConfigId \cup {None}
    BY <2>1 DEF d
  <2> QED  BY <2>2, <2>3 DEF d
<1>4. setup.dynamic \in Seq(ConfigId)
  BY <1>2, SetupsAssumption
<1>5. DOMAIN setup.dynamic = 1 .. Len(setup.dynamic)
  BY <1>4, LenProperties
<1>6. IsOnce(setup.dynamic)
  BY <1>2, <1>5, OwnConfigAssumption DEF IsOnce
<1> QED  BY <1>1, <1>3, <1>4, <1>6 DEF Shape, IsOnce

LEMMA InitShape ==
  ASSUME Init
  PROVE  Shape
<1>1. zones \in [Zone -> ConfigId \cup {None}] /\ dynamic = << >> /\ popped = {}
  BY DEF Init
<1> QED  BY <1>1 DEF Init, Shape, IsOnce

THEOREM TypesCorrect == Spec => []Shape
<1>1. Init => Shape
  BY InitShape
<1>2. Shape /\ [Next]_vars => Shape'
  <2> SUFFICES ASSUME Shape, [Next]_vars PROVE Shape'
    OBVIOUS
  <2>0. UNCHANGED <<setup, config_vars>> /\ listed' \in Listings => Shape'
    BY DEF Shape, config_vars, IsOnce
  <2>1. CASE MakeManager
    BY <2>1, MakeShape
  <2>2. ASSUME NEW ez, NEW es, NEW et, Sync(ez, es, et) PROVE Shape'
    BY <2>2, PreprocessShape DEF Sync, Called
  <2>3. ASSUME NEW ez, NEW given, Dump(ez, given) PROVE Shape'
    <3>1. UNCHANGED <<setup, listed>>
      BY <2>3 DEF Dump, Called
    <3>2. Preprocessed(Preprocess(given, {})) \/ UNCHANGED config_vars
      BY <2>3 DEF Dump
    <3> QED  BY <2>0, <3>1, <3>2, PreprocessShape DEF Shape
  <2>4. CASE ValidateConfigs
    BY <2>4, PreprocessShape DEF ValidateConfigs, Called
  <2>5. ASSUME NEW z, NEW a, NEW b, Compare(z, a, b) PROVE Shape'
    BY <2>0, <2>5 DEF Compare, Called, Shape
  <2>6. CASE EditListing
    BY <2>0, <2>6 DEF EditListing
  <2>7. CASE UNCHANGED vars
    BY <2>0, <2>7 DEF vars, Shape
  <2> QED  BY <2>1, <2>2, <2>3, <2>4, <2>5, <2>6, <2>7 DEF Next
<1> QED  BY <1>1, <1>2, PTL DEF Spec

THEOREM FirstClaimsHold == Spec => []FirstClaims
BY TypesCorrect, FirstClaim, PTL

-----------------------------------------------------------------------------
(* The sub-zones.  They are computed when all dynamic configurations have   *)
(* been expanded, and no zone is added after that.                          *)

Settled ==
  /\ compared \in BOOLEAN
  /\ outcome = "new" => subs = {} /\ tasks = {} /\ zones = [z \in Zone |-> None]
  /\ ~compared =>
       /\ subs # {} => dynamic = << >> /\ subs = {Computed(zones)}
       /\ \A t \in tasks : t.zone \in Configured(zones) /\ t.subs = SubZonesOf(zones, t.zone)
       /\ tasks # {} => dynamic = << >>

LEMMA RaisedSettled ==
  ASSUME Shape, Settled, outcome # "new", outcome' # "new", NEW given, NEW eligible,
         Preprocessed(Preprocess(given, eligible)),
         tasks' = {}, subs' = subs, compared' \in BOOLEAN, ~compared' => ~compared
  PROVE  Settled'
<1>1. subs # {} /\ ~compared => dynamic' = dynamic /\ zones' = zones
  BY Expansion DEF Settled, Preprocessed, Start
<1> QED  BY <1>1 DEF Settled

(* a call that was not cut short by the expansion *)
LEMMA EndsSettled ==
  ASSUME Shape, Settled, outcome' # "new", NEW given, NEW eligible, NEW p,
         p = Preprocess(given, eligible), ~p.raised, Preprocessed(p),
         compared' \in BOOLEAN, ~compared' => ~compared,
         subs' = subs \/ subs' = Cached(p.zones),
         \A t \in tasks' : \E z \in Configured(p.zones) : \E to : t = Task(p.zones, z, to)
  PROVE  Settled'
<1> SUFFICES ASSUME ~compared'
             PROVE  /\ subs' # {} => dynamic' = << >> /\ subs' = {Computed(zones')}
                    /\ \A t \in tasks' : t.zone \in Configured(zones') /\ t.subs = SubZonesOf(zones', t.zone)
                    /\ dynamic' = << >>
  BY DEF Settled
<1>1. zones' = p.zones /\ dynamic' = p.dynamic
  BY DEF Preprocessed
<1>2. dynamic' = << >>
  <2>1. Stage(p, given, Len(dynamic)) /\ Len(dynamic) \in Nat
    BY Expansion, LenProperties DEF Shape
  <2>2. IsLeft(p.dynamic, Len(dynamic)) /\ p.dynamic \in Seq(ConfigId)
    BY <2>1 DEF Stage, St
  <2>3. Len(p.dynamic) = 0
    BY <2>1, <2>2 DEF IsLeft
  <2> QED  BY <1>1, <2>2, <2>3
<1>3. subs # {} => subs = {Computed(zones)} /\ zones' = zones
  <2>1. subs # {} => dynamic = << >> /\ subs = {Computed(zones)}
    BY DEF Settled
  <2> QED  BY <1>1, <2>1, Expansion DEF Start
<1>4. Cached(p.zones) = {Computed(zones')}
  BY <1>1, <1>3 DEF Cached
<1>5. ASSUME NEW z \in Configured(zones') PROVE SubZones(p.zones, z) = SubZonesOf(zones', z)
  BY <1>4 DEF SubZones, Computed, Configured
<1>6. ASSUME NEW t \in tasks' PROVE t.zone \in Configured(zones') /\ t.subs = SubZonesOf(zones', t.zone)
  <2>1. PICK z \in Configured(zones') : \E to : t = Task(p.zones, z, to)
    BY <1>1
  <2>2. t.zone = z /\ t.subs = SubZones(p.zones, z)
    BY <2>1 DEF Task
  <2> QED  BY <1>5, <2>2
<1>7. subs' # {} => subs' = {Computed(zones')}
  BY <1>1, <1>3, <1>4
<1> QED  BY <1>2, <1>6, <1>7

LEMMA SyncSettled ==
  ASSUME Shape, Settled, NEW ez, ez \subseteq Zone, NEW es, NEW et, Sync(ez, es, et)
  PROVE  Settled'
<1> DEFINE p == Preprocess({}, es)
           requested == IF ez = {} THEN Configured(p.zones) ELSE ez
           fine == {z \in requested : ~Faults(p.zones, z, es, et)}
           planned == PlannedTasks(p.zones, fine, es, et)
           ends == AliasTasks(p.zones, requested)
<1>1. /\ outcome # "new" /\ compared' \in BOOLEAN /\ (~compared' => ~compared)
      /\ Preprocessed(p)
  BY DEF Sync, Called, Settled
<1>2. fine \subseteq Configured(p.zones)
  <2>1. requested \subseteq Zone
    BY DEF Configured
  <2> HIDE DEF p, requested
  <2> QED  BY <2>1 DEF Configured, Faults
<1>3. \/ Ends("raised", {}, p.zones)
      \/ ~p.raised /\ \E started \in SUBSET planned : Ends("raised", started, p.zones)
      \/ ~p.raised /\ Ends("raised", planned, p.zones)
      \/ ~p.raised /\ fine = requested /\ Ends("done", planned \cup ends, p.zones)
  BY DEF Sync, EndsEarly
<1>4. /\ \A t \in planned : \E z \in Configured(p.zones) : \E to : t = Task(p.zones, z, to)
      /\ fine = requested =>
           \A t \in ends : \E z \in Configured(p.zones) : \E to : t = Task(p.zones, z, to)
  <2> HIDE DEF p, requested, fine
  <2> QED  BY <1>2 DEF PlannedTasks, AliasTasks
<1> HIDE DEF p, requested, fine, planned, ends
<1>5. CASE Ends("raised", {}, p.zones)
  BY <1>1, <1>5, RaisedSettled DEF Ends, p
<1>6. ASSUME NEW started, NEW how \in {"raised", "done"}, ~p.raised,
             started \subseteq planned \/ (fine = requested /\ started \subseteq planned \cup ends), Ends(how, started, p.zones)
      PROVE  Settled'
  <2>1. /\ outcome' # "new" /\ tasks' = started
        /\ subs' = subs \/ subs' = Cached(p.zones)
    BY <1>6 DEF Ends
  <2> QED  BY <1>1, <1>4, <1>6, <2>1, EndsSettled DEF p
<1> QED  BY <1>3, <1>5, <1>6

LEMMA DumpSettled ==
  ASSUME Shape, Settled, NEW ez, ez \subseteq Zone, NEW given, Dump(ez, given)
  PROVE  Settled'
<1> DEFINE p == Preprocess(given, {})
           requested == IF ez = {} THEN Configured(p.zones) ELSE ez
           fine == {z \in requested : p.zones[z] # None /\ Config[p.zones[z]].processors}
           written(zs) == {Task(p.zones, z, {}) : z \in zs}
<1>1. /\ outcome # "new" /\ compared' \in BOOLEAN /\ (~compared' => ~compared)
  BY DEF Dump, Called, Settled
<1>2. fine \subseteq Configured(p.zones)
  <2>1. requested \subseteq Zone
    BY DEF Configured
  <2> HIDE DEF p, requested
  <2> QED  BY <2>1 DEF Configured
<1>3. \/ Preprocessed(p) /\ Ends("raised", {}, p.zones)
      \/ /\ Preprocessed(p) /\ ~p.raised
         /\ \E started \in {written(zs) : zs \in SUBSET fine} : Ends("raised", started, p.zones)
      \/ /\ Preprocessed(p) /\ ~p.raised
         /\ fine = requested /\ Ends("done", written(requested), p.zones)
      \/ Ends("raised", {}, zones) /\ UNCHANGED config_vars
  BY DEF Dump, EndsEarly
<1> HIDE DEF p, requested, fine
<1>4. CASE Preprocessed(p) /\ Ends("raised", {}, p.zones)
  BY <1>1, <1>4, RaisedSettled DEF Ends, p
<1>5. ASSUME NEW zs, zs \subseteq Configured(p.zones), NEW how \in {"raised", "done"},
             Preprocessed(p), ~p.raised, Ends(how, written(zs), p.zones)
      PROVE  Settled'
  <2>1. /\ outcome' # "new"
        /\ subs' = subs \/ subs' = Cached(p.zones)
        /\ \A t \in tasks' : \E z \in Configured(p.zones) : \E to : t = Task(p.zones, z, to)
    BY <1>5 DEF Ends
  <2> QED  BY <1>1, <1>5, <2>1, EndsSettled DEF p
<1>6. CASE Ends("raised", {}, zones) /\ UNCHANGED config_vars
  BY <1>1, <1>6 DEF Ends, Settled, config_vars
<1> QED  BY <1>2, <1>3, <1>4, <1>5, <1>6

LEMMA ValidateSettled ==
  ASSUME Shape, Settled, ValidateConfigs
  PROVE  Settled'
<1> DEFINE p == Preprocess({}, {})
<1>1. /\ outcome # "new" /\ compared' \in BOOLEAN /\ (~compared' => ~compared)
      /\ Preprocessed(p) /\ tasks' = {} /\ outcome' # "new"
  BY DEF ValidateConfigs, Called, Settled
<1>2. \/ p.raised /\ subs' = subs
      \/ ~p.raised /\ (subs' = subs \/ subs' = Cached(p.zones))
  BY DEF ValidateConfigs
<1>3. CASE subs' = subs
  BY <1>1, <1>3, RaisedSettled
<1>4. CASE ~p.raised /\ (subs' = subs \/ subs' = Cached(p.zones))
  BY <1>1, <1>4, EndsSettled
<1> QED  BY <1>2, <1>3, <1>4

LEMMA SettledHolds == Spec => []Settled
<1>1. Init => Settled
  BY DEF Init, Settled
<1>2. Shape /\ Settled /\ [Next]_vars => Settled'
  <2> SUFFICES ASSUME Shape, Settled, [Next]_vars PROVE Settled'
    OBVIOUS
  <2>1. CASE MakeManager
    <3>1. /\ compared' = compared /\ outcome' # "new" /\ subs' = {} /\ tasks' = {}
      BY <2>1 DEF MakeManager, Settled
    <3> QED  BY <3>1 DEF Settled
  <2>2. CASE \E f \in Filters : Sync(f.zones, f.sources, f.targets)
    BY <2>2, SyncSettled, FiltersAssumption
  <2>3. CASE \E ez \in {{}} \cup {{z} : z \in Zone}, given \in SUBSET Source : Dump(ez, given)
    BY <2>3, DumpSettled
  <2>4. CASE ValidateConfigs
    BY <2>4, ValidateSettled
  <2>5. ASSUME NEW z, NEW a, NEW b, Compare(z, a, b) PROVE Settled'
    BY <2>5 DEF Compare, Called, Ends, Settled
  <2>6. CASE EditListing
    BY <2>6 DEF EditListing, Settled, config_vars
  <2>7. CASE UNCHANGED vars
    BY <2>7 DEF vars, Settled, config_vars
  <2> QED  BY <2>1, <2>2, <2>3, <2>4, <2>5, <2>6, <2>7 DEF Next
<1> QED  BY <1>1, <1>2, TypesCorrect, PTL DEF Spec

(* NamesHaveOneHome: whatever calls were made before, other than compare, a *)
(* name is open to the records of the deepest zone that has it and of no    *)
(* other, for any configuration and any lists of zones.                     *)
THEOREM OneHome == Spec => []NamesHaveOneHome
<1>1. Settled => NamesHaveOneHome
  <2> SUFFICES ASSUME Settled, ~compared, NEW t \in tasks, NEW name \in Zone,
                      name = t.zone \/ IsUnder(name, t.zone)
               PROVE  IsHome(t.zone, name)
                        <=> ~\E s \in t.subs : name = s \/ IsUnder(name, s)
    BY DEF NamesHaveOneHome
  <2>1. t.subs = {s \in Configured(zones) : IsUnder(s, t.zone)}
    BY DEF Settled, SubZonesOf
  <2> QED  BY <2>1 DEF IsHome
<1> QED  BY <1>1, SettledHolds, PTL

(* A zone that has a configuration keeps it through every call, also one    *)
(* that raises half-way; what ClaimsStand says, for the zones that no       *)
(* source lists in UTF-8.                                                   *)
THEOREM ClaimsStandInIdna ==
  Spec => [][\A z \in Zone : zones[z] # None /\ ~ListedInUtf8(z) => zones'[z] = zones[z]]_vars
<1> DEFINE Kept == \A z \in Zone : zones[z] # None /\ ~ListedInUtf8(z) => zones'[z] = zones[z]
<1>1. Shape /\ Settled /\ [Next]_vars => [Kept]_vars
  <2> SUFFICES ASSUME Shape, Settled, Next PROVE Kept
    OBVIOUS
  <2>1. UNCHANGED config_vars => Kept
    BY DEF config_vars
  <2>2. ASSUME NEW given, NEW eligible, Preprocessed(Preprocess(given, eligible)) PROVE Kept
    <3> SUFFICES ASSUME NEW z \in Zone, zones[z] # None, ~ListedInUtf8(z)
                 PROVE  zones'[z] = zones[z]
      OBVIOUS
    <3>1. PICK k : Belongs(z, given, k, Preprocess(given, eligible).zones[z])
      BY Expansion DEF Stage
    <3> QED  BY <2>2, <3>1 DEF Belongs, Preprocessed
  <2>3. CASE MakeManager
    BY <2>3 DEF MakeManager, Settled
  <2>4. ASSUME NEW ez, NEW es, NEW et, Sync(ez, es, et) PROVE Kept
    BY <2>2, <2>4 DEF Sync
  <2>5. ASSUME NEW ez, NEW given, Dump(ez, given) PROVE Kept
    BY <2>1, <2>2, <2>5 DEF Dump
  <2>6. CASE ValidateConfigs
    BY <2>2, <2>6 DEF ValidateConfigs
  <2>7. CASE EditListing \/ \E z \in Zone, a, b \in Source : Compare(z, {a}, {b})
    BY <2>1, <2>7 DEF EditListing, Compare
  <2> QED  BY <2>3, <2>4, <2>5, <2>6, <2>7 DEF Next
<1> QED  BY <1>1, TypesCorrect, SettledHolds, PTL DEF Spec
=============================================================================
