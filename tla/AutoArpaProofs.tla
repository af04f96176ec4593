--------------------------- MODULE AutoArpaProofs ---------------------------
(***************************************************************************)
(* Where PTR records go and which there are, for any zones, addresses and  *)
(* options, and whatever order the tasks run in.                           *)
(*                                                                         *)
(* Where they go follows from the nesting of the zones alone.  Which there *)
(* are takes three steps.  Entries in their order have places (Places),    *)
(* so sorting a list shows the entries of the list and nothing else, each  *)
(* before those that it has to be before.  What is kept of a sorted list   *)
(* is then the first entry of each name up to the limit (KeptInv), so that *)
(* it depends on the set of entries only.  And that set is at last the     *)
(* same in every order of the tasks: RunInv says of each zone which of its *)
(* records have been collected and which are still to be.                  *)
(***************************************************************************)
EXTENDS AutoArpa, FiniteSetTheorems, SequenceTheorems, WellFoundedInduction, TLAPS

(* What an arpa zone holds is its own: below it and below no sub-zone. *)
OwnPtrs(a) == \A p \in arpa[a].ptrs : p.ip \in Under(a) \ Barred(a)
IInv ==
  /\ arpa = [a \in Arpa |-> arpa[a]]
  /\ \A a \in Arpa : OwnPtrs(a)

(* populate adds records under the names of their addresses only. *)
LEMMA PtrAddress == ASSUME NEW ip PROVE Ptr(ip).ip = ip
  BY DEF Ptr

(* A populated zone holds its own records, whoever has the addresses. *)
LEMMA PopulateKeeps ==
  ASSUME IInv, NEW b \in Arpa, PopulateArpa(b) PROVE IInv'
<1>1. arpa' = [a \in Arpa |-> arpa'[a]]
  BY DEF IInv, PopulateArpa
<1>2. ASSUME NEW a \in Arpa PROVE OwnPtrs(a)'
  <2>1. Barred(a)' = Barred(a)
    BY DEF PopulateArpa, Barred
  <2>2. CASE a # b
    <3>1. arpa'[a] = arpa[a]
      BY <2>2 DEF IInv, PopulateArpa
    <3>2. QED BY <2>1, <3>1 DEF IInv, OwnPtrs
  <2>3. CASE a = b
    <3>1. \/ arpa'[a] = Raised
          \/ arpa'[a] = Populated({Ptr(ip) : ip \in Matching(a) \ Barred(a)})
      BY <2>3 DEF IInv, PopulateArpa
    <3>2. arpa'[a].ptrs \subseteq {Ptr(ip) : ip \in Matching(a) \ Barred(a)}
      BY <3>1 DEF Raised, Populated
    <3>3. Matching(a) \subseteq Under(a)
      BY DEF Matching
    <3>4. QED BY <2>1, <3>2, <3>3, PtrAddress DEF OwnPtrs
  <2>4. QED BY <2>2, <2>3
<1>3. QED BY <1>1, <1>2 DEF IInv

(* Every step of the run keeps IInv. *)
LEMMA OwnPtrsHold == Spec => []IInv
<1>1. Init => IInv
  BY DEF Init, IInv, OwnPtrs, Waiting
<1>2. IInv /\ [Next]_vars => IInv'
  <2> SUFFICES ASSUME IInv, [Next]_vars PROVE IInv'
    OBVIOUS
  <2>1. ASSUME NEW z \in DOMAIN todo, Collect(z) PROVE IInv'
    BY <2>1 DEF Collect, IInv, OwnPtrs, Barred
  <2>2. CASE SubmitAliases
    BY <2>2 DEF SubmitAliases, IInv, OwnPtrs, Barred
  <2>3. ASSUME NEW a \in Arpa, PopulateArpa(a) PROVE IInv'
    BY <2>3, PopulateKeeps
  <2>4. CASE UNCHANGED vars
    BY <2>4 DEF vars, IInv, OwnPtrs, Barred
  <2>5. QED BY <2>1, <2>2, <2>3, <2>4 DEF Next
<1>3. QED BY <1>1, <1>2, PTL DEF Spec

(* EachPtrOnce: as long as the zones are not lenient, AutoArpa gives an     *)
(* address a PTR record in one arpa zone at most, however deep the zones    *)
(* are nested.                                                              *)
THEOREM PtrsInOneZone == Spec => []EachPtrOnce
<1>1. IInv => EachPtrOnce
  <2> SUFFICES ASSUME IInv, ~opts.lenient,
                      NEW a \in Arpa, NEW b \in Arpa,
                      NEW p \in arpa[a].ptrs, NEW q \in arpa[b].ptrs,
                      a # b, p.ip = q.ip
               PROVE FALSE
    BY DEF EachPtrOnce
  <2>1. p.ip \in Under(a) \ Barred(a) /\ p.ip \in Under(b) \ Barred(b)
    BY DEF IInv, OwnPtrs
  <2>2. a \in SubZones(b) \/ b \in SubZones(a)
    BY <2>1, NestingAssumption
  <2>3. CASE a \in SubZones(b)
    BY <2>1, <2>3 DEF Barred
  <2>4. CASE b \in SubZones(a)
    BY <2>1, <2>4 DEF Barred
  <2>5. QED BY <2>2, <2>3, <2>4
<1>2. QED BY <1>1, OwnPtrsHold, PTL

-----------------------------------------------------------------------------
(* Sorting *)

(* The places of sorted: when ahead is a total order of 1 .. n, each of     *)
(* them gets a place of its own, after all that are ahead of it.            *)
LEMMA Places ==
  ASSUME NEW n \in Nat, NEW ahead,
         \A i \in 1 .. n : <<i, i>> \notin ahead,
         \A i, j \in 1 .. n : i # j => <<i, j>> \in ahead \/ <<j, i>> \in ahead,
         \A i, j, k \in 1 .. n :
           <<i, j>> \in ahead /\ <<j, k>> \in ahead => <<i, k>> \in ahead
  PROVE  /\ \A m \in 1 .. n : Nth(1 .. n, ahead, m) \in 1 .. n
         /\ \A i \in 1 .. n : \E m \in 1 .. n : Nth(1 .. n, ahead, m) = i
         /\ \A l, m \in 1 .. n :
              l < m => <<Nth(1 .. n, ahead, l), Nth(1 .. n, ahead, m)>> \in ahead
<1> DEFINE I == 1 .. n
           Up(j) == {i \in I : <<i, j>> \in ahead}
           place == [j \in I |-> Cardinality(Up(j)) + 1]
<1>1. IsFiniteSet(I) /\ Cardinality(I) = n
  <2>1. 0 \in Int /\ 1 \in Int /\ n \in Int
    OBVIOUS
  <2>2. IsFiniteSet(1 .. n) /\ Cardinality(1 .. n) = IF 1 > n THEN 0 ELSE n - 1 + 1
    BY <2>1, FS_Interval, Zenon
  <2> QED  BY <2>2
<1>2. /\ \A j : Up(j) \in SUBSET I
      /\ \A i, j \in I : i \in Up(j) <=> <<i, j>> \in ahead
  OBVIOUS
<1>3. \A m : Nth(I, ahead, m) = CHOOSE j \in I : Cardinality(Up(j)) = m - 1
  BY DEF Nth
<1> HIDE DEF I, Up
<1>4. ASSUME NEW j \in I
      PROVE  IsFiniteSet(Up(j)) /\ Cardinality(Up(j)) \in Nat
  <2>1. IsFiniteSet(Up(j))
    BY <1>1, <1>2, FS_Subset
  <2> QED  BY <2>1, FS_CardinalityType
<1>5. ASSUME NEW j \in I
      PROVE  Cardinality(Up(j)) < n
  <2>1. Up(j) \in SUBSET I /\ j \notin Up(j)
    BY <1>2 DEF I
  <2>2. Cardinality(Up(j)) <= Cardinality(I) /\ (Cardinality(I) = Cardinality(Up(j)) => I = Up(j))
    BY <1>1, <2>1, FS_Subset, Zenon
  <2>3. Cardinality(Up(j)) # n
    BY <1>1, <2>1, <2>2
  <2> QED  BY <1>1, <1>4, <2>2, <2>3
<1>6. ASSUME NEW i \in I, NEW j \in I, <<i, j>> \in ahead
      PROVE  Cardinality(Up(i)) < Cardinality(Up(j))
  <2>1. Up(i) \in SUBSET Up(j) /\ i \in Up(j) /\ i \notin Up(i)
    BY <1>2, <1>6 DEF I
  <2>2. IsFiniteSet(Up(j))
    BY <1>4
  <2>3. /\ Cardinality(Up(i)) <= Cardinality(Up(j))
        /\ Cardinality(Up(j)) = Cardinality(Up(i)) => Up(j) = Up(i)
    BY <2>1, <2>2, FS_Subset, Zenon
  <2>4. Cardinality(Up(j)) # Cardinality(Up(i))
    BY <2>1, <2>3
  <2>5. Cardinality(Up(i)) \in Nat /\ Cardinality(Up(j)) \in Nat
    BY <1>4
  <2> QED  BY <2>3, <2>4, <2>5
<1>7. \A j \in I : place[j] \in I /\ place[j] = Cardinality(Up(j)) + 1
  <2> SUFFICES ASSUME NEW j \in I
               PROVE  place[j] \in I /\ place[j] = Cardinality(Up(j)) + 1
    OBVIOUS
  <2>1. place[j] = Cardinality(Up(j)) + 1
    OBVIOUS
  <2>2. Cardinality(Up(j)) \in Nat /\ Cardinality(Up(j)) < n
    BY <1>4, <1>5
  <2> QED  BY <2>1, <2>2 DEF I
<1>8. place \in Injection(I, I)
  <2>1. place \in [I -> I]
    BY <1>7
  <2>2. ASSUME NEW i \in I, NEW j \in I, place[i] = place[j] PROVE i = j
    <3>1. Cardinality(Up(i)) = Cardinality(Up(j)) /\ Cardinality(Up(i)) \in Nat
      BY <1>4, <1>7, <2>2
    <3>2. ~(Cardinality(Up(i)) < Cardinality(Up(j))) /\ ~(Cardinality(Up(j)) < Cardinality(Up(i)))
      BY <3>1
    <3>3. ~(<<i, j>> \in ahead) /\ ~(<<j, i>> \in ahead)
      BY <1>6, <3>2
    <3> QED  BY <3>3 DEF I
  <2> HIDE DEF place
  <2> QED  BY <2>1, <2>2 DEF Injection, IsInjective
<1> HIDE DEF place
<1>9. place \in Surjection(I, I)
  BY <1>1, <1>8, FS_Injection
<1>10. ASSUME NEW m \in I
       PROVE  /\ Nth(I, ahead, m) \in I
              /\ place[Nth(I, ahead, m)] = m
  <2>1. PICK j \in I : place[j] = m
    BY <1>9 DEF Surjection
  <2>2. Cardinality(Up(j)) = m - 1
    <3>1. Cardinality(Up(j)) \in Nat /\ m = Cardinality(Up(j)) + 1
      BY <1>4, <1>7, <2>1
    <3> QED  BY <3>1
  <2>3. Nth(I, ahead, m) \in I /\ Cardinality(Up(Nth(I, ahead, m))) = m - 1
    BY <1>3, <2>2
  <2> QED  BY <1>7, <2>3 DEF I
<1>11. ASSUME NEW i \in I PROVE \E m \in I : Nth(I, ahead, m) = i
  <2>1. place[i] \in I
    BY <1>7
  <2>2. Nth(I, ahead, place[i]) \in I /\ place[Nth(I, ahead, place[i])] = place[i]
    BY <1>10, <2>1
  <2>3. Nth(I, ahead, place[i]) = i
    BY <1>8, <2>2 DEF Injection, IsInjective
  <2> QED  BY <2>1, <2>3
<1>12. ASSUME NEW l \in I, NEW m \in I, l < m
       PROVE  <<Nth(I, ahead, l), Nth(I, ahead, m)>> \in ahead
  <2> DEFINE i == Nth(I, ahead, l)
             j == Nth(I, ahead, m)
  <2>1. i \in I /\ place[i] = l /\ j \in I /\ place[j] = m
    BY <1>10
  <2> HIDE DEF i, j
  <2>2. i # j
    BY <1>12, <2>1 DEF I
  <2>3. ASSUME <<j, i>> \in ahead PROVE FALSE
    <3>1. Cardinality(Up(j)) < Cardinality(Up(i))
      BY <1>6, <2>1, <2>3
    <3>2. Cardinality(Up(j)) \in Nat /\ Cardinality(Up(i)) \in Nat
      BY <1>4, <2>1
    <3>3. l = Cardinality(Up(i)) + 1 /\ m = Cardinality(Up(j)) + 1
      BY <1>7, <2>1
    <3> QED  BY <1>12, <3>1, <3>2, <3>3
  <2>4. <<i, j>> \in ahead
    BY <2>1, <2>2, <2>3 DEF I
  <2> QED  BY <2>4 DEF i, j
<1> QED  BY <1>10, <1>11, <1>12 DEF I

(* What the entries of an address are: tuples of numbers and a name's place. *)
Entries == [priority : Int, ttl : Int, fqdn : Int]

(* The tuples are in one order, which agrees on no two of them. *)
LEMMA BeforeIsOrder ==
  ASSUME NEW d \in Entries, NEW e \in Entries, NEW f \in Entries
  PROVE  /\ ~Before(e, e)
         /\ ~(Before(e, f) /\ Before(f, e))
         /\ e = f \/ Before(e, f) \/ Before(f, e)
         /\ Before(d, e) /\ Before(e, f) => Before(d, f)
<1>1. e = f \/ Before(e, f) \/ Before(f, e)
  <2>1. e = f \/ e.priority # f.priority \/ e.ttl # f.ttl \/ e.fqdn # f.fqdn
    BY DEF Entries
  <2> QED  BY <2>1 DEF Entries, Before
<1> QED  BY <1>1 DEF Entries, Before

(* Sorting entries keeps them all and puts them in order. *)
LEMMA SortedEntries ==
  ASSUME NEW s \in Seq(Entries)
  PROVE  /\ Sorted(s, Before) \in Seq(Entries)
         /\ Len(Sorted(s, Before)) = Len(s)
         /\ \A i \in 1 .. Len(s) : \E m \in 1 .. Len(s) : Sorted(s, Before)[m] = s[i]
         /\ \A m \in 1 .. Len(s) : \E i \in 1 .. Len(s) : Sorted(s, Before)[m] = s[i]
         /\ \A l, m \in 1 .. Len(s) :
              l < m => ~Before(Sorted(s, Before)[m], Sorted(s, Before)[l])
<1> DEFINE n == Len(s)
           ahead == Ahead(s, Before)
           at(m) == Nth(1 .. n, ahead, m)
           t == [m \in 1 .. n |-> s[at(m)]]
<1>1. n \in Nat /\ DOMAIN s = 1 .. n /\ \A i \in 1 .. n : s[i] \in Entries
  OBVIOUS
<1>2. \A i, j \in 1 .. n :
        <<i, j>> \in ahead <=> Before(s[i], s[j]) \/ (s[i] = s[j] /\ i < j)
  <2>1. \A i, j \in 1 .. n :
          <<i, j>> \in ahead <=> Before(s[i], s[j]) \/ (~Before(s[j], s[i]) /\ i < j)
    BY <1>1 DEF Ahead
  <2> QED  BY <1>1, <2>1, BeforeIsOrder
<1> HIDE DEF ahead, n
<1>3. \A i \in 1 .. n : <<i, i>> \notin ahead
  BY <1>1, <1>2, BeforeIsOrder
<1>4. \A i, j \in 1 .. n : i # j => <<i, j>> \in ahead \/ <<j, i>> \in ahead
  BY <1>1, <1>2, BeforeIsOrder
<1>5. \A i, j, k \in 1 .. n :
        <<i, j>> \in ahead /\ <<j, k>> \in ahead => <<i, k>> \in ahead
  <2> SUFFICES ASSUME NEW i \in 1 .. n, NEW j \in 1 .. n, NEW k \in 1 .. n,
                      <<i, j>> \in ahead, <<j, k>> \in ahead
               PROVE  <<i, k>> \in ahead
    OBVIOUS
  <2>1. s[i] \in Entries /\ s[j] \in Entries /\ s[k] \in Entries
    BY <1>1
  <2>2. Before(s[i], s[j]) \/ (s[i] = s[j] /\ i < j)
    BY <1>2
  <2>3. Before(s[j], s[k]) \/ (s[j] = s[k] /\ j < k)
    BY <1>2
  <2>4. Before(s[i], s[k]) \/ (s[i] = s[k] /\ i < k)
    BY <1>1, <2>1, <2>2, <2>3, BeforeIsOrder
  <2> QED  BY <1>2, <2>4
<1>6. /\ \A m \in 1 .. n : at(m) \in 1 .. n
      /\ \A i \in 1 .. n : \E m \in 1 .. n : at(m) = i
      /\ \A l, m \in 1 .. n : l < m => <<at(l), at(m)>> \in ahead
  BY <1>1, <1>3, <1>4, <1>5, Places
<1> HIDE DEF at
<1>7. Sorted(s, Before) = SubSeq(t, 1, n)
  BY <1>1 DEF Sorted, ahead, at, n
<1>8. t \in Seq(Entries) /\ Len(t) = n
  BY <1>1, <1>6
<1>9. /\ SubSeq(t, 1, n) \in Seq(Entries) /\ Len(SubSeq(t, 1, n)) = n
      /\ \A m \in 1 .. n : SubSeq(t, 1, n)[m] = s[at(m)]
  <2> HIDE DEF t
  <2>1. /\ SubSeq(t, 1, n) \in Seq(Entries) /\ Len(SubSeq(t, 1, n)) = n
        /\ \A m \in 1 .. n : SubSeq(t, 1, n)[m] = t[m]
    BY <1>1, <1>8
  <2> QED  BY <2>1 DEF t
<1>10. ASSUME NEW l \in 1 .. n, NEW m \in 1 .. n, l < m
       PROVE  ~Before(s[at(m)], s[at(l)])
  <2>1. /\ at(l) \in 1 .. n /\ at(m) \in 1 .. n
        /\ Before(s[at(l)], s[at(m)]) \/ s[at(l)] = s[at(m)]
    BY <1>2, <1>6, <1>10
  <2> QED  BY <1>1, <2>1, BeforeIsOrder
<1> HIDE DEF t
<1>11. \A i \in 1 .. n : \E m \in 1 .. n : SubSeq(t, 1, n)[m] = s[i]
  BY <1>6, <1>9
<1>12. \A m \in 1 .. n : \E i \in 1 .. n : SubSeq(t, 1, n)[m] = s[i]
  BY <1>6, <1>9
<1>13. \A l, m \in 1 .. n : l < m => ~Before(SubSeq(t, 1, n)[m], SubSeq(t, 1, n)[l])
  BY <1>9, <1>10
<1> QED  BY <1>7, <1>9, <1>11, <1>12, <1>13 DEF n

(* Sorting addresses keeps them all. *)
LEMMA SortedValues ==
  ASSUME NEW s \in Seq(Int)
  PROVE  /\ Sorted(s, <) \in Seq(Int)
         /\ Len(Sorted(s, <)) = Len(s)
         /\ \A i \in 1 .. Len(s) : \E m \in 1 .. Len(s) : Sorted(s, <)[m] = s[i]
         /\ \A m \in 1 .. Len(s) : \E i \in 1 .. Len(s) : Sorted(s, <)[m] = s[i]
<1> DEFINE n == Len(s)
           ahead == Ahead(s, <)
           at(m) == Nth(1 .. n, ahead, m)
           t == [m \in 1 .. n |-> s[at(m)]]
<1>1. n \in Nat /\ DOMAIN s = 1 .. n /\ \A i \in 1 .. n : s[i] \in Int
  OBVIOUS
<1>2. \A i, j \in 1 .. n :
        <<i, j>> \in ahead <=> s[i] < s[j] \/ (~(s[j] < s[i]) /\ i < j)
  BY <1>1 DEF Ahead
<1> HIDE DEF ahead, n
<1>3. \A i \in 1 .. n : <<i, i>> \notin ahead
  BY <1>1, <1>2
<1>4. \A i, j \in 1 .. n : i # j => <<i, j>> \in ahead \/ <<j, i>> \in ahead
  BY <1>1, <1>2
<1>5. \A i, j, k \in 1 .. n :
        <<i, j>> \in ahead /\ <<j, k>> \in ahead => <<i, k>> \in ahead
  BY <1>1, <1>2
<1>6. /\ \A m \in 1 .. n : at(m) \in 1 .. n
      /\ \A i \in 1 .. n : \E m \in 1 .. n : at(m) = i
  BY <1>1, <1>3, <1>4, <1>5, Places
<1> HIDE DEF at
<1>7. Sorted(s, <) = SubSeq(t, 1, n)
  BY <1>1 DEF Sorted, ahead, at, n
<1>8. t \in Seq(Int) /\ Len(t) = n
  BY <1>1, <1>6
<1>9. /\ SubSeq(t, 1, n) \in Seq(Int) /\ Len(SubSeq(t, 1, n)) = n
      /\ \A m \in 1 .. n : SubSeq(t, 1, n)[m] = s[at(m)]
  <2> HIDE DEF t
  <2>1. /\ SubSeq(t, 1, n) \in Seq(Int) /\ Len(SubSeq(t, 1, n)) = n
        /\ \A m \in 1 .. n : SubSeq(t, 1, n)[m] = t[m]
    BY <1>1, <1>8
  <2> QED  BY <2>1 DEF t
<1> HIDE DEF t
<1>10. \A i \in 1 .. n : \E m \in 1 .. n : SubSeq(t, 1, n)[m] = s[i]
  BY <1>6, <1>9
<1>11. \A m \in 1 .. n : \E i \in 1 .. n : SubSeq(t, 1, n)[m] = s[i]
  BY <1>6, <1>9
<1> QED  BY <1>7, <1>9, <1>10, <1>11 DEF n

-----------------------------------------------------------------------------
(* _order_and_unique_fqdns *)

(* The least of some naturals. *)
LEMMA LeastOf ==
  ASSUME NEW T, T \subseteq Nat, T # {}
  PROVE  \E x \in T : \A y \in T : x <= y
<1> DEFINE R == OpToRel(<, Nat)
<1>1. R = {ss \in Nat \X Nat : ss[1] < ss[2]}
  BY DEF OpToRel
<1>2. IsWellFoundedOn(R, Nat)
  BY NatLessThanWellFounded
<1> HIDE DEF R
<1>3. PICK x \in T : \A y \in T : ~(<<y, x>> \in R)
  BY <1>2, WFMin
<1>4. ASSUME NEW y \in T PROVE x <= y
  <2>1. x \in Nat /\ y \in Nat
    OBVIOUS
  <2>2. ~(y < x)
    BY <1>1, <1>3, <2>1
  <2> QED  BY <2>1, <2>2
<1> QED  BY <1>3, <1>4

(* The first entry of each name. *)
Elements(t) == {t[i] : i \in 1 .. Len(t)}
Firsts(E) == {e \in E : \A f \in E : f.fqdn = e.fqdn => f = e \/ Before(e, f)}
InOrder(t) == \A l, m \in 1 .. Len(t) : l < m => ~Before(t[m], t[l])

(* In a sorted list the first entry of a name stands before the others. *)
LEMMA FirstStands ==
  ASSUME NEW t \in Seq(Entries), InOrder(t), NEW j \in 1 .. Len(t)
  PROVE  \E i \in 1 .. j : t[i] \in Firsts(Elements(t)) /\ t[i].fqdn = t[j].fqdn
<1> DEFINE n == Len(t)
           T == {i \in 1 .. n : t[i].fqdn = t[j].fqdn}
<1>1. n \in Nat /\ \A i \in 1 .. n : t[i] \in Entries
  OBVIOUS
<1> HIDE DEF n
<1>2. T \subseteq Nat /\ j \in T
  BY <1>1 DEF n
<1> HIDE DEF T
<1>3. PICK i \in T : \A k \in T : i <= k
  BY <1>2, LeastOf
<1>4. i \in 1 .. n /\ i \in 1 .. j /\ t[i].fqdn = t[j].fqdn
  BY <1>1, <1>2, <1>3 DEF T
<1>5. ASSUME NEW f \in Elements(t), f.fqdn = t[i].fqdn
      PROVE  f = t[i] \/ Before(t[i], f)
  <2>1. PICK k \in 1 .. n : f = t[k]
    BY DEF Elements, n
  <2>2. k \in T
    BY <1>4, <1>5, <2>1 DEF T
  <2>3. k = i \/ i < k
    BY <1>1, <1>3, <1>4, <2>1, <2>2
  <2>4. ~Before(t[k], t[i])
    BY <1>1, <1>4, <2>1, <2>3, BeforeIsOrder DEF InOrder, n
  <2> QED  BY <1>1, <1>4, <2>1, <2>4, BeforeIsOrder
<1>6. t[i] \in Firsts(Elements(t))
  BY <1>4, <1>5 DEF Firsts, Elements, n
<1> QED  BY <1>4, <1>6

(* The list that is kept, entry by entry. *)
IsKept(kept, n, t) ==
  kept = [m \in 0 .. n |-> IF m = 0 THEN << >> ELSE Keep(kept[m - 1], t[m])]

LEMMA KeptExists ==
  ASSUME NEW t, NEW n \in Nat
  PROVE  \E kept : IsKept(kept, n, t)
<1> DEFINE T == {k \in Nat : ~\E kept : IsKept(kept, k, t)}
<1> SUFFICES ASSUME T # {} PROVE FALSE
  OBVIOUS
<1>1. PICK m \in T : \A k \in T : m <= k
  BY LeastOf
<1>2. m # 0
  <2>1. IsKept([i \in 0 .. 0 |-> << >>], 0, t)
    BY DEF IsKept
  <2> QED  BY <2>1
<1>3. PICK f : IsKept(f, m - 1, t)
  BY <1>1, <1>2
<1> DEFINE g == [i \in 0 .. m |-> IF i < m THEN f[i] ELSE Keep(f[m - 1], t[m])]
<1>4. \A i \in 0 .. m - 1 : g[i] = f[i]
  BY <1>1
<1>5. ASSUME NEW i \in 0 .. m
      PROVE  g[i] = IF i = 0 THEN << >> ELSE Keep(g[i - 1], t[i])
  <2>1. CASE i = 0
    BY <1>1, <1>2, <1>3, <2>1 DEF IsKept
  <2>2. CASE i # 0 /\ i < m
    <3>1. i \in 0 .. m - 1 /\ i - 1 \in 0 .. m - 1
      BY <1>1, <2>2
    <3>2. f[i] = Keep(f[i - 1], t[i])
      BY <1>3, <2>2, <3>1 DEF IsKept
    <3> QED  BY <1>4, <2>2, <3>1, <3>2
  <2>3. CASE i = m
    <3>1. i - 1 \in 0 .. m - 1
      BY <1>1, <1>2, <2>3
    <3> QED  BY <1>1, <1>2, <1>4, <2>3, <3>1
  <2> QED  BY <1>1, <2>1, <2>2, <2>3
<1>6. IsKept(g, m, t)
  BY <1>5 DEF IsKept
<1> QED  BY <1>1, <1>6

(* What is known of the list after m entries: it has first entries only, in *)
(* order and up to the limit, and a first entry that is not in it has so    *)
(* many before it.                                                          *)
KeptInv(k, m, t) ==
  /\ k \in Seq(Entries) /\ Len(k) <= opts.max_auto_arpa
  /\ \A i \in 1 .. Len(k) :
       k[i] \in Firsts(Elements(t)) /\ \E j \in 1 .. m : k[i] = t[j]
  /\ \A i, j \in 1 .. Len(k) : i < j => Before(k[i], k[j])
  /\ \A j \in 1 .. m : t[j] \in Firsts(Elements(t)) =>
       \/ \E i \in 1 .. Len(k) : k[i] = t[j]
       \/ Len(k) = opts.max_auto_arpa /\ \A i \in 1 .. Len(k) : Before(k[i], t[j])

(* An entry that is left out changes nothing. *)
LEMMA KeptSame ==
  ASSUME NEW t \in Seq(Entries), InOrder(t), opts.max_auto_arpa \in Nat \ {0},
         NEW m \in 1 .. Len(t), NEW k, KeptInv(k, m - 1, t),
         \/ Len(k) >= opts.max_auto_arpa
         \/ \E i \in DOMAIN k : k[i].fqdn = t[m].fqdn
  PROVE  KeptInv(k, m, t)
<1> DEFINE n == Len(t)
           l == Len(k)
           max == opts.max_auto_arpa
           F == Firsts(Elements(t))
<1>1. /\ n \in Nat /\ \A i \in 1 .. n : t[i] \in Entries
      /\ l \in Nat /\ DOMAIN k = 1 .. l /\ \A i \in 1 .. l : k[i] \in Entries
      /\ m \in 1 .. n /\ max \in Nat \ {0} /\ l <= max
  BY DEF KeptInv
<1>2. /\ \A i \in 1 .. l : k[i] \in F /\ \E j \in 1 .. m - 1 : k[i] = t[j]
      /\ \A j \in 1 .. m - 1 : t[j] \in F =>
           (\E i \in 1 .. l : k[i] = t[j]) \/ (l = max /\ \A i \in 1 .. l : Before(k[i], t[j]))
      /\ \A i, j \in 1 .. n : i < j => ~Before(t[j], t[i])
      /\ l >= max \/ \E i \in 1 .. l : k[i].fqdn = t[m].fqdn
  BY <1>1 DEF KeptInv, InOrder
<1>3. \A e, f \in F : e.fqdn = f.fqdn => e = f \/ (Before(e, f) /\ Before(f, e))
  BY DEF Firsts
<1> HIDE DEF n, l, max, F
<1>4. ASSUME t[m] \in F
      PROVE  (\E i \in 1 .. l : k[i] = t[m]) \/ (l = max /\ \A i \in 1 .. l : Before(k[i], t[m]))
  <2>1. CASE \E i \in 1 .. l : k[i].fqdn = t[m].fqdn
    <3>1. PICK i \in 1 .. l : k[i].fqdn = t[m].fqdn
      BY <2>1
    <3>2. k[i] \in F /\ k[i] \in Entries /\ t[m] \in Entries
      BY <1>1, <1>2
    <3>3. ~(Before(k[i], t[m]) /\ Before(t[m], k[i]))
      BY <3>2, BeforeIsOrder
    <3> QED  BY <1>3, <1>4, <3>1, <3>2, <3>3
  <2>2. CASE l >= max
    <3>1. l = max
      BY <1>1, <2>2
    <3>2. ASSUME NEW i \in 1 .. l PROVE k[i] = t[m] \/ Before(k[i], t[m])
      <4>1. PICK j \in 1 .. m - 1 : k[i] = t[j]
        BY <1>2
      <4>2. j \in 1 .. n /\ j < m
        BY <1>1
      <4>3. ~Before(t[m], t[j])
        BY <1>1, <1>2, <4>2
      <4> QED  BY <1>1, <4>1, <4>2, <4>3, BeforeIsOrder
    <3> QED  BY <3>1, <3>2
  <2> QED  BY <1>2, <2>1, <2>2
<1>5. \A j \in 1 .. m : j \in 1 .. m - 1 \/ j = m
  BY <1>1
<1>6. \A j \in 1 .. m - 1 : j \in 1 .. m
  BY <1>1
<1>7. \A i \in 1 .. l : k[i] \in F /\ \E j \in 1 .. m : k[i] = t[j]
  BY <1>2, <1>6
<1>8. \A j \in 1 .. m : t[j] \in F =>
        (\E i \in 1 .. l : k[i] = t[j]) \/ (l = max /\ \A i \in 1 .. l : Before(k[i], t[j]))
  BY <1>2, <1>4, <1>5
<1> QED  BY <1>7, <1>8 DEF KeptInv, l, max, F

(* An entry that is kept is the first of its name and after the others. *)
LEMMA KeptLonger ==
  ASSUME NEW t \in Seq(Entries), InOrder(t), opts.max_auto_arpa \in Nat \ {0},
         NEW m \in 1 .. Len(t), NEW k, KeptInv(k, m - 1, t),
         Len(k) < opts.max_auto_arpa,
         \A i \in DOMAIN k : k[i].fqdn # t[m].fqdn
  PROVE  KeptInv(Append(k, t[m]), m, t)
<1> DEFINE n == Len(t)
           l == Len(k)
           max == opts.max_auto_arpa
           F == Firsts(Elements(t))
           h == Append(k, t[m])
<1>1. /\ n \in Nat /\ \A i \in 1 .. n : t[i] \in Entries
      /\ l \in Nat /\ DOMAIN k = 1 .. l /\ \A i \in 1 .. l : k[i] \in Entries
      /\ m \in 1 .. n /\ max \in Nat \ {0} /\ l < max
  BY DEF KeptInv
<1>2. /\ \A i \in 1 .. l : k[i] \in F /\ \E j \in 1 .. m - 1 : k[i] = t[j]
      /\ \A i, j \in 1 .. l : i < j => Before(k[i], k[j])
      /\ \A j \in 1 .. m - 1 : t[j] \in F =>
           (\E i \in 1 .. l : k[i] = t[j]) \/ (l = max /\ \A i \in 1 .. l : Before(k[i], t[j]))
      /\ \A i, j \in 1 .. n : i < j => ~Before(t[j], t[i])
      /\ \A i \in 1 .. l : k[i].fqdn # t[m].fqdn
  BY <1>1 DEF KeptInv, InOrder
<1>3. /\ h \in Seq(Entries) /\ Len(h) = l + 1
      /\ \A i \in 1 .. l : h[i] = k[i]
      /\ h[l + 1] = t[m]
  BY <1>1 DEF KeptInv
<1>4. PICK i0 \in 1 .. m : t[i0] \in F /\ t[i0].fqdn = t[m].fqdn
  BY FirstStands
<1> HIDE DEF n, l, max, F, h
<1>5. t[m] \in F
  <2>1. CASE i0 = m
    BY <1>4, <2>1
  <2>2. CASE i0 # m
    <3>1. i0 \in 1 .. m - 1
      BY <1>1, <1>4, <2>2
    <3>2. PICK i \in 1 .. l : k[i] = t[i0]
      BY <1>1, <1>2, <1>4, <3>1
    <3> QED  BY <1>2, <1>4, <3>2
  <2> QED  BY <2>1, <2>2
<1>6. ASSUME NEW i \in 1 .. l PROVE Before(k[i], t[m])
  <2>1. PICK j \in 1 .. m - 1 : k[i] = t[j]
    BY <1>2
  <2>2. j \in 1 .. n /\ j < m
    BY <1>1
  <2>3. ~Before(t[m], t[j])
    BY <1>1, <1>2, <2>2
  <2>4. t[j].fqdn # t[m].fqdn
    BY <1>2, <2>1
  <2> QED  BY <1>1, <2>1, <2>2, <2>3, <2>4, BeforeIsOrder
<1>7. /\ \A j \in 1 .. m : j \in 1 .. m - 1 \/ j = m
      /\ \A j \in 1 .. m - 1 : j \in 1 .. m
      /\ \A j \in 1 .. l + 1 : j \in 1 .. l \/ j = l + 1
      /\ \A j \in 1 .. l : j \in 1 .. l + 1
      /\ m \in 1 .. m /\ l + 1 \in 1 .. l + 1 /\ l + 1 <= max
  BY <1>1
<1>8. \A i \in 1 .. l + 1 : h[i] \in F /\ \E j \in 1 .. m : h[i] = t[j]
  BY <1>2, <1>3, <1>5, <1>7
<1>9. ASSUME NEW i \in 1 .. l + 1, NEW j \in 1 .. l + 1, i < j
      PROVE  Before(h[i], h[j])
  <2>1. i \in 1 .. l
    BY <1>1, <1>9
  <2>2. CASE j \in 1 .. l
    BY <1>2, <1>3, <1>9, <2>1, <2>2
  <2>3. CASE j = l + 1
    BY <1>3, <1>6, <2>1, <2>3
  <2> QED  BY <1>7, <2>2, <2>3
<1>10. ASSUME NEW j \in 1 .. m, t[j] \in F
       PROVE  \E i \in 1 .. l + 1 : h[i] = t[j]
  <2>1. CASE j = m
    BY <1>3, <1>7, <2>1
  <2>2. CASE j \in 1 .. m - 1
    <3>1. PICK i \in 1 .. l : k[i] = t[j]
      BY <1>1, <1>2, <1>10, <2>2
    <3> QED  BY <1>3, <1>7, <3>1
  <2> QED  BY <1>7, <2>1, <2>2
<1>11. KeptInv(h, m, t)
  BY <1>3, <1>7, <1>8, <1>9, <1>10 DEF KeptInv, max, F
<1> QED  BY <1>11 DEF h

(* The list after any number of entries. *)
LEMMA KeptHolds ==
  ASSUME NEW t \in Seq(Entries), InOrder(t), opts.max_auto_arpa \in Nat \ {0},
         NEW kept, IsKept(kept, Len(t), t)
  PROVE  KeptInv(kept[Len(t)], Len(t), t)
<1> DEFINE n == Len(t)
           T == {m \in 0 .. n : ~KeptInv(kept[m], m, t)}
<1>1. n \in Nat /\ n = Len(t)
  OBVIOUS
<1>2. /\ kept[0] = << >>
      /\ \A m \in 1 .. n : kept[m] = Keep(kept[m - 1], t[m])
  BY <1>1 DEF IsKept
<1> HIDE DEF n
<1>3. SUFFICES ASSUME T # {} PROVE FALSE
  <2>1. n \in 0 .. n
    BY <1>1
  <2> QED  BY <1>1, <2>1
<1>4. PICK m \in T : \A k \in T : m <= k
  <2>1. T \subseteq Nat
    BY <1>1
  <2> HIDE DEF T
  <2> QED  BY <1>3, <2>1, LeastOf
<1>5. m # 0
  <2>1. << >> \in Seq(Entries) /\ Len(<< >>) = 0
    OBVIOUS
  <2>2. KeptInv(<< >>, 0, t)
    BY <2>1 DEF KeptInv
  <2> QED  BY <1>2, <1>4, <2>2
<1>6. m \in 1 .. n /\ m - 1 \in 0 .. n /\ ~(m - 1 \in T)
  BY <1>1, <1>4, <1>5
<1>7. KeptInv(kept[m - 1], m - 1, t)
  BY <1>6
<1>8. kept[m] = Keep(kept[m - 1], t[m])
  BY <1>2, <1>6
<1> DEFINE k == kept[m - 1]
<1>9. Len(k) \in Nat
  BY <1>7 DEF KeptInv
<1> HIDE DEF k
<1>10. CASE Len(k) >= opts.max_auto_arpa \/ \E i \in DOMAIN k : k[i].fqdn = t[m].fqdn
  <2>1. Keep(k, t[m]) = k
    BY <1>10 DEF Keep
  <2>2. KeptInv(k, m, t)
    BY <1>1, <1>6, <1>7, <1>10, KeptSame DEF k
  <2> QED  BY <1>4, <1>8, <2>1, <2>2 DEF k
<1>11. CASE ~(Len(k) >= opts.max_auto_arpa \/ \E i \in DOMAIN k : k[i].fqdn = t[m].fqdn)
  <2>1. Keep(k, t[m]) = Append(k, t[m])
    BY <1>11 DEF Keep
  <2>2. Len(k) < opts.max_auto_arpa /\ \A i \in DOMAIN k : k[i].fqdn # t[m].fqdn
    BY <1>9, <1>11
  <2>3. KeptInv(Append(k, t[m]), m, t)
    BY <1>1, <1>6, <1>7, <2>2, KeptLonger DEF k
  <2> QED  BY <1>4, <1>8, <2>1, <2>3 DEF k
<1> QED  BY <1>10, <1>11

(* What _order_and_unique_fqdns keeps. *)
LEMMA KeptOfEntries ==
  ASSUME NEW s \in Seq(Entries), opts.max_auto_arpa \in Nat \ {0}
  PROVE  \E t \in Seq(Entries) :
           /\ Elements(t) = Elements(s) /\ InOrder(t)
           /\ KeptInv(OrderAndUnique(s), Len(t), t)
<1> DEFINE t == Sorted(s, Before)
<1>1. /\ t \in Seq(Entries) /\ Len(t) = Len(s) /\ InOrder(t)
      /\ \A i \in 1 .. Len(s) : \E m \in 1 .. Len(s) : t[m] = s[i]
      /\ \A m \in 1 .. Len(s) : \E i \in 1 .. Len(s) : t[m] = s[i]
  BY SortedEntries DEF InOrder
<1>2. OrderAndUnique(s) =
        (CHOOSE kept : kept = [n \in 0 .. Len(t) |->
                                 IF n = 0 THEN << >> ELSE Keep(kept[n - 1], t[n])])[Len(t)]
  BY DEF OrderAndUnique
<1> HIDE DEF t
<1>3. Elements(t) = Elements(s)
  <2>1. ASSUME NEW e \in Elements(t) PROVE e \in Elements(s)
    <3>1. PICK m \in 1 .. Len(t) : e = t[m]
      BY DEF Elements
    <3>2. m \in 1 .. Len(s)
      BY <1>1
    <3>3. PICK i \in 1 .. Len(s) : t[m] = s[i]
      BY <1>1, <3>2, Zenon
    <3> QED  BY <3>1, <3>3, Zenon DEF Elements
  <2>2. ASSUME NEW e \in Elements(s) PROVE e \in Elements(t)
    <3>1. PICK i \in 1 .. Len(s) : e = s[i]
      BY DEF Elements
    <3>2. PICK m \in 1 .. Len(s) : t[m] = s[i]
      BY <1>1, <3>1, Zenon
    <3>3. m \in 1 .. Len(t)
      BY <1>1
    <3> QED  BY <3>1, <3>2, <3>3, Zenon DEF Elements
  <2> QED  BY <2>1, <2>2
<1> DEFINE f == CHOOSE kept : IsKept(kept, Len(t), t)
<1>4. OrderAndUnique(s) = f[Len(t)]
  BY <1>2 DEF IsKept
<1>5. IsKept(f, Len(t), t)
  <2>1. Len(t) \in Nat
    BY <1>1
  <2>2. \E kept : IsKept(kept, Len(t), t)
    BY <2>1, KeptExists
  <2> QED  BY <2>2
<1> HIDE DEF f
<1>6. KeptInv(f[Len(t)], Len(t), t)
  BY <1>1, <1>5, KeptHolds
<1> QED  BY <1>1, <1>3, <1>4, <1>6

Prior(F, e) == {f \in F : Before(f, e)}

(* The elements of a list of entries. *)
LEMMA ElementsOf ==
  ASSUME NEW t \in Seq(Entries)
  PROVE  /\ IsFiniteSet(Elements(t)) /\ Elements(t) \subseteq Entries
         /\ IsFiniteSet(Firsts(Elements(t))) /\ Firsts(Elements(t)) \subseteq Entries
         /\ \A e \in Elements(t) : \E i \in 1 .. Len(t) : e = t[i]
<1> DEFINE n == Len(t)
           g == [i \in 1 .. n |-> t[i]]
<1>1. n \in Nat /\ \A i \in 1 .. n : t[i] \in Entries
  OBVIOUS
<1>2. IsFiniteSet(1 .. n)
  BY <1>1, FS_Interval
<1>3. g \in Surjection(1 .. n, Elements(t))
  <2> HIDE DEF n
  <2>1. g \in [1 .. n -> Elements(t)]
    BY DEF Elements, n
  <2>2. ASSUME NEW e \in Elements(t) PROVE \E i \in 1 .. n : g[i] = e
    BY DEF Elements, n
  <2> HIDE DEF g
  <2> QED  BY <2>1, <2>2 DEF Surjection
<1>4. IsFiniteSet(Elements(t))
  BY <1>2, <1>3, FS_Surjection
<1>5. Elements(t) \subseteq Entries /\ \A e \in Elements(t) : \E i \in 1 .. n : e = t[i]
  BY <1>1 DEF Elements
<1>6. Firsts(Elements(t)) \in SUBSET Elements(t)
  BY DEF Firsts
<1>7. IsFiniteSet(Firsts(Elements(t)))
  BY <1>4, <1>6, FS_Subset
<1> QED  BY <1>4, <1>5, <1>6, <1>7

(* What is kept has as many before it as in the list: fewer than the limit. *)
LEMMA KeptPlace ==
  ASSUME NEW t \in Seq(Entries), opts.max_auto_arpa \in Nat \ {0},
         NEW k, KeptInv(k, Len(t), t), NEW i \in 1 .. Len(k)
  PROVE  /\ \A f \in Prior(Firsts(Elements(t)), k[i]) : \E j \in 1 .. i - 1 : k[j] = f
         /\ Cardinality(Prior(Firsts(Elements(t)), k[i])) < opts.max_auto_arpa
<1> DEFINE n == Len(t)
           l == Len(k)
           F == Firsts(Elements(t))
           P == Prior(F, k[i])
           g == [j \in 1 .. i - 1 |-> k[j]]
<1>1. /\ l \in Nat /\ i \in 1 .. l /\ l <= opts.max_auto_arpa
      /\ \A j \in 1 .. l : k[j] \in F /\ k[j] \in Entries
      /\ \A h, j \in 1 .. l : h < j => Before(k[h], k[j])
  BY DEF KeptInv
<1>2. \A j \in 1 .. n : t[j] \in F =>
        (\E h \in 1 .. l : k[h] = t[j]) \/ (\A h \in 1 .. l : Before(k[h], t[j]))
  BY DEF KeptInv
<1>3. /\ F \subseteq Entries
      /\ \A f \in F : \E j \in 1 .. n : f = t[j]
      /\ IsFiniteSet(F)
  <2>1. F \subseteq Elements(t)
    BY DEF Firsts
  <2> QED  BY <2>1, ElementsOf
<1> HIDE DEF n, l, F
<1>4. ASSUME NEW f \in P PROVE \E j \in 1 .. i - 1 : k[j] = f
  <2>1. f \in F /\ f \in Entries /\ Before(f, k[i]) /\ k[i] \in Entries
    BY <1>1, <1>3 DEF Prior
  <2>2. ~Before(k[i], f) /\ f # k[i]
    BY <2>1, BeforeIsOrder
  <2>3. PICK h \in 1 .. l : k[h] = f
    BY <1>1, <1>2, <1>3, <2>1, <2>2
  <2>4. ~(i < h) /\ h # i
    BY <1>1, <2>2, <2>3
  <2>5. h \in 1 .. i - 1
    BY <1>1, <2>4
  <2> QED  BY <2>3, <2>5
<1>5. ASSUME NEW j \in 1 .. i - 1 PROVE k[j] \in P
  BY <1>1 DEF Prior
<1> HIDE DEF P
<1>6. g \in Surjection(1 .. i - 1, P)
  <2>1. g \in [1 .. i - 1 -> P]
    BY <1>5
  <2>2. \A f \in P : \E j \in 1 .. i - 1 : g[j] = f
    BY <1>4
  <2> HIDE DEF g
  <2> QED  BY <2>1, <2>2 DEF Surjection
<1>7. Cardinality(P) <= i - 1
  <2>1. i - 1 \in Nat /\ ExistsSurjection(1 .. i - 1, P)
    BY <1>1, <1>6 DEF ExistsSurjection
  <2> QED  BY <2>1, FS_SurjCardinalityBound
<1>8. Cardinality(P) \in Nat
  <2>1. P \in SUBSET F
    BY DEF P, Prior
  <2>2. IsFiniteSet(P)
    BY <1>3, <2>1, FS_Subset
  <2> QED  BY <2>2, FS_CardinalityType
<1>9. Cardinality(P) < opts.max_auto_arpa
  BY <1>1, <1>7, <1>8
<1> QED  BY <1>4, <1>9 DEF P, F

(* What is not kept has as many before it as the limit. *)
LEMMA CutPlace ==
  ASSUME NEW t \in Seq(Entries), opts.max_auto_arpa \in Nat \ {0},
         NEW k, KeptInv(k, Len(t), t),
         NEW e \in Firsts(Elements(t)), \A i \in 1 .. Len(k) : k[i] # e
  PROVE  ~(Cardinality(Prior(Firsts(Elements(t)), e)) < opts.max_auto_arpa)
<1> DEFINE l == Len(k)
           max == opts.max_auto_arpa
           F == Firsts(Elements(t))
           P == Prior(F, e)
           g == [j \in 1 .. l |-> k[j]]
<1>1. PICK j \in 1 .. Len(t) : e = t[j]
  BY ElementsOf DEF Firsts
<1>2. l = max /\ \A i \in 1 .. l : Before(k[i], e)
  BY <1>1 DEF KeptInv
<1>3. /\ l \in Nat
      /\ \A i \in 1 .. l : k[i] \in F /\ k[i] \in Entries
      /\ \A h, i \in 1 .. l : h < i => Before(k[h], k[i])
  BY DEF KeptInv
<1>4. IsFiniteSet(F)
  BY ElementsOf
<1> HIDE DEF l, F
<1>5. P \in SUBSET F /\ \A i \in 1 .. l : k[i] \in P
  BY <1>2, <1>3 DEF Prior
<1> HIDE DEF P
<1>6. IsFiniteSet(P) /\ Cardinality(P) \in Nat
  <2>1. IsFiniteSet(P)
    BY <1>4, <1>5, FS_Subset
  <2> QED  BY <2>1, FS_CardinalityType
<1>7. g \in Injection(1 .. l, P)
  <2>1. g \in [1 .. l -> P]
    BY <1>5
  <2>2. ASSUME NEW h \in 1 .. l, NEW i \in 1 .. l, g[h] = g[i] PROVE h = i
    <3>1. k[h] = k[i] /\ ~Before(k[h], k[h])
      BY <1>3, <2>2, BeforeIsOrder
    <3>2. ~(h < i) /\ ~(i < h)
      BY <1>3, <3>1
    <3> QED  BY <1>3, <3>2
  <2> HIDE DEF g
  <2> QED  BY <2>1, <2>2 DEF Injection, IsInjective
<1>8. Cardinality(1 .. l) <= Cardinality(P)
  BY <1>6, <1>7, FS_Injection
<1>9. Cardinality(1 .. l) = l
  <2>1. 1 \in Int /\ l \in Int
    BY <1>3
  <2>2. Cardinality(1 .. l) = IF 1 > l THEN 0 ELSE l - 1 + 1
    BY <2>1, FS_Interval
  <2> QED  BY <1>3, <2>2
<1>10. ~(Cardinality(P) < max)
  BY <1>2, <1>3, <1>6, <1>8, <1>9
<1> QED  BY <1>10 DEF P, F

NamesIn(k) == {k[i].fqdn : i \in DOMAIN k}
HighNames(F) ==
  {e.fqdn : e \in {e \in F : Cardinality(Prior(F, e)) < opts.max_auto_arpa}}
FirstOf(F) == CHOOSE e \in F : Prior(F, e) = {}

(* The names that are kept are those with fewer first entries before them   *)
(* than the limit, and the list begins with the first entry of all.         *)
LEMMA KeptIsReference ==
  ASSUME NEW s \in Seq(Entries), s # << >>, opts.max_auto_arpa \in Nat \ {0},
         NEW F, F = Firsts(Elements(s))
  PROVE  NamesIn(OrderAndUnique(s)) = HighNames(F) /\ OrderAndUnique(s)[1] = FirstOf(F)
<1> DEFINE k == OrderAndUnique(s)
<1>1. PICK t \in Seq(Entries) :
        Elements(t) = Elements(s) /\ InOrder(t) /\ KeptInv(k, Len(t), t)
  BY KeptOfEntries
<1> DEFINE l == Len(k)
           High == {e \in F : Cardinality(Prior(F, e)) < opts.max_auto_arpa}
<1>2. /\ l \in Nat /\ DOMAIN k = 1 .. l
      /\ \A i \in 1 .. l : k[i] \in F /\ k[i] \in Entries
  <2> HIDE DEF k
  <2>1. k \in Seq(Entries) /\ \A i \in 1 .. l : k[i] \in F
    BY <1>1 DEF KeptInv
  <2> QED  BY <2>1
<1> HIDE DEF k, l
<1>3. ASSUME NEW i \in 1 .. l
      PROVE  k[i] \in High /\ \A f \in Prior(F, k[i]) : \E j \in 1 .. i - 1 : k[j] = f
  <2>1. i \in 1 .. Len(k)
    BY DEF l
  <2>2. /\ \A f \in Prior(Firsts(Elements(t)), k[i]) : \E j \in 1 .. i - 1 : k[j] = f
        /\ Cardinality(Prior(Firsts(Elements(t)), k[i])) < opts.max_auto_arpa
    BY <1>1, <2>1, KeptPlace
  <2> QED  BY <1>1, <1>2, <2>2
<1>4. ASSUME NEW e \in High PROVE \E i \in 1 .. l : k[i] = e
  <2>1. SUFFICES ASSUME \A i \in 1 .. Len(k) : k[i] # e PROVE FALSE
    BY DEF l
  <2>2. e \in Firsts(Elements(t))
    BY <1>1
  <2>3. ~(Cardinality(Prior(Firsts(Elements(t)), e)) < opts.max_auto_arpa)
    BY <1>1, <2>1, <2>2, CutPlace
  <2> QED  BY <1>1, <2>3
<1>5. {k[i].fqdn : i \in 1 .. l} = {e.fqdn : e \in High}
  <2> HIDE DEF High
  <2> QED  BY <1>3, <1>4
<1>6. F \subseteq Entries
  BY <1>1, ElementsOf
<1>7. l >= 1
  <2>1. 1 \in 1 .. Len(s)
    OBVIOUS
  <2>2. s[1] \in Elements(s)
    BY <2>1 DEF Elements
  <2>3. PICK j \in 1 .. Len(t) : s[1] = t[j]
    BY <1>1, <2>2, ElementsOf
  <2>4. PICK i \in 1 .. j : t[i] \in F /\ t[i].fqdn = t[j].fqdn
    BY <1>1, FirstStands
  <2>5. i \in 1 .. Len(t) /\ t[i] \in Firsts(Elements(t))
    BY <1>1, <2>4
  <2>6. (\E m \in 1 .. l : k[m] = t[i]) \/ l = opts.max_auto_arpa
    BY <1>1, <2>5 DEF KeptInv, l
  <2> QED  BY <1>2, <2>6
<1>8. k[1] \in F /\ Prior(F, k[1]) = {}
  <2>1. 1 \in 1 .. l
    BY <1>2, <1>7
  <2>2. \A f \in Prior(F, k[1]) : \E j \in 1 .. 1 - 1 : k[j] = f
    BY <1>3, <2>1
  <2>3. Prior(F, k[1]) = {}
    BY <2>2
  <2> QED  BY <1>2, <2>1, <2>3
<1>9. ASSUME NEW e \in F, Prior(F, e) = {} PROVE e = k[1]
  <2>1. ~Before(e, k[1]) /\ ~Before(k[1], e)
    BY <1>8, <1>9 DEF Prior
  <2>2. e \in Entries /\ k[1] \in Entries
    BY <1>6, <1>8
  <2> QED  BY <2>1, <2>2, BeforeIsOrder
<1>10. k[1] = FirstOf(F)
  BY <1>8, <1>9 DEF FirstOf
<1>11. NamesIn(k) = HighNames(F)
  BY <1>2, <1>5 DEF NamesIn, HighNames
<1> QED  BY <1>10, <1>11 DEF k

-----------------------------------------------------------------------------
(* Records *)

IsRecord(r) ==
  r \in [name : {r.name}, priority : Int, ttl : Int,
         values : Seq(Int), geo : Seq(Int), pools : Seq(Int)]

(* What process_source_zone makes of a record. *)
Seen(r) == IF Considered(r) THEN [r EXCEPT !.values = AllValues(r)] ELSE r

(* An address is mentioned a number of times. *)
LEMMA MentionsCounted ==
  ASSUME NEW r, IsRecord(r), NEW ip
  PROVE  /\ Cardinality(Mentions(r, ip)) \in Nat
         /\ Cardinality(Mentions(r, ip)) = 0 <=> Mentions(r, ip) = {}
         /\ AllValues(r) \in Seq(Int)
<1>1. AllValues(r) \in Seq(Int)
  BY DEF IsRecord, AllValues
<1>2. Len(AllValues(r)) \in Nat /\ DOMAIN AllValues(r) = 1 .. Len(AllValues(r))
  BY <1>1
<1>3. IsFiniteSet(DOMAIN AllValues(r))
  <2>1. 1 \in Int /\ Len(AllValues(r)) \in Int
    BY <1>2
  <2> QED  BY <1>2, <2>1, FS_Interval
<1>4. Mentions(r, ip) \in SUBSET DOMAIN AllValues(r)
  BY DEF Mentions
<1>5. IsFiniteSet(Mentions(r, ip))
  BY <1>3, <1>4, FS_Subset
<1> QED  BY <1>1, <1>5, FS_CardinalityType, FS_EmptySet

(* a list has an address *)
Has(s, ip) == \E i \in DOMAIN s : s[i] = ip

(* The addresses of two lists one after the other. *)
LEMMA Joined ==
  ASSUME NEW T, NEW s \in Seq(T), NEW t \in Seq(T), NEW x
  PROVE  Has(s \o t, x) <=> Has(s, x) \/ Has(t, x)
<1>1. /\ Len(s) \in Nat /\ DOMAIN s = 1 .. Len(s)
      /\ Len(t) \in Nat /\ DOMAIN t = 1 .. Len(t)
      /\ DOMAIN (s \o t) = 1 .. (Len(s) + Len(t))
      /\ \A i \in 1 .. (Len(s) + Len(t)) :
           (s \o t)[i] = IF i <= Len(s) THEN s[i] ELSE t[i - Len(s)]
  OBVIOUS
<1> DEFINE m == Len(s)
           n == Len(t)
           u == s \o t
<1>2. /\ m \in Nat /\ DOMAIN s = 1 .. m /\ n \in Nat /\ DOMAIN t = 1 .. n
      /\ DOMAIN u = 1 .. (m + n)
      /\ \A i \in 1 .. (m + n) : u[i] = IF i <= m THEN s[i] ELSE t[i - m]
  BY <1>1
<1> HIDE DEF m, n, u
<1>3. ASSUME NEW i \in DOMAIN u, u[i] = x
      PROVE  (\E j \in DOMAIN s : s[j] = x) \/ (\E j \in DOMAIN t : t[j] = x)
  <2>1. CASE i <= m
    <3>1. i \in DOMAIN s /\ s[i] = x
      BY <1>2, <1>3, <2>1
    <3> QED  BY <3>1
  <2>2. CASE ~(i <= m)
    <3>1. i - m \in DOMAIN t /\ t[i - m] = x
      BY <1>2, <1>3, <2>2
    <3> QED  BY <3>1
  <2> QED  BY <2>1, <2>2
<1>4. ASSUME NEW i \in DOMAIN s, s[i] = x PROVE \E j \in DOMAIN u : u[j] = x
  <2>1. i \in DOMAIN u /\ u[i] = x
    BY <1>2, <1>4
  <2> QED  BY <2>1
<1>5. ASSUME NEW i \in DOMAIN t, t[i] = x PROVE \E j \in DOMAIN u : u[j] = x
  <2>1. i + m \in DOMAIN u /\ ~(i + m <= m) /\ (i + m) - m = i
    BY <1>2, <1>5
  <2>2. u[i + m] = x
    BY <1>2, <1>5, <2>1
  <2> QED  BY <2>1, <2>2
<1> QED  BY <1>3, <1>4, <1>5 DEF u, Has

(* Who a record mentions: the addresses of its three parts. *)
LEMMA MentionsParts ==
  ASSUME NEW r, IsRecord(r), NEW ip
  PROVE  Mentions(r, ip) # {} <=> Has(r.values, ip) \/ Has(r.geo, ip) \/ Has(r.pools, ip)
<1>1. r.values \in Seq(Int) /\ r.geo \in Seq(Int) /\ r.pools \in Seq(Int)
  BY DEF IsRecord
<1>2. r.values \o r.geo \in Seq(Int)
  BY <1>1
<1>3. Has(AllValues(r), ip) <=> Has(r.values \o r.geo, ip) \/ Has(r.pools, ip)
  <2> DEFINE s == r.values \o r.geo
             t == r.pools
  <2>1. s \in Seq(Int) /\ t \in Seq(Int) /\ AllValues(r) = s \o t
    BY <1>1, <1>2 DEF AllValues
  <2> HIDE DEF s, t
  <2>2. Has(s \o t, ip) <=> Has(s, ip) \/ Has(t, ip)
    BY <2>1, Joined
  <2> QED  BY <2>1, <2>2 DEF s, t
<1>4. Has(r.values \o r.geo, ip) <=> Has(r.values, ip) \/ Has(r.geo, ip)
  BY <1>1, Joined
<1>5. Mentions(r, ip) # {} <=> Has(AllValues(r), ip)
  BY DEF Mentions, Has
<1> QED  BY <1>3, <1>4, <1>5

(* The copy that an alias gets of a record that was seen has the same       *)
(* entries.                                                                 *)
LEMMA CopyAgrees ==
  ASSUME NEW r, IsRecord(r), NEW ip, NEW z
  PROVE  /\ IsRecord(CopyOf(Seen(r)))
         /\ CopyOf(Seen(r)).name = r.name
         /\ Considered(CopyOf(Seen(r))) <=> Considered(r)
         /\ Entry(z, CopyOf(Seen(r))) = Entry(z, r)
         /\ Considered(r) =>
              (Mentions(CopyOf(Seen(r)), ip) # {} <=> Mentions(r, ip) # {})
<1> DEFINE m == Seen(r)
           c == CopyOf(m)
<1>1. AllValues(r) \in Seq(Int)
  BY MentionsCounted
<1>2. /\ IsRecord(m) /\ m.values \in Seq(Int)
      /\ m.name = r.name /\ m.priority = r.priority /\ m.ttl = r.ttl
      /\ m.geo = r.geo /\ m.pools = r.pools
      /\ Considered(r) => m.values = AllValues(r)
  BY <1>1 DEF Seen, IsRecord
<1> HIDE DEF m
<1>3. /\ Sorted(m.values, <) \in Seq(Int)
      /\ Has(Sorted(m.values, <), ip) <=> Has(m.values, ip)
  <2> DEFINE s == m.values
             t == Sorted(s, <)
  <2>1. /\ t \in Seq(Int) /\ Len(t) = Len(s)
        /\ \A i \in 1 .. Len(s) : \E j \in 1 .. Len(s) : t[j] = s[i]
        /\ \A j \in 1 .. Len(s) : \E i \in 1 .. Len(s) : t[j] = s[i]
    BY <1>2, SortedValues
  <2>2. s \in Seq(Int)
    BY <1>2
  <2> HIDE DEF t, s
  <2>3. DOMAIN t = 1 .. Len(s) /\ DOMAIN s = 1 .. Len(s)
    BY <2>1, <2>2
  <2>4. Has(t, ip) <=> Has(s, ip)
    BY <2>1, <2>3, Zenon DEF Has
  <2> QED  BY <2>1, <2>4 DEF t, s
<1>4. c = [m EXCEPT !.values = Sorted(m.values, <)]
  BY DEF CopyOf
<1>5. /\ IsRecord(c) /\ c.values = Sorted(m.values, <)
      /\ c.name = r.name /\ c.priority = r.priority /\ c.ttl = r.ttl
      /\ c.geo = r.geo /\ c.pools = r.pools
  <2> HIDE DEF c
  <2> QED  BY <1>2, <1>3, <1>4 DEF IsRecord
<1> HIDE DEF c
<1>6. (Considered(c) <=> Considered(r)) /\ Entry(z, c) = Entry(z, r)
  BY <1>5 DEF Considered, Entry
<1>7. ASSUME Considered(r)
      PROVE  Mentions(c, ip) # {} <=> Mentions(r, ip) # {}
  <2>1. Mentions(c, ip) # {} <=> Has(c.values, ip) \/ Has(c.geo, ip) \/ Has(c.pools, ip)
    BY <1>5, MentionsParts
  <2>2. Mentions(r, ip) # {} <=> Has(AllValues(r), ip)
    BY DEF Mentions, Has
  <2>3. Mentions(r, ip) # {} <=> Has(r.values, ip) \/ Has(r.geo, ip) \/ Has(r.pools, ip)
    BY MentionsParts
  <2>4. Has(c.values, ip) <=> Has(AllValues(r), ip)
    BY <1>2, <1>3, <1>5, <1>7
  <2> QED  BY <1>5, <2>1, <2>2, <2>3, <2>4
<1> QED  BY <1>5, <1>6, <1>7 DEF c, m

-----------------------------------------------------------------------------
(* The run *)

Zs == Forward \cup DOMAIN AliasOf

(* The records that the tasks are given: an alias has copies, when it is    *)
(* submitted.                                                               *)
Given(z) ==
  IF z \in Forward THEN source[z]
  ELSE IF aliased THEN {CopyOf(Seen(r)) : r \in source[AliasOf[z]]} ELSE {}

(* Whether an entry is due of the records that were seen. *)
IsDue(e, ip) ==
  \E z \in Zs : \E r \in Given(z) \ todo[z] :
     Considered(r) /\ Mentions(r, ip) # {} /\ e = Entry(z, r)

TypesInv ==
  /\ opts \in Options
  /\ \A z \in Forward : source[z] \in Sources(z)
  /\ aliased \in BOOLEAN
  /\ todo = [z \in Zs |-> todo[z]]
  /\ desired = [z \in Zs |-> desired[z]]
  /\ collected = [ip \in Addresses |-> collected[ip]]
  /\ \A ip \in Addresses : collected[ip] \in Seq(Entries)
  /\ arpa = [a \in Arpa |-> arpa[a]]
TasksInv ==
  /\ \A z \in Zs : todo[z] \subseteq Given(z)
  /\ \A z \in Forward : desired[z] = {Seen(r) : r \in source[z] \ todo[z]}
  /\ aliased => \A z \in Forward : todo[z] = {}
CollectedInv ==
  \A ip \in Addresses : \A e : e \in Elements(collected[ip]) <=> IsDue(e, ip)
PopulatedInv ==
  \A a \in Arpa : arpa[a].status = "populated" =>
    /\ aliased /\ \A z \in Zs : todo[z] = {}
    /\ arpa[a].ptrs = {Ptr(ip) : ip \in Matching(a) \ Barred(a)}
RunInv == TypesInv /\ TasksInv /\ CollectedInv /\ PopulatedInv

(* Zones have records, and the entries of records are entries. *)
LEMMA GivenRecords ==
  ASSUME TypesInv, NEW z \in Zs, NEW r \in Given(z)
  PROVE  IsRecord(r) /\ \A y \in Zs : Entry(y, r) \in Entries
<1>1. ASSUME NEW s \in Zs, s \in Forward, NEW q \in source[s]
      PROVE  /\ IsRecord(q)
             /\ \A y \in Zs : Fqdn(y, q.name) \in Int
  <2>1. source[s] \in Sources(s)
    BY <1>1 DEF TypesInv
  <2> QED  BY <1>1, <2>1, EntryAssumption DEF IsRecord, Zs
<1>2. PICK q : /\ IsRecord(q)
               /\ \A y \in Zs : Fqdn(y, q.name) \in Int
               /\ r = q \/ r = CopyOf(Seen(q))
  <2>1. CASE z \in Forward
    BY <1>1, <2>1 DEF Given
  <2>2. CASE z \notin Forward
    <3>1. PICK q \in source[AliasOf[z]] : r = CopyOf(Seen(q))
      BY <2>2 DEF Given
    <3>2. AliasOf[z] \in Forward /\ AliasOf[z] \in Zs
      BY <2>2, AliasAssumption DEF Zs
    <3> QED  BY <1>1, <3>1, <3>2
  <2> QED  BY <2>1, <2>2
<1>3. IsRecord(r) /\ r.name = q.name
  BY <1>2, CopyAgrees
<1>4. ASSUME NEW y \in Zs PROVE Entry(y, r) \in Entries
  <2>1. /\ opts.ttl \in Int
        /\ opts.wildcard_replacement # None => Fqdn(y, opts.wildcard_replacement) \in Int
    BY EntryAssumption DEF TypesInv, Zs
  <2>2. Fqdn(y, Shown(r.name)) \in Int
    BY <1>2, <1>3, <2>1 DEF Shown
  <2>3. r.priority \in Int /\ r.ttl \in Int
    BY <1>3 DEF IsRecord
  <2> QED  BY <2>1, <2>2, <2>3 DEF Entry, Entries
<1> QED  BY <1>3, <1>4

LEMMA InitRun == Init => RunInv
<1> SUFFICES ASSUME Init PROVE RunInv
  OBVIOUS
<1>1. /\ \A z \in Zs : todo[z] = Given(z)
      /\ \A z \in Forward : todo[z] = source[z]
      /\ aliased = FALSE
  BY DEF Init, Given, Zs
<1>2. TypesInv
  <2>1. \A z \in Forward : source[z] \in Sources(z)
    BY DEF Init
  <2>2. << >> \in Seq(Entries)
    OBVIOUS
  <2> QED  BY <2>1, <2>2 DEF Init, TypesInv, Zs
<1>3. TasksInv
  BY <1>1 DEF Init, TasksInv, Zs
<1>4. CollectedInv
  <2> SUFFICES ASSUME NEW ip \in Addresses, NEW e
               PROVE  ~(e \in Elements(collected[ip])) /\ ~IsDue(e, ip)
    BY DEF CollectedInv
  <2>1. collected[ip] = << >>
    BY DEF Init
  <2>2. ~(e \in Elements(<< >>))
    BY DEF Elements
  <2> QED  BY <1>1, <2>1, <2>2 DEF IsDue
<1>5. PopulatedInv
  BY DEF Init, PopulatedInv, Waiting
<1> QED  BY <1>2, <1>3, <1>4, <1>5 DEF RunInv

(* The entries that a list has when those of a record are added. *)
LEMMA ElementsAdded ==
  ASSUME NEW s \in Seq(Entries), NEW n \in Nat, NEW e \in Entries,
         NEW t \in Seq(Entries), Len(t) = n, \A i \in 1 .. n : t[i] = e
  PROVE  /\ s \o t \in Seq(Entries)
         /\ \A f : f \in Elements(s \o t) <=> f \in Elements(s) \/ (n # 0 /\ f = e)
<1> DEFINE u == s \o t
<1>1. DOMAIN t = 1 .. n
  OBVIOUS
<1>2. \A f : \A v \in Seq(Entries) : f \in Elements(v) <=> Has(v, f)
  <2> TAKE f
  <2> TAKE v \in Seq(Entries)
  <2>1. DOMAIN v = 1 .. Len(v)
    OBVIOUS
  <2> QED  BY <2>1 DEF Elements, Has
<1>3. \A f : Has(t, f) <=> n # 0 /\ f = e
  BY <1>1 DEF Has
<1>4. u \in Seq(Entries)
  OBVIOUS
<1>5. ASSUME NEW f PROVE Has(u, f) <=> Has(s, f) \/ Has(t, f)
  BY Joined
<1> HIDE DEF u
<1>6. \A f : f \in Elements(u) <=> f \in Elements(s) \/ (n # 0 /\ f = e)
  BY <1>2, <1>3, <1>4, <1>5
<1> QED  BY <1>4, <1>6 DEF u

(* A record that a task has seen is one that it had to see, and its entries *)
(* are due from then on.                                                    *)
LEMMA CollectRuns ==
  ASSUME RunInv, NEW z \in DOMAIN todo, Collect(z) PROVE RunInv'
<1>1. PICK r \in todo[z] :
        /\ todo' = [todo EXCEPT ![z] = @ \ {r}]
        /\ desired' = [desired EXCEPT ![z] = @ \cup {Seen(r)}]
        /\ collected' =
             IF ~Considered(r) THEN collected
             ELSE [ip \in Addresses |->
                     collected[ip] \o
                     [n \in 1 .. Cardinality(Mentions(r, ip)) |-> Entry(z, r)]]
        /\ UNCHANGED <<opts, source, aliased, arpa>>
  BY DEF Collect, Seen
<1>2. /\ z \in Zs /\ r \in Given(z)
      /\ \A y \in Zs : todo[y] \subseteq Given(y)
  BY DEF RunInv, TypesInv, TasksInv
<1>3. IsRecord(r) /\ Entry(z, r) \in Entries
  BY <1>2, GivenRecords DEF RunInv
<1>4. /\ \A q : Considered(q)' <=> Considered(q)
      /\ \A y, q : Entry(y, q)' = Entry(y, q)
      /\ \A q : Seen(q)' = Seen(q)
  BY <1>1 DEF Considered, Entry, Shown, Seen
<1>5. \A y : Given(y)' = Given(y)
  BY <1>1, <1>4 DEF Given
<1>6. /\ \A y \in Zs : todo'[y] = IF y = z THEN todo[z] \ {r} ELSE todo[y]
      /\ todo' = [y \in Zs |-> todo'[y]]
  BY <1>1, <1>2 DEF RunInv, TypesInv
<1>7. /\ \A y \in Zs : desired'[y] = IF y = z THEN desired[z] \cup {Seen(r)} ELSE desired[y]
      /\ desired' = [y \in Zs |-> desired'[y]]
  BY <1>1, <1>2 DEF RunInv, TypesInv
<1>8. /\ collected' = [ip \in Addresses |-> collected'[ip]]
      /\ \A ip \in Addresses :
           /\ collected'[ip] \in Seq(Entries)
           /\ \A e : e \in Elements(collected'[ip]) <=>
                       \/ e \in Elements(collected[ip])
                       \/ Considered(r) /\ Mentions(r, ip) # {} /\ e = Entry(z, r)
  <2>1. CASE ~Considered(r)
    BY <1>1, <2>1 DEF RunInv, TypesInv
  <2>2. CASE Considered(r)
    <3>1. collected' = [ip \in Addresses |->
                          collected[ip] \o
                          [n \in 1 .. Cardinality(Mentions(r, ip)) |-> Entry(z, r)]]
      BY <1>1, <2>2
    <3>2. ASSUME NEW ip \in Addresses
          PROVE  /\ collected'[ip] \in Seq(Entries)
                 /\ \A e : e \in Elements(collected'[ip]) <=>
                             e \in Elements(collected[ip]) \/ (Mentions(r, ip) # {} /\ e = Entry(z, r))
      <4> DEFINE s == collected[ip]
                 n == Cardinality(Mentions(r, ip))
                 f == Entry(z, r)
                 t == [i \in 1 .. n |-> f]
                 u == s \o t
      <4>1. s \in Seq(Entries) /\ f \in Entries
        BY <1>3 DEF RunInv, TypesInv
      <4>2. n \in Nat /\ (n = 0 <=> Mentions(r, ip) = {})
        BY <1>3, MentionsCounted
      <4>3. collected'[ip] = u
        BY <3>1
      <4> HIDE DEF s, n, f
      <4>4. t \in Seq(Entries) /\ Len(t) = n /\ \A i \in 1 .. n : t[i] = f
        BY <4>1, <4>2
      <4> HIDE DEF t
      <4>5. /\ u \in Seq(Entries)
            /\ \A e : e \in Elements(u) <=> e \in Elements(s) \/ (n # 0 /\ e = f)
        BY <4>1, <4>2, <4>4, ElementsAdded
      <4> HIDE DEF u
      <4>6. /\ collected'[ip] \in Seq(Entries)
            /\ \A e : e \in Elements(collected'[ip]) <=>
                        e \in Elements(s) \/ (Mentions(r, ip) # {} /\ e = f)
        BY <4>2, <4>3, <4>5
      <4> QED  BY <4>6 DEF s, f
    <3>3. collected' = [ip \in Addresses |-> collected'[ip]]
      BY <3>1
    <3>4. \A ip \in Addresses :
           /\ collected'[ip] \in Seq(Entries)
           /\ \A e : e \in Elements(collected'[ip]) <=>
                       \/ e \in Elements(collected[ip])
                       \/ Considered(r) /\ Mentions(r, ip) # {} /\ e = Entry(z, r)
      <4> TAKE ip \in Addresses
      <4>1. collected'[ip] \in Seq(Entries)
        BY <3>2
      <4>2. ASSUME NEW e
            PROVE  e \in Elements(collected'[ip]) <=>
                     \/ e \in Elements(collected[ip])
                     \/ Considered(r) /\ Mentions(r, ip) # {} /\ e = Entry(z, r)
        <5>1. e \in Elements(collected'[ip]) <=>
                e \in Elements(collected[ip]) \/ (Mentions(r, ip) # {} /\ e = Entry(z, r))
          BY <3>2
        <5> QED  BY <2>2, <5>1
      <4> QED  BY <4>1, <4>2
    <3> QED  BY <3>3, <3>4, Zenon
  <2> QED  BY <2>1, <2>2
<1>9. TypesInv'
  BY <1>1, <1>6, <1>7, <1>8 DEF RunInv, TypesInv
<1>10. TasksInv'
  <2>1. \A y \in Zs : todo'[y] \subseteq Given(y)'
    BY <1>2, <1>5, <1>6
  <2>2. ASSUME NEW y \in Forward
        PROVE  desired'[y] = {Seen(q)' : q \in source'[y] \ todo'[y]}
    <3>1. desired[y] = {Seen(q) : q \in source[y] \ todo[y]} /\ y \in Zs
      BY DEF RunInv, TasksInv, Zs
    <3>2. CASE y # z
      BY <1>1, <1>4, <1>6, <1>7, <3>1, <3>2
    <3>3. CASE y = z
      <4>1. r \in source[y] /\ r \in todo[y]
        BY <1>1, <1>2, <3>3 DEF Given
      <4>2. source[y] \ (todo[y] \ {r}) = (source[y] \ todo[y]) \cup {r}
        BY <4>1
      <4>3. desired'[y] = {Seen(q) : q \in source[y] \ todo[y]} \cup {Seen(r)}
        BY <1>7, <3>1, <3>3
      <4>4. source'[y] \ todo'[y] = (source[y] \ todo[y]) \cup {r}
        BY <1>1, <1>6, <3>1, <3>3, <4>2
      <4>5. desired'[y] = {Seen(q) : q \in (source[y] \ todo[y]) \cup {r}}
        BY <4>3
      <4> QED  BY <1>4, <4>4, <4>5
    <3> QED  BY <3>2, <3>3
  <2>3. aliased' => \A y \in Forward : todo'[y] = {}
    BY <1>1, <1>6 DEF RunInv, TasksInv, Zs
  <2> QED  BY <2>1, <2>2, <2>3 DEF TasksInv
<1>11. CollectedInv'
  <2> SUFFICES ASSUME NEW ip \in Addresses, NEW e
               PROVE  e \in Elements(collected'[ip]) <=> IsDue(e, ip)'
    BY DEF CollectedInv
  <2>1. e \in Elements(collected[ip]) <=> IsDue(e, ip)
    BY DEF RunInv, CollectedInv
  <2>2. IsDue(e, ip)' <=>
          \E y \in Zs : \E q \in Given(y) \ todo'[y] :
             Considered(q) /\ Mentions(q, ip) # {} /\ e = Entry(y, q)
    BY <1>4, <1>5 DEF IsDue
  <2>3. \A y \in Zs : \A q \in Given(y) :
          q \notin todo'[y] <=> q \notin todo[y] \/ (y = z /\ q = r)
    BY <1>1, <1>6
  <2>4. IsDue(e, ip)' <=>
          IsDue(e, ip) \/ (Considered(r) /\ Mentions(r, ip) # {} /\ e = Entry(z, r))
    BY <1>2, <2>2, <2>3 DEF IsDue
  <2> QED  BY <1>8, <2>1, <2>4
<1>12. PopulatedInv'
  <2>1. \A a \in Arpa : arpa[a].status # "populated"
    BY <1>1, <1>2 DEF RunInv, PopulatedInv
  <2> QED  BY <1>1, <2>1 DEF PopulatedInv
<1> QED  BY <1>9, <1>10, <1>11, <1>12 DEF RunInv

(* The alias zones are given copies of all records of their zones. *)
LEMMA AliasesRun ==
  ASSUME RunInv, SubmitAliases PROVE RunInv'
<1>1. /\ ~aliased /\ \A z \in Forward : todo[z] = {}
      /\ aliased' = TRUE
      /\ todo' = [z \in DOMAIN todo |->
                    IF z \in DOMAIN AliasOf THEN {CopyOf(q) : q \in desired[AliasOf[z]]} ELSE {}]
      /\ UNCHANGED <<opts, source, desired, collected, arpa>>
  BY DEF SubmitAliases
<1>2. DOMAIN todo = Zs
  BY DEF RunInv, TypesInv
<1>3. /\ \A q : Considered(q)' <=> Considered(q)
      /\ \A y, q : Entry(y, q)' = Entry(y, q)
      /\ \A q : Seen(q)' = Seen(q)
  BY <1>1 DEF Considered, Entry, Shown, Seen
<1>4. ASSUME NEW z \in Forward
      PROVE  /\ todo[z] = {} /\ todo'[z] = {}
             /\ Given(z)' = Given(z) /\ Given(z) = source[z]
  BY <1>1, <1>2, AliasAssumption DEF Given, Zs
<1>5. ASSUME NEW z \in Zs, z \notin Forward
      PROVE  todo[z] = {} /\ Given(z) = {} /\ todo'[z] = Given(z)'
  <2>1. z \in DOMAIN AliasOf /\ AliasOf[z] \in Forward
    BY <1>5, AliasAssumption DEF Zs
  <2>2. Given(z) = {}
    BY <1>1, <1>5 DEF Given
  <2>3. todo[z] = {}
    BY <2>2 DEF RunInv, TasksInv
  <2>4. desired[AliasOf[z]] = {Seen(q) : q \in source[AliasOf[z]]}
    BY <1>1, <2>1 DEF RunInv, TasksInv
  <2>5. todo'[z] = {CopyOf(q) : q \in desired[AliasOf[z]]}
    BY <1>1, <1>2, <2>1
  <2>6. Given(z)' = {CopyOf(Seen(q)) : q \in source[AliasOf[z]]}
    BY <1>1, <1>3, <1>5 DEF Given
  <2> QED  BY <2>2, <2>3, <2>4, <2>5, <2>6
<1>6. todo' = [z \in Zs |-> todo'[z]]
  BY <1>1, <1>2
<1>7. TypesInv'
  BY <1>1, <1>6 DEF RunInv, TypesInv
<1>8. TasksInv'
  <2>1. \A z \in Zs : todo'[z] \subseteq Given(z)'
    BY <1>4, <1>5
  <2>2. ASSUME NEW z \in Forward
        PROVE  desired'[z] = {Seen(q)' : q \in source'[z] \ todo'[z]}
    <3>1. desired[z] = {Seen(q) : q \in source[z] \ todo[z]}
      BY DEF RunInv, TasksInv
    <3> QED  BY <1>1, <1>3, <1>4, <3>1
  <2> QED  BY <1>4, <2>1, <2>2 DEF TasksInv
<1>9. CollectedInv'
  <2> SUFFICES ASSUME NEW ip \in Addresses, NEW e
               PROVE  e \in Elements(collected'[ip]) <=> IsDue(e, ip)'
    BY DEF CollectedInv
  <2>1. e \in Elements(collected[ip]) <=> IsDue(e, ip)
    BY DEF RunInv, CollectedInv
  <2>2. IsDue(e, ip)' <=>
          \E y \in Zs : \E q \in Given(y)' \ todo'[y] :
             Considered(q) /\ Mentions(q, ip) # {} /\ e = Entry(y, q)
    BY <1>3 DEF IsDue
  <2>3. \A y \in Zs : Given(y)' \ todo'[y] = Given(y) \ todo[y]
    BY <1>4, <1>5
  <2>4. IsDue(e, ip)' <=> IsDue(e, ip)
    BY <2>2, <2>3 DEF IsDue
  <2> QED  BY <1>1, <2>1, <2>4
<1>10. PopulatedInv'
  <2>1. \A a \in Arpa : arpa[a].status # "populated"
    BY <1>1 DEF RunInv, PopulatedInv
  <2> QED  BY <1>1, <2>1 DEF PopulatedInv
<1> QED  BY <1>7, <1>8, <1>9, <1>10 DEF RunInv

(* The entries of an address, and so its record. *)
LEMMA SamePtr ==
  ASSUME opts' = opts, collected' = collected
  PROVE  /\ \A ip : Ptr(ip)' = Ptr(ip)
         /\ \A a : Matching(a)' = Matching(a) /\ Barred(a)' = Barred(a)
<1>1. \A k, e : Keep(k, e)' = Keep(k, e)
  BY DEF Keep
<1>2. \A s : OrderAndUnique(s)' = OrderAndUnique(s)
  BY <1>1 DEF OrderAndUnique
<1>3. \A ip : Ptr(ip)' = Ptr(ip)
  BY <1>2 DEF Ptr
<1> QED  BY <1>3 DEF Matching, Barred

(* Other steps change nothing that IInv and RunInv are about. *)
LEMMA PopulateRuns ==
  ASSUME RunInv, NEW b \in Arpa, PopulateArpa(b) PROVE RunInv'
<1>1. /\ aliased /\ \A z \in Zs : todo[z] = {}
      /\ arpa' = [arpa EXCEPT ![b] =
                    IF AddRaises(b) THEN Raised
                    ELSE Populated({Ptr(ip) : ip \in Matching(b) \ Barred(b)})]
      /\ UNCHANGED <<opts, source, todo, desired, aliased, collected>>
  BY DEF PopulateArpa, RunInv, TypesInv
<1>2. /\ \A q : Considered(q)' <=> Considered(q)
      /\ \A y, q : Entry(y, q)' = Entry(y, q)
      /\ \A q : Seen(q)' = Seen(q)
  BY <1>1 DEF Considered, Entry, Shown, Seen
<1>3. \A y : Given(y)' = Given(y)
  BY <1>1, <1>2 DEF Given
<1>4. \A e, ip : IsDue(e, ip)' <=> IsDue(e, ip)
  BY <1>1, <1>2, <1>3 DEF IsDue
<1>5. TypesInv'
  BY <1>1 DEF RunInv, TypesInv
<1>6. TasksInv'
  BY <1>1, <1>2, <1>3 DEF RunInv, TasksInv
<1>7. CollectedInv'
  BY <1>1, <1>4 DEF RunInv, CollectedInv
<1>8. PopulatedInv'
  <2> SUFFICES ASSUME NEW a \in Arpa, arpa'[a].status = "populated"
               PROVE  arpa'[a].ptrs = {Ptr(ip)' : ip \in Matching(a)' \ Barred(a)'}
    BY <1>1 DEF PopulatedInv
  <2>1. {Ptr(ip)' : ip \in Matching(a)' \ Barred(a)'} = {Ptr(ip) : ip \in Matching(a) \ Barred(a)}
    BY <1>1, SamePtr
  <2>2. CASE a # b
    <3>1. arpa'[a] = arpa[a]
      BY <1>1, <2>2 DEF RunInv, TypesInv
    <3> QED  BY <2>1, <3>1 DEF RunInv, PopulatedInv
  <2>3. CASE a = b
    <3>1. arpa'[a] = Raised \/ arpa'[a] = Populated({Ptr(ip) : ip \in Matching(a) \ Barred(a)})
      BY <1>1, <2>3 DEF RunInv, TypesInv
    <3>2. arpa'[a] = Populated({Ptr(ip) : ip \in Matching(a) \ Barred(a)})
      BY <3>1 DEF Raised
    <3> QED  BY <2>1, <3>2 DEF Populated
  <2> QED  BY <2>2, <2>3
<1> QED  BY <1>5, <1>6, <1>7, <1>8 DEF RunInv

LEMMA StutterRuns ==
  ASSUME RunInv, UNCHANGED vars PROVE RunInv'
<1>1. UNCHANGED <<opts, source, todo, desired, aliased, collected, arpa>>
  BY DEF vars
<1>2. /\ \A q : Considered(q)' <=> Considered(q)
      /\ \A y, q : Entry(y, q)' = Entry(y, q)
      /\ \A q : Seen(q)' = Seen(q)
  BY <1>1 DEF Considered, Entry, Shown, Seen
<1>3. \A y : Given(y)' = Given(y)
  BY <1>1, <1>2 DEF Given
<1>4. \A e, ip : IsDue(e, ip)' <=> IsDue(e, ip)
  BY <1>1, <1>2, <1>3 DEF IsDue
<1>5. TypesInv'
  BY <1>1 DEF RunInv, TypesInv
<1>6. TasksInv'
  BY <1>1, <1>2, <1>3 DEF RunInv, TasksInv
<1>7. CollectedInv'
  BY <1>1, <1>4 DEF RunInv, CollectedInv
<1>8. PopulatedInv'
  BY <1>1, SamePtr DEF RunInv, PopulatedInv
<1> QED  BY <1>5, <1>6, <1>7, <1>8 DEF RunInv

(* Every step of the run keeps RunInv. *)
LEMMA RunHolds == Spec => []RunInv
<1>1. RunInv /\ [Next]_vars => RunInv'
  <2> SUFFICES ASSUME RunInv, [Next]_vars PROVE RunInv'
    OBVIOUS
  <2>1. ASSUME NEW z \in DOMAIN todo, Collect(z) PROVE RunInv'
    BY <2>1, CollectRuns
  <2>2. CASE SubmitAliases
    BY <2>2, AliasesRun
  <2>3. ASSUME NEW a \in Arpa, PopulateArpa(a) PROVE RunInv'
    BY <2>3, PopulateRuns
  <2>4. CASE UNCHANGED vars
    BY <2>4, StutterRuns
  <2> QED  BY <2>1, <2>2, <2>3, <2>4 DEF Next
<1> QED  BY <1>1, InitRun, PTL DEF Spec

(* When all tasks are done, the entries of an address are its holders'. *)
LEMMA HoldersCollected ==
  ASSUME RunInv, aliased, \A z \in Zs : todo[z] = {}, NEW ip \in Addresses
  PROVE  Holders(ip) = Elements(collected[ip])
<1>1. DOMAIN todo = Zs /\ \A e : e \in Elements(collected[ip]) <=> IsDue(e, ip)
  BY DEF RunInv, TypesInv, CollectedInv
<1>2. \A e : e \in Holders(ip) <=>
               \E z \in Zs : \E r \in Configured(z) :
                  Considered(r) /\ Mentions(r, ip) # {} /\ e = Entry(z, r)
  BY <1>1 DEF Holders
<1>3. \A e : IsDue(e, ip) <=>
               \E z \in Zs : \E r \in Given(z) :
                  Considered(r) /\ Mentions(r, ip) # {} /\ e = Entry(z, r)
  BY DEF IsDue
<1>4. ASSUME NEW z \in Zs, NEW e
      PROVE  (\E r \in Given(z) : Considered(r) /\ Mentions(r, ip) # {} /\ e = Entry(z, r)) <=>
               (\E r \in Configured(z) : Considered(r) /\ Mentions(r, ip) # {} /\ e = Entry(z, r))
  <2>1. CASE z \in Forward
    BY <2>1 DEF Given, Configured
  <2>2. CASE z \notin Forward
    <3>1. AliasOf[z] \in Forward
      BY <2>2, AliasAssumption DEF Zs
    <3>2. \A r \in source[AliasOf[z]] : IsRecord(r)
      <4>1. \A r \in Given(AliasOf[z]) : IsRecord(r)
        BY <3>1, GivenRecords DEF RunInv, Zs
      <4> QED  BY <3>1, <4>1 DEF Given
    <3>3. /\ Configured(z) = source[AliasOf[z]]
          /\ Given(z) = {CopyOf(Seen(r)) : r \in source[AliasOf[z]]}
      BY <2>2 DEF Configured, Given
    <3>4. ASSUME NEW r \in source[AliasOf[z]]
          PROVE  LET c == CopyOf(Seen(r))
                 IN  (Considered(c) /\ Mentions(c, ip) # {} /\ e = Entry(z, c)) <=>
                       (Considered(r) /\ Mentions(r, ip) # {} /\ e = Entry(z, r))
      BY <3>2, CopyAgrees
    <3> QED  BY <3>3, <3>4
  <2> QED  BY <2>1, <2>2
<1>5. \A e : e \in Holders(ip) <=> e \in Elements(collected[ip])
  BY <1>1, <1>2, <1>3, <1>4
<1> QED  BY <1>5

(* The record that is made of the entries is the reference's. *)
LEMMA PtrIsReference ==
  ASSUME RunInv, aliased, \A z \in Zs : todo[z] = {},
         NEW ip \in Addresses, collected[ip] # << >>
  PROVE  Ptr(ip) = ReferencePtr(ip)
<1> DEFINE s == collected[ip]
           F == FirstEntries(ip)
           k == OrderAndUnique(s)
<1>1. s \in Seq(Entries) /\ s # << >> /\ opts.max_auto_arpa \in Nat \ {0}
  BY MaxAssumption DEF RunInv, TypesInv
<1>2. F = Firsts(Elements(s))
  BY HoldersCollected DEF FirstEntries, Preferred, Firsts
<1> HIDE DEF s, F
<1>3. NamesIn(k) = HighNames(F) /\ k[1] = FirstOf(F)
  BY <1>1, <1>2, KeptIsReference
<1>4. Ptr(ip) = [ip |-> ip, ttl |-> k[1].ttl, values |-> NamesIn(k)]
  BY DEF Ptr, NamesIn, s
<1>5. ReferencePtr(ip) = [ip |-> ip, ttl |-> FirstOf(F).ttl, values |-> HighNames(F)]
  BY DEF ReferencePtr, Prior, F, FirstOf, HighNames
<1> QED  BY <1>3, <1>4, <1>5

(* PtrsAreReference: an arpa zone gets a PTR record for exactly the         *)
(* addresses that some zone has and that are its own, with the names that   *)
(* the reference gives it, whatever order the tasks have run in.            *)
THEOREM PtrsAreTheReference == Spec => []PtrsAreReference
<1>1. RunInv => PtrsAreReference
  <2> SUFFICES ASSUME RunInv, NEW a \in Arpa, arpa[a].status = "populated"
               PROVE  arpa[a].ptrs =
                        {ReferencePtr(ip) : ip \in {ip \in Under(a) \ Barred(a) : Holders(ip) # {}}}
    BY DEF PtrsAreReference
  <2>1. /\ aliased /\ \A z \in Zs : todo[z] = {}
        /\ arpa[a].ptrs = {Ptr(ip) : ip \in Matching(a) \ Barred(a)}
    BY DEF RunInv, PopulatedInv
  <2>2. Under(a) \subseteq Addresses
    BY DEF Addresses
  <2>3. ASSUME NEW ip \in Under(a) PROVE Holders(ip) # {} <=> collected[ip] # << >>
    <3>1. collected[ip] \in Seq(Entries) /\ Holders(ip) = Elements(collected[ip])
      BY <2>1, <2>2, HoldersCollected DEF RunInv, TypesInv
    <3> DEFINE s == collected[ip]
    <3>2. s \in Seq(Entries)
      BY <3>1
    <3> HIDE DEF s
    <3>3. CASE s = << >>
      BY <3>1, <3>3 DEF Elements, s
    <3>4. CASE s # << >>
      <4>1. 1 \in 1 .. Len(s)
        BY <3>2, <3>4
      <4>2. s[1] \in Elements(s)
        BY <4>1 DEF Elements
      <4> QED  BY <3>1, <3>4, <4>2 DEF s
    <3> QED  BY <3>3, <3>4 DEF s
  <2>4. {ip \in Under(a) \ Barred(a) : Holders(ip) # {}} = Matching(a) \ Barred(a)
    BY <2>3 DEF Matching
  <2>5. \A ip \in Matching(a) : Ptr(ip) = ReferencePtr(ip)
    BY <2>1, <2>2, PtrIsReference DEF Matching
  <2> HIDE DEF Matching
  <2> QED  BY <2>1, <2>4, <2>5
<1> QED  BY <1>1, RunHolds, PTL
=============================================================================
