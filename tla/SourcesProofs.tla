--------------------------- MODULE SourcesProofs ---------------------------
(***************************************************************************)
(* The sources of files.                                                   *)
(*                                                                         *)
(* YamlFiles: that a directory which one provider alone writes in can be   *)
(* read but for one file at most, which a write was cut off in, and shows  *)
(* what the last good run wrote, for any names, values, options and        *)
(* failures.  The argument: each name has one home among the paths of a    *)
(* configuration, a record is never in a file but its name's home, and no  *)
(* run writes beside a file that cannot be loaded.                         *)
(*                                                                         *)
(* TinyDns: that the zones of a run agree with each other, and the same    *)
(* zone with itself in whatever order its files are read.  The argument:   *)
(* all of them are made of one list of lines, in which the places of the   *)
(* lines decide neither what is yielded, CNAME records aside, nor what is  *)
(* put together; the rest is what each kind of line yields for which zone. *)
(***************************************************************************)
EXTENDS YamlFiles, TinyDns, FiniteSetTheorems, SequenceTheorems, WellFoundedInduction, TLAPS

-----------------------------------------------------------------------------
(* YamlFiles *)

Home(name) ==
  IF ~opts.split THEN PathOf("zone", CatchAll)
  ELSE IF opts.catchall /\ name \in CatchAllNames THEN PathOf("split", CatchAll)
  ELSE PathOf("split", name)

HomeKind == IF opts.split THEN "split" ELSE "zone"

(* The file f is there as _apply is to leave it. *)
Done(f) == f.path \in there /\ files[f.path] = f.holds

(* what holds of a directory that the provider alone writes in *)
Shape ==
  /\ ~opts.shared
  /\ files \in [Path -> SUBSET Record]
  /\ there \subseteq Path
  /\ \A p \in there : p.form = "utf8" /\ p.kind = HomeKind
  /\ split \subseteq {"utf8"}
  /\ opts.split /\ there # {} => split # {}
AtHome == \A p \in there : \A r \in files[p] : p = Home(r.name)
Progress ==
  /\ todo \subseteq ToWrite
  /\ opened \subseteq todo
  /\ \A f \in opened : f.path \in there /\ opened = {f}
  /\ Idle => todo = {} /\ opened = {}
  /\ ~Idle => /\ opts.split => split # {}
              /\ \A f \in ToWrite \ todo : Done(f)
Settled ==
  /\ result = "clean" => Shown = desired
  /\ result = "written" => \A f \in ToWrite : Done(f)
(* one file at most that cannot be loaded: the one that is written, and     *)
(* none once a run ended well                                               *)
OneBroken ==
  /\ broken \subseteq there
  /\ \A p, q \in broken : p = q
  /\ ~Idle => broken \subseteq {f.path : f \in opened}
  /\ result \in {"clean", "written"} => broken = {}

Owned == Shape /\ AtHome /\ Progress /\ Settled /\ OneBroken

Inv ==
  /\ opts \in Options
  /\ desired \in Zones
  /\ own => Owned

-----------------------------------------------------------------------------
(* What _apply writes: files at the homes of the names, one for each path,  *)
(* which together hold the records.                                         *)
LEMMA Writes ==
  ASSUME opts \in Options, desired \in Zones
  PROVE  /\ \A f \in ToWrite : /\ f.path \in Path
                               /\ f.path.form = "utf8" /\ f.path.kind = HomeKind
                               /\ f.holds \subseteq desired
                               /\ \A r \in f.holds : f.path = Home(r.name)
         /\ \A f, g \in ToWrite : f.path = g.path => f = g
         /\ \A r \in desired : \E f \in ToWrite : r \in f.holds
<1>1. desired \subseteq Record
  BY DEF Zones
<1>2. \A r \in desired : r.name \in Name
  BY <1>1 DEF Record
<1>3. PathOf("zone", CatchAll) \in Path /\ PathOf("split", CatchAll) \in Path
  BY FormsAssumption DEF Path, PathOf
<1>4. \A n \in Name : PathOf("split", n) \in Path
  BY FormsAssumption DEF Path, PathOf
<1>5. CASE ~opts.split
  <2>1. ToWrite = {[path |-> PathOf("zone", CatchAll), holds |-> desired]}
    BY <1>5 DEF ToWrite
  <2> QED  BY <1>5, <1>3, <2>1 DEF Home, HomeKind, PathOf
<1>6. CASE opts.split
  <2> DEFINE single(n) == [path |-> PathOf("split", n), holds |-> AtName(desired, n)]
             rest == desired \ Caught(desired)
             all == [path |-> PathOf("split", CatchAll), holds |-> Caught(desired)]
  <2>1. ToWrite = {single(n) : n \in {r.name : r \in rest}} \cup
                  (IF Caught(desired) = {} THEN {} ELSE {all})
    BY <1>6 DEF ToWrite, SplitFiles
  <2>2. /\ Caught(desired) \subseteq desired
        /\ \A r \in Caught(desired) : opts.catchall /\ r.name \in CatchAllNames
        /\ \A r \in rest : ~(opts.catchall /\ r.name \in CatchAllNames)
    BY DEF Caught
  <2>3. \A n : /\ AtName(desired, n) \subseteq desired
               /\ \A r \in AtName(desired, n) : r.name = n
    BY DEF AtName
  <2>4. \A n \in {r.name : r \in rest} :
          n \in Name /\ n # CatchAll /\ ~(opts.catchall /\ n \in CatchAllNames)
    BY <1>2, <2>2, NamesAssumption
  <2>5. \A n \in Name : PathOf("split", n) # PathOf("split", CatchAll)
    BY NamesAssumption DEF PathOf
  <2>6. \A m, n \in Name : PathOf("split", m) = PathOf("split", n) => m = n
    BY DEF PathOf
  <2>7. \A f \in ToWrite :
          \/ \E n \in {r.name : r \in rest} : f = single(n)
          \/ f = all
    BY <2>1
  <2>8. \A f \in ToWrite : /\ f.path \in Path
                           /\ f.path.form = "utf8" /\ f.path.kind = HomeKind
    BY <1>3, <1>4, <1>6, <2>4, <2>7 DEF HomeKind, PathOf
  <2>9. \A f \in ToWrite : /\ f.holds \subseteq desired
                           /\ \A r \in f.holds : f.path = Home(r.name)
    <3> TAKE f \in ToWrite
    <3>1. CASE f = all
      BY <1>6, <2>2, <3>1 DEF Home
    <3>2. ASSUME NEW n \in {r.name : r \in rest}, f = single(n)
          PROVE  /\ f.holds \subseteq desired
                 /\ \A r \in f.holds : f.path = Home(r.name)
      <4>1. f.holds = AtName(desired, n) /\ f.path = PathOf("split", n)
        BY <3>2
      <4>2. Home(n) = PathOf("split", n)
        BY <1>6, <2>4, <3>2 DEF Home
      <4> QED  BY <4>1, <4>2, <2>3
    <3> QED  BY <2>7, <3>1, <3>2
  <2>10. \A f, g \in ToWrite : f.path = g.path => f = g
    <3> TAKE f, g \in ToWrite
    <3>1. CASE f = all /\ g = all
      BY <3>1
    <3>2. ASSUME NEW n \in {r.name : r \in rest}, f = single(n) \/ g = single(n),
                 f = all \/ g = all
          PROVE  f.path # g.path
      <4> HIDE DEF rest
      <4>1. PathOf("split", n) # PathOf("split", CatchAll)
        BY <2>4, <2>5, <3>2
      <4>2. single(n).path = PathOf("split", n) /\ all.path = PathOf("split", CatchAll)
        OBVIOUS
      <4>3. single(n) # all
        BY <4>1, <4>2
      <4> HIDE DEF single, all
      <4> QED  BY <3>2, <4>1, <4>2, <4>3
    <3>3. ASSUME NEW m \in {r.name : r \in rest}, NEW n \in {r.name : r \in rest},
                 f = single(m), g = single(n), f.path = g.path
          PROVE  f = g
      <4>1. m = n
        BY <2>4, <2>6, <3>3
      <4> QED  BY <3>3, <4>1
    <3> HIDE DEF single, all, rest
    <3> QED  BY <2>7, <3>1, <3>2, <3>3
  <2>11. \A r \in desired : \E f \in ToWrite : r \in f.holds
    <3> TAKE r \in desired
    <3>1. CASE r \in Caught(desired)
      <4>1. all \in ToWrite
        BY <2>1, <3>1
      <4> QED  BY <3>1, <4>1
    <3>2. CASE r \notin Caught(desired)
      <4>1. r.name \in {s.name : s \in rest}
        BY <3>2
      <4>2. single(r.name) \in ToWrite
        BY <2>1, <4>1
      <4> QED  BY <4>2 DEF AtName
    <3> QED  BY <3>1, <3>2
  <2> QED  BY <2>8, <2>9, <2>10, <2>11
<1> QED  BY <1>5, <1>6

-----------------------------------------------------------------------------
(* What a directory shows that the provider alone writes in. *)

LEMMA SourcesAre ==
  ASSUME opts \in Options, Shape
  PROVE  Sources = there
<1>1. opts.split \/ opts.zonefile
  BY OptionsAssumption
<1> QED  BY <1>1 DEF Sources, Shape, HomeKind

(* No file hides another's records, so all is shown that the files hold. *)
LEMMA ShownIs ==
  ASSUME opts \in Options, Shape, AtHome
  PROVE  Shown = UNION {files[p] : p \in there}
<1>1. Sources = there
  BY SourcesAre
<1>2. ASSUME NEW p \in there
      PROVE  ~ReadAfter(p, p)
  <2>1. p.kind \in Kinds
    BY <1>2 DEF Shape, Path, Shared, Kinds
  <2>2. Rank(p.kind) \in 1 .. 3
    <3>1. /\ opts.order \in [1 .. 3 -> Kinds]
          /\ \E i \in 1 .. 3 : opts.order[i] = p.kind
      BY <2>1, OptionsAssumption
    <3>2. \E i \in DOMAIN opts.order : opts.order[i] = p.kind
      BY <3>1
    <3> QED  BY <3>1, <3>2 DEF Rank
  <2>3. ~(Rank(p.kind) > Rank(p.kind))
    BY <2>2
  <2> QED  BY <2>3 DEF ReadAfter
<1>3. ASSUME NEW p \in there, NEW r \in files[p]
      PROVE  ~\E q \in there : ReadAfter(q, p) /\ Named(q, r.name) # {}
  <2> SUFFICES ASSUME NEW q \in there, ReadAfter(q, p), Named(q, r.name) # {}
               PROVE  FALSE
    OBVIOUS
  <2>1. q = Home(r.name) /\ p = Home(r.name)
    BY <1>3 DEF AtHome, Named
  <2> QED  BY <1>2, <2>1
<1> QED  BY <1>1, <1>3 DEF Shown

LEMMA AtMostOne ==
  ASSUME NEW S, NEW x, S \subseteq {x}
  PROVE  ~(Cardinality(S) > 1)
<1>1. Cardinality({}) = 0 /\ Cardinality({x}) = 1
  BY FS_EmptySet, FS_Singleton
<1>2. S = {} \/ S = {x}
  OBVIOUS
<1>3. CASE S = {}
  BY <1>1, <1>3
<1>4. CASE S = {x}
  BY <1>1, <1>4
<1> QED  BY <1>2, <1>3, <1>4

LEMMA Readable ==
  ASSUME opts \in Options, Shape, AtHome
  PROVE  /\ ~Ambiguous /\ ~Clashes
         /\ Raises(TRUE) <=> there \cap broken # {}
<1>1. Sources = there
  BY SourcesAre
<1>2. ~(Cardinality(split) > 1)
  BY AtMostOne DEF Shape
<1>3. ~(Cardinality(ZoneFiles) > 1)
  <2>1. ZoneFiles \subseteq {PathOf("zone", CatchAll)}
    BY DEF ZoneFiles, Shape, Path, PathOf, Shared
  <2> QED  BY <2>1, AtMostOne
<1>4. ~Ambiguous
  BY <1>2, <1>3 DEF Ambiguous
<1>5. ~Clashes
  <2> SUFFICES ASSUME NEW p \in there, NEW q \in there, NEW n \in Name,
                      p # q, Named(p, n) # {}, Named(q, n) # {}
               PROVE  FALSE
    BY <1>1 DEF Clashes
  <2>1. p = Home(n) /\ q = Home(n)
    BY DEF AtHome, Named
  <2> QED  BY <2>1
<1> QED  BY <1>1, <1>4, <1>5 DEF Raises, Shape

(* What a finished run shows: the records desired, and of other names what  *)
(* their own files in a split directory still hold.                         *)
LEMMA DoneShows ==
  ASSUME opts \in Options, desired \in Zones, Shape, AtHome,
         \A f \in ToWrite : Done(f)
  PROVE  /\ desired \subseteq Shown
         /\ \A r \in Shown \ desired : opts.split /\ AtName(desired, r.name) = {}
<1>1. Shown = UNION {files[p] : p \in there}
  BY ShownIs
<1>2. ASSUME NEW r \in desired
      PROVE  \E f \in ToWrite : r \in files[f.path] /\ f.path \in there
  BY Writes, <1>2 DEF Done
<1>3. ASSUME NEW r \in Shown \ desired
      PROVE  opts.split /\ AtName(desired, r.name) = {}
  <2>1. PICK p \in there : r \in files[p]
    BY <1>1, <1>3
  <2>2. p = Home(r.name)
    BY <2>1 DEF AtHome
  <2>3. \A f \in ToWrite : f.path # p
    BY <1>3, <2>1, Writes DEF Done
  <2>4. opts.split
    BY <2>2, <2>3 DEF ToWrite, Home
  <2>5. \A s \in desired : s.name # r.name
    BY Writes, <2>2, <2>3
  <2> QED  BY <2>4, <2>5 DEF AtName
<1> QED  BY <1>1, <1>2, <1>3

-----------------------------------------------------------------------------
LEMMA InitInv == Init => Inv
<1> SUFFICES ASSUME Init PROVE Inv
  OBVIOUS
<1> SUFFICES ASSUME own PROVE Owned
  BY DEF Init, Inv
<1>1. files = NoRecords /\ there = {} /\ split = {} /\ ~opts.shared
  BY DEF Init
<1>2. Shape /\ AtHome
  BY <1>1 DEF Shape, AtHome, NoRecords
<1>3. Progress /\ Settled /\ OneBroken
  BY DEF Init, Progress, Settled, OneBroken, Idle
<1> QED  BY <1>2, <1>3 DEF Owned

LEMMA StartRunInv ==
  ASSUME Inv, StartRun
  PROVE  Inv'
<1> SUFFICES ASSUME own' PROVE Owned'
  BY DEF Inv, StartRun
<1> USE DEF StartRun
<1>1. /\ own /\ Owned /\ opts \in Options /\ desired \in Zones
      /\ UNCHANGED <<opts, files, there, broken, own, desired, opened>>
  BY DEF Inv
<1>2. Raises(TRUE) \/ broken = {}
  BY <1>1, Readable DEF Owned, OneBroken
<1>3. Shape' /\ AtHome'
  <2>1. split' = split \/ (opts.split /\ split' = split \cup {"utf8"})
    OBVIOUS
  <2>2. Shape'
    BY <1>1, <2>1 DEF Owned, Shape, HomeKind
  <2>3. AtHome'
    BY <1>1 DEF Owned, AtHome, Home
  <2> QED  BY <2>2, <2>3
<1>4. todo = {} /\ opened = {}
  BY <1>1 DEF Owned, Progress
<1>5. CASE ~Raises(TRUE) /\ Shown = desired
  <2>1. result' = "clean" /\ UNCHANGED <<todo, split>>
    BY <1>5
  <2>2. Shown' = desired'
    <3>1. Shown' = Shown
      BY <1>1 DEF Shown, Sources, ReadAfter, Rank, Named
    <3> QED  BY <1>1, <1>5, <3>1
  <2>3. Progress' /\ OneBroken'
    BY <1>1, <1>2, <1>4, <1>5, <2>1 DEF Progress, OneBroken, Idle
  <2> QED  BY <1>3, <2>1, <2>2, <2>3 DEF Owned, Settled
<1>6. CASE ~Raises(TRUE) /\ Shown # desired
  <2>1. /\ result' = "running" /\ todo' = ToWrite
        /\ opts.split => split' = split \cup {"utf8"}
    BY <1>6
  <2>2. ToWrite' = ToWrite
    BY <1>1 DEF ToWrite, SplitFiles, Caught, AtName
  <2>3. Progress' /\ OneBroken'
    BY <1>1, <1>2, <1>4, <1>6, <2>1, <2>2 DEF Progress, OneBroken, Idle
  <2> QED  BY <1>3, <2>1, <2>3 DEF Owned, Settled
<1>7. CASE Raises(TRUE)
  <2>1. result' = "unreadable" /\ UNCHANGED <<todo, split>>
    BY <1>7
  <2>2. Progress' /\ OneBroken'
    BY <1>1, <1>4, <2>1 DEF Owned, Progress, OneBroken, Idle
  <2> QED  BY <1>3, <2>1, <2>2 DEF Owned, Settled
<1> QED  BY <1>5, <1>6, <1>7

LEMMA OpenInv ==
  ASSUME Inv, Open
  PROVE  Inv'
<1> SUFFICES ASSUME own' PROVE Owned'
  BY DEF Inv, Open
<1>1. PICK f \in todo :
        /\ opened' = {f}
        /\ files' = [files EXCEPT ![f.path] = {}]
        /\ there' = there \cup {f.path}
        /\ broken' = broken \ {f.path}
  BY DEF Open, IsNext
<1>2. /\ own /\ Owned /\ opts \in Options /\ desired \in Zones /\ ~Idle /\ opened = {}
      /\ UNCHANGED <<opts, split, own, desired, todo, result, runs>>
  BY DEF Inv, Open
<1>3. f \in ToWrite
  BY <1>2 DEF Owned, Progress
<1>4. /\ f.path \in Path /\ f.path.form = "utf8" /\ f.path.kind = HomeKind
      /\ \A g \in ToWrite : g.path = f.path => g = f
  BY <1>2, <1>3, Writes
<1>5. files \in [Path -> SUBSET Record] /\ there \subseteq Path
  BY <1>2 DEF Owned, Shape
<1>6. Shape'
  BY <1>1, <1>2, <1>4 DEF Owned, Shape, HomeKind, Progress
<1>7. AtHome'
  BY <1>1, <1>2, <1>4, <1>5 DEF Owned, AtHome, Home
<1>8. ToWrite' = ToWrite
  BY <1>2 DEF ToWrite, SplitFiles, Caught, AtName
<1>9. \A g \in ToWrite \ todo : Done(g)'
  BY <1>1, <1>2, <1>4, <1>5 DEF Owned, Progress, Done
<1>10. Progress'
  BY <1>1, <1>2, <1>8, <1>9 DEF Owned, Progress, Idle
<1>11. Settled' /\ OneBroken'
  BY <1>1, <1>2 DEF Owned, Settled, OneBroken, Idle
<1> QED  BY <1>6, <1>7, <1>10, <1>11 DEF Owned

(* What a text that was cut off is read as has names of the text's records. *)
LEMMA CutOffIs ==
  ASSUME NEW records, records \subseteq Record, NEW part \in CutOff(records), NEW r \in part
  PROVE  r \in Record /\ \E s \in records : r.name = s.name
<1>1. PICK s \in records, v \in Value : r \in (records \ {s}) \cup {[s EXCEPT !.value = v]}
  BY DEF CutOff
<1>2. CASE r \in records
  BY <1>2
<1>3. CASE r = [s EXCEPT !.value = v]
  BY <1>3 DEF Record
<1> QED  BY <1>1, <1>2, <1>3

LEMMA FlushInv ==
  ASSUME Inv, Flush
  PROVE  Inv'
<1> SUFFICES ASSUME own' PROVE Owned'
  BY DEF Inv, Flush
<1>0. PICK f \in opened : \E part \in CutOff(f.holds) :
        /\ files' = [files EXCEPT ![f.path] = part]
        /\ broken' \subseteq broken \cup {f.path}
  <2>1. \A records : {} \in CutOff(records)
    BY DEF CutOff
  <2> QED  BY <2>1 DEF Flush
<1>1. PICK part \in CutOff(f.holds) :
        /\ files' = [files EXCEPT ![f.path] = part]
        /\ broken' \subseteq broken \cup {f.path}
  BY <1>0
<1>2. /\ own /\ Owned /\ opts \in Options /\ desired \in Zones /\ ~Idle
      /\ UNCHANGED <<opts, there, split, own, desired, todo, opened, result, runs>>
  BY DEF Inv, Flush
<1>3. f \in ToWrite /\ f.path \in there /\ f \in todo
  BY <1>2 DEF Owned, Progress
<1>4. /\ f.path \in Path
      /\ f.holds \subseteq Record
      /\ \A r \in f.holds : f.path = Home(r.name)
      /\ \A g \in ToWrite : g.path = f.path => g = f
  BY <1>2, <1>3, Writes DEF Zones
<1>5. \A r \in part : r \in Record /\ f.path = Home(r.name)
  BY <1>4, CutOffIs
<1>6. files \in [Path -> SUBSET Record] /\ there \subseteq Path
  BY <1>2 DEF Owned, Shape
<1>7. Shape'
  BY <1>1, <1>2, <1>4, <1>5, <1>6 DEF Owned, Shape, HomeKind
<1>8. AtHome'
  BY <1>1, <1>2, <1>4, <1>5, <1>6 DEF Owned, AtHome, Home
<1>9. ToWrite' = ToWrite
  BY <1>2 DEF ToWrite, SplitFiles, Caught, AtName
<1>10. \A g \in ToWrite \ todo : Done(g)'
  BY <1>1, <1>2, <1>3, <1>4, <1>6 DEF Owned, Progress, Done
<1>11. Progress'
  BY <1>2, <1>9, <1>10 DEF Owned, Progress, Idle
<1>12. Settled' /\ OneBroken'
  <2>1. opened = {f}
    BY <1>2 DEF Owned, Progress
  <2> QED  BY <1>1, <1>2, <1>3, <2>1 DEF Owned, Settled, OneBroken, Idle
<1> QED  BY <1>7, <1>8, <1>11, <1>12 DEF Owned

LEMMA WriteInv ==
  ASSUME Inv, Write
  PROVE  Inv'
<1> SUFFICES ASSUME own' PROVE Owned'
  BY DEF Inv, Write
<1>1. PICK f \in opened :
        /\ files' = [files EXCEPT ![f.path] = f.holds]
        /\ todo' = todo \ {f}
        /\ broken' = broken \ {f.path}
  BY DEF Write
<1>2. /\ own /\ Owned /\ opts \in Options /\ desired \in Zones /\ ~Idle
      /\ UNCHANGED <<opts, there, split, own, desired, result, runs>>
      /\ opened' = {}
  BY DEF Inv, Write
<1>3. f \in ToWrite /\ f.path \in there
  BY <1>2 DEF Owned, Progress
<1>4. /\ f.path \in Path
      /\ f.holds \subseteq desired
      /\ \A r \in f.holds : f.path = Home(r.name)
      /\ \A g \in ToWrite : g.path = f.path => g = f
  BY <1>2, <1>3, Writes
<1>5. files \in [Path -> SUBSET Record] /\ there \subseteq Path
  BY <1>2 DEF Owned, Shape
<1>6. Shape'
  BY <1>1, <1>2, <1>4, <1>5 DEF Owned, Shape, HomeKind, Zones
<1>7. AtHome'
  BY <1>1, <1>2, <1>4, <1>5 DEF Owned, AtHome, Home
<1>8. ToWrite' = ToWrite
  BY <1>2 DEF ToWrite, SplitFiles, Caught, AtName
<1>9. \A g \in ToWrite \ todo' : Done(g)'
  <2> TAKE g \in ToWrite \ todo'
  <2>1. CASE g = f
    BY <1>1, <1>2, <1>3, <1>4, <1>5, <2>1 DEF Done
  <2>2. CASE g # f
    <3>1. Done(g)
      BY <1>1, <1>2, <2>2 DEF Owned, Progress
    <3> QED  BY <1>1, <1>2, <1>4, <1>5, <2>2, <3>1 DEF Done
  <2> QED  BY <2>1, <2>2
<1>10. Progress'
  BY <1>1, <1>2, <1>8, <1>9 DEF Owned, Progress, Idle
<1>11. Settled' /\ OneBroken'
  <2>1. opened = {f}
    BY <1>2 DEF Owned, Progress
  <2> QED  BY <1>1, <1>2, <2>1 DEF Owned, Settled, OneBroken, Idle
<1> QED  BY <1>6, <1>7, <1>10, <1>11 DEF Owned

(* OpenFails, Finish and Crash leave the files alone. *)
LEMMA EndInv ==
  ASSUME Inv, OpenFails \/ Finish \/ Crash
  PROVE  Inv'
<1> SUFFICES ASSUME own' PROVE Owned'
  BY DEF Inv, OpenFails, Finish, Crash
<1>1. /\ own /\ Owned /\ opts \in Options /\ ~Idle
      /\ UNCHANGED <<opts, files, there, broken, split, own, desired, runs>>
  BY DEF Inv, OpenFails, Finish, Crash
<1>2. Shape' /\ AtHome'
  BY <1>1 DEF Owned, Shape, AtHome, Home, HomeKind
<1>3. ToWrite' = ToWrite
  BY <1>1 DEF ToWrite, SplitFiles, Caught, AtName
<1>4. todo' = {} /\ opened' = {} /\ Idle'
  BY <1>1 DEF Owned, Progress, OpenFails, Finish, Crash, Idle
<1>5. Progress'
  BY <1>4 DEF Progress
<1>6. Settled'
  <2>1. CASE Finish
    <3>1. result' = "written" /\ todo = {}
      BY <2>1 DEF Finish
    <3>2. \A f \in ToWrite : Done(f)'
      BY <1>1, <3>1 DEF Owned, Progress, Done
    <3> QED  BY <1>3, <3>1, <3>2 DEF Settled
  <2>2. CASE OpenFails \/ Crash
    BY <2>2 DEF Settled, OpenFails, Crash
  <2> QED  BY <2>1, <2>2
<1>7. OneBroken'
  <2>1. Finish => opened = {}
    BY <1>1 DEF Finish, Owned, Progress
  <2>2. result' = "failed" \/ Finish
    BY DEF OpenFails, Crash
  <2> QED  BY <1>1, <1>4, <2>1, <2>2 DEF Owned, OneBroken
<1> QED  BY <1>2, <1>5, <1>6, <1>7 DEF Owned

(* The records that are left are where they were. *)
LEMMA MendInv ==
  ASSUME Inv, Mend
  PROVE  Inv'
<1> SUFFICES ASSUME own' PROVE Owned'
  BY DEF Inv, Mend
<1>1. PICK p \in broken : /\ files' = [files EXCEPT ![p] = {}]
                          /\ there' = there \ {p}
                          /\ broken' = broken \ {p}
  BY DEF Mend
<1>2. /\ own /\ Owned /\ Idle /\ result' = "none"
      /\ UNCHANGED <<opts, split, own, desired, todo, opened, runs>>
  BY DEF Inv, Mend
<1>3. files \in [Path -> SUBSET Record]
  BY <1>2 DEF Owned, Shape
<1>4. Shape' /\ AtHome'
  BY <1>1, <1>2, <1>3 DEF Owned, Shape, AtHome, Home, HomeKind
<1>5. Progress' /\ Settled' /\ OneBroken'
  BY <1>1, <1>2 DEF Owned, Progress, Settled, OneBroken, Idle
<1> QED  BY <1>4, <1>5 DEF Owned

LEMMA EditSourcesInv ==
  ASSUME Inv, EditSources
  PROVE  Inv'
<1>1. /\ UNCHANGED <<opts, files, there, broken, split, own, todo, opened>>
      /\ Idle /\ result' = "none" /\ desired' \in Zones
  BY DEF EditSources
<1> SUFFICES ASSUME own' PROVE Owned'
  BY <1>1 DEF Inv
<1>2. Owned
  BY <1>1 DEF Inv
<1>3. Shape' /\ AtHome'
  BY <1>1, <1>2 DEF Owned, Shape, AtHome, Home, HomeKind
<1>4. Progress' /\ Settled' /\ OneBroken'
  BY <1>1, <1>2 DEF Owned, Progress, Settled, OneBroken, Idle
<1> QED  BY <1>3, <1>4 DEF Owned

LEMMA StutterInv ==
  ASSUME Inv, UNCHANGED vars
  PROVE  Inv'
<1>1. UNCHANGED <<opts, files, there, broken, split, own, desired, todo, opened, result>>
  BY DEF vars
<1>2. Shown' = Shown
  BY <1>1 DEF Shown, Sources, ReadAfter, Rank, Named
<1>3. ToWrite' = ToWrite
  BY <1>1 DEF ToWrite, SplitFiles, Caught, AtName
<1>4. Shape' = Shape
  BY <1>1 DEF Shape, HomeKind
<1>5. AtHome' = AtHome
  BY <1>1 DEF AtHome, Home
<1>6. (Progress' = Progress) /\ (Settled' = Settled) /\ (OneBroken' = OneBroken)
  BY <1>1, <1>2, <1>3 DEF Progress, Settled, OneBroken, Done, Idle
<1> QED  BY <1>1, <1>4, <1>5, <1>6 DEF Inv, Owned

-----------------------------------------------------------------------------
(* A directory that one provider alone writes in keeps to its shape, in the *)
(* middle of a write and after any failure.                                 *)
THEOREM DirectoryKept == Spec => []Inv
<1>1. ASSUME Inv, [Next]_vars PROVE Inv'
  BY <1>1, StartRunInv, OpenInv, FlushInv, WriteInv, EndInv, MendInv, EditSourcesInv,
     StutterInv
     DEF Next
<1> QED  BY <1>1, InitInv, PTL DEF Spec

(* Whatever was interrupted, also within a file: _split_sources and         *)
(* _zone_sources do not raise and no record is read twice, and loading      *)
(* raises for one file at most, whose removal makes the directory readable. *)
THEOREM OneFileStops == Spec => []OneFileToMend
<1>1. ASSUME Inv, own, Raises(TRUE)
      PROVE  \E p \in Sources : broken = {p} /\ ~Ambiguous /\ ~Clashes
  <2>1. Owned /\ opts \in Options
    BY <1>1 DEF Inv
  <2>2. /\ ~Ambiguous /\ ~Clashes /\ Sources = there
        /\ there \cap broken # {}
    BY <1>1, <2>1, Readable, SourcesAre DEF Owned
  <2>3. PICK p \in there : p \in broken
    BY <2>2
  <2>4. broken = {p}
    BY <2>1, <2>3 DEF Owned, OneBroken
  <2> QED  BY <2>2, <2>3, <2>4
<1>2. Inv => OneFileToMend
  BY <1>1 DEF OneFileToMend
<1> QED  BY <1>2, DirectoryKept, PTL

(* After a run that ends well, whatever runs failed before it, populate     *)
(* gives back the zone that _apply was given.                               *)
THEOREM DirectoryReadsBack == Spec => []ReadsBack
<1>1. ASSUME Inv PROVE ReadsBack
  <2> SUFFICES ASSUME own, result \in {"written", "clean"}
               PROVE  /\ desired \subseteq Shown
                      /\ desired # {} => IsListed /\ ~Raises(FALSE)
                      /\ \A r \in Shown \ desired :
                           opts.split /\ AtName(desired, r.name) = {}
    BY DEF ReadsBack
  <2>1. Owned /\ opts \in Options /\ desired \in Zones
    BY <1>1 DEF Inv
  <2>2. /\ desired \subseteq Shown
        /\ \A r \in Shown \ desired : opts.split /\ AtName(desired, r.name) = {}
    BY <2>1, DoneShows DEF Owned, Settled
  <2>3. Shown = UNION {files[p] : p \in there} /\ Sources = there
    BY <2>1, ShownIs, SourcesAre DEF Owned
  <2>4. ASSUME desired # {} PROVE IsListed /\ ~Raises(FALSE)
    <3>1. there # {}
      BY <2>2, <2>3, <2>4
    <3>2. ~Raises(FALSE)
      <4>1. ~Raises(TRUE)
        BY <2>1, Readable DEF Owned, OneBroken
      <4> QED  BY <2>3, <3>1, <4>1 DEF Raises
    <3>3. IsListed
      BY <2>1, <3>1, OptionsAssumption
         DEF Owned, Shape, HomeKind, IsListed, ZoneFiles
    <3> QED  BY <3>2, <3>3
  <2> QED  BY <2>2, <2>4
<1> QED  BY <1>1, DirectoryKept, PTL

-----------------------------------------------------------------------------
(* TinyDns: names *)

LEMMA NamesAre ==
  ASSUME NEW S, NEW s \in Seq(S)
  PROVE  /\ IsName(s) /\ Len(s) \in Nat /\ DOMAIN s = 1 .. Len(s)
         /\ \A i \in 1 .. Len(s) : s[i] \in S
<1>1. Len(s) \in Nat /\ DOMAIN s = 1 .. Len(s) /\ \A i \in 1 .. Len(s) : s[i] \in S
  BY LenProperties, ElementOfSeq
<1> DEFINE R == {s[i] : i \in DOMAIN s}
<1>2. s = [i \in 1 .. Len(s) |-> s[i]]
  BY IsASeq, LenProperties
<1>3. [i \in 1 .. Len(s) |-> s[i]] \in [1 .. Len(s) -> R]
  BY <1>1
<1>4. s \in Seq(R)
  BY <1>1, <1>2, <1>3, SeqDef
<1> QED  BY <1>1, <1>4 DEF IsName

LEMMA TwoNames ==
  ASSUME NEW s, IsName(s), NEW t, IsName(t)
  PROVE  \E S : s \in Seq(S) /\ t \in Seq(S)
<1> DEFINE A == {s[i] : i \in DOMAIN s}
           B == {t[i] : i \in DOMAIN t}
<1>1. s \in Seq(A) /\ t \in Seq(B)
  BY DEF IsName
<1> HIDE DEF A, B
<1>2. A \subseteq A \cup B /\ B \subseteq A \cup B
  OBVIOUS
<1>3. s \in Seq(A \cup B) /\ t \in Seq(A \cup B)
  BY <1>1, <1>2, SeqMonotonic, Zenon
<1> QED  BY <1>3

LEMMA NamesJoined ==
  ASSUME NEW s, IsName(s), NEW t, IsName(t)
  PROVE  /\ IsName(s \o t) /\ Len(s \o t) = Len(s) + Len(t)
         /\ \A i \in 1 .. Len(s) + Len(t) :
              (s \o t)[i] = IF i <= Len(s) THEN s[i] ELSE t[i - Len(s)]
<1>1. PICK S : s \in Seq(S) /\ t \in Seq(S)
  BY TwoNames
<1>2. s \o t \in Seq(S)
  BY <1>1, ConcatProperties
<1> QED  BY <1>1, <1>2, ConcatProperties, NamesAre

(* Names are equal if their labels are. *)
LEMMA SameLabels ==
  ASSUME NEW s, IsName(s), NEW t, IsName(t), Len(s) = Len(t),
         \A i \in 1 .. Len(s) : s[i] = t[i]
  PROVE  s = t
<1>1. PICK S : s \in Seq(S) /\ t \in Seq(S)
  BY TwoNames
<1> QED  BY <1>1, SeqEqual

LEMMA LengthOfName ==
  ASSUME NEW s, IsName(s)
  PROVE  Len(s) \in Nat
  BY NamesAre DEF IsName

LEMMA PartOfName ==
  ASSUME NEW s, IsName(s), NEW m \in 1 .. Len(s) + 1, NEW n \in 0 .. Len(s), m <= n + 1
  PROVE  /\ IsName(SubSeq(s, m, n)) /\ Len(SubSeq(s, m, n)) = n - m + 1
         /\ \A i \in 1 .. n - m + 1 : SubSeq(s, m, n)[i] = s[m + i - 1]
<1> DEFINE S == {s[i] : i \in DOMAIN s}
<1>1. s \in Seq(S)
  BY DEF IsName
<1> HIDE DEF S
<1>2. Len(s) \in Nat /\ \A i \in 1 .. Len(s) : s[i] \in S
  BY <1>1, NamesAre
<1>3. m \in Int /\ n \in Int /\ \A i \in m .. n : s[i] \in S
  BY <1>2
<1>4. /\ SubSeq(s, m, n) \in Seq(S)
      /\ Len(SubSeq(s, m, n)) = IF m <= n THEN n - m + 1 ELSE 0
      /\ \A i \in 1 .. n - m + 1 : SubSeq(s, m, n)[i] = s[m + i - 1]
  BY <1>3, SubSeqProperties
<1>5. IsName(SubSeq(s, m, n))
  BY <1>4, NamesAre
<1>6. (IF m <= n THEN n - m + 1 ELSE 0) = n - m + 1
  BY <1>2
<1> QED  BY <1>4, <1>5, <1>6

(* A name below another one is longer, and ends with its labels. *)
LEMMA UnderIs ==
  ASSUME NEW s, IsName(s), NEW t, IsName(t)
  PROVE  IsUnder(s, t) <=>
           /\ Len(s) > Len(t)
           /\ \A i \in 1 .. Len(t) : t[i] = s[Len(s) - Len(t) + i]
<1>0. Len(s) \in Nat /\ Len(t) \in Nat
  BY LengthOfName
<1>1. ASSUME IsUnder(s, t)
      PROVE  Len(s) > Len(t) /\ \A i \in 1 .. Len(t) : t[i] = s[Len(s) - Len(t) + i]
  <2>1. PICK m \in 2 .. Len(s) + 1 : SubSeq(s, m, Len(s)) = t
    BY <1>1 DEF IsUnder
  <2>2. /\ Len(t) = Len(s) - m + 1
        /\ \A i \in 1 .. Len(s) - m + 1 : t[i] = s[m + i - 1]
    <3>1. m \in 1 .. Len(s) + 1 /\ Len(s) \in 0 .. Len(s) /\ m <= Len(s) + 1
      BY <1>0
    <3>2. /\ Len(SubSeq(s, m, Len(s))) = Len(s) - m + 1
          /\ \A i \in 1 .. Len(s) - m + 1 : SubSeq(s, m, Len(s))[i] = s[m + i - 1]
      BY <3>1, PartOfName
    <3> QED  BY <2>1, <3>2
  <2> QED  BY <1>0, <2>1, <2>2
<1>2. ASSUME Len(s) > Len(t), \A i \in 1 .. Len(t) : t[i] = s[Len(s) - Len(t) + i]
      PROVE  IsUnder(s, t)
  <2> DEFINE m == Len(s) - Len(t) + 1
  <2>1. m \in 2 .. Len(s) + 1 /\ m <= Len(s) + 1 /\ Len(s) - m + 1 = Len(t)
    BY <1>0, <1>2
  <2>2. /\ IsName(SubSeq(s, m, Len(s))) /\ Len(SubSeq(s, m, Len(s))) = Len(t)
        /\ \A i \in 1 .. Len(t) : SubSeq(s, m, Len(s))[i] = s[m + i - 1]
    BY <1>0, <2>1, PartOfName
  <2>3. \A i \in 1 .. Len(t) : m + i - 1 = Len(s) - Len(t) + i
    BY <1>0
  <2>4. SubSeq(s, m, Len(s)) = t
    BY <1>2, <2>2, <2>3, SameLabels
  <2> QED  BY <2>1, <2>4 DEF IsUnder
<1> QED  BY <1>1, <1>2

LEMMA UnderUnder ==
  ASSUME NEW s, IsName(s), NEW t, IsName(t), NEW u, IsName(u),
         IsUnder(s, t), EndsWith(t, u)
  PROVE  IsUnder(s, u)
<1>1. Len(s) \in Nat /\ Len(t) \in Nat /\ Len(u) \in Nat
  BY LengthOfName
<1>2. CASE t = u
  BY <1>2
<1>3. CASE IsUnder(t, u)
  <2>1. /\ Len(s) > Len(t) /\ \A i \in 1 .. Len(t) : t[i] = s[Len(s) - Len(t) + i]
        /\ Len(t) > Len(u) /\ \A i \in 1 .. Len(u) : u[i] = t[Len(t) - Len(u) + i]
    BY <1>3, UnderIs
  <2>2. ASSUME NEW i \in 1 .. Len(u) PROVE u[i] = s[Len(s) - Len(u) + i]
    <3>1. Len(t) - Len(u) + i \in 1 .. Len(t)
      BY <1>1, <2>1
    <3>2. t[Len(t) - Len(u) + i] = s[Len(s) - Len(t) + (Len(t) - Len(u) + i)]
      BY <2>1, <3>1
    <3>3. Len(s) - Len(t) + (Len(t) - Len(u) + i) = Len(s) - Len(u) + i
      BY <1>1
    <3> QED  BY <2>1, <3>2, <3>3
  <2> QED  BY <1>1, <2>1, <2>2, UnderIs
<1> QED  BY <1>2, <1>3 DEF EndsWith

LEMMA NameTakenOff ==
  \A s, t, n : IsName(t) /\ IsName(s) /\ EndsWith(s, t) /\ n = Len(s) - Len(t) =>
    /\ IsName(SubSeq(s, 1, n)) /\ Len(SubSeq(s, 1, n)) = n
    /\ \A i \in 1 .. n : SubSeq(s, 1, n)[i] = s[i]
    /\ SubSeq(s, 1, n) \o t = s
<1> SUFFICES ASSUME NEW s, NEW t, NEW n,
                    IsName(t), IsName(s), EndsWith(s, t), n = Len(s) - Len(t)
             PROVE  /\ IsName(SubSeq(s, 1, n)) /\ Len(SubSeq(s, 1, n)) = n
                    /\ \A i \in 1 .. n : SubSeq(s, 1, n)[i] = s[i]
                    /\ SubSeq(s, 1, n) \o t = s
  OBVIOUS
<1>1. Len(s) \in Nat /\ Len(t) \in Nat
  BY LengthOfName
<1>2. Len(s) >= Len(t) /\ \A i \in 1 .. Len(t) : t[i] = s[Len(s) - Len(t) + i]
  <2>1. CASE s = t
    BY <1>1, <2>1
  <2>2. CASE IsUnder(s, t)
    BY <1>1, <2>2, UnderIs
  <2> QED  BY <2>1, <2>2 DEF EndsWith
<1>3. n \in Nat /\ n + Len(t) = Len(s) /\ \A i \in 1 .. Len(t) : t[i] = s[n + i]
  BY <1>1, <1>2
<1> DEFINE h == SubSeq(s, 1, n)
<1>4. IsName(h) /\ Len(h) = n /\ \A i \in 1 .. n : h[i] = s[i]
  <2>1. n \in 0 .. Len(s) /\ 1 \in 1 .. Len(s) + 1 /\ 1 <= n + 1 /\ n - 1 + 1 = n
    BY <1>1, <1>3
  <2>2. /\ IsName(SubSeq(s, 1, n)) /\ Len(SubSeq(s, 1, n)) = n - 1 + 1
        /\ \A i \in 1 .. n - 1 + 1 : SubSeq(s, 1, n)[i] = s[1 + i - 1]
    BY <2>1, PartOfName, Zenon
  <2>3. \A i \in 1 .. n : 1 + i - 1 = i
    BY <1>3
  <2> QED  BY <2>1, <2>2, <2>3
<1> HIDE DEF h
<1>5. /\ IsName(h \o t) /\ Len(h \o t) = n + Len(t)
      /\ \A i \in 1 .. n + Len(t) : (h \o t)[i] = IF i <= n THEN h[i] ELSE t[i - n]
  BY <1>4, NamesJoined
<1>6. ASSUME NEW i \in 1 .. n + Len(t) PROVE (h \o t)[i] = s[i]
  <2>1. CASE i <= n
    BY <1>3, <1>4, <1>5, <2>1
  <2>2. CASE ~(i <= n)
    <3>1. i - n \in 1 .. Len(t) /\ n + (i - n) = i
      BY <1>1, <1>3, <2>2
    <3>2. t[i - n] = s[n + (i - n)]
      BY <1>3, <3>1
    <3> QED  BY <1>5, <2>2, <3>1, <3>2
  <2> QED  BY <2>1, <2>2
<1>7. h \o t = s
  BY <1>3, <1>5, <1>6, SameLabels
<1> QED  BY <1>4, <1>7 DEF h

(* hostname_from_fqdn takes the name of the zone off. *)
LEMMA HostnameIs ==
  ASSUME NEW zone, IsName(zone.name), NEW labels, IsName(labels), EndsWith(labels, zone.name)
  PROVE  /\ IsName(Hostname(zone, labels))
         /\ Len(Hostname(zone, labels)) = Len(labels) - Len(zone.name)
         /\ \A i \in 1 .. Len(labels) - Len(zone.name) : Hostname(zone, labels)[i] = labels[i]
         /\ Hostname(zone, labels) \o zone.name = labels
  BY NameTakenOff, Zenon DEF Hostname

(* What is below the name of a sub-zone has a host name below its host name.*)
LEMMA HostnamesUnder ==
  ASSUME NEW zone, IsName(zone.name), NEW sub, IsName(sub), NEW labels, IsName(labels),
         IsUnder(sub, zone.name), IsUnder(labels, sub)
  PROVE  IsUnder(Hostname(zone, labels), Hostname(zone, sub))
<1>1. Len(labels) \in Nat /\ Len(zone.name) \in Nat /\ Len(sub) \in Nat
  BY LengthOfName
<1>2. /\ Len(sub) > Len(zone.name) /\ Len(labels) > Len(sub)
      /\ \A i \in 1 .. Len(sub) : sub[i] = labels[Len(labels) - Len(sub) + i]
  BY UnderIs
<1>3. IsUnder(labels, zone.name)
  BY UnderUnder DEF EndsWith
<1> DEFINE h == Hostname(zone, labels)
           g == Hostname(zone, sub)
<1>4. /\ IsName(h) /\ Len(h) = Len(labels) - Len(zone.name)
      /\ \A i \in 1 .. Len(labels) - Len(zone.name) : h[i] = labels[i]
  BY <1>3, HostnameIs DEF EndsWith
<1>5. /\ IsName(g) /\ Len(g) = Len(sub) - Len(zone.name)
      /\ \A i \in 1 .. Len(sub) - Len(zone.name) : g[i] = sub[i]
  BY HostnameIs DEF EndsWith
<1> HIDE DEF h, g
<1>6. Len(h) > Len(g) /\ Len(h) - Len(g) = Len(labels) - Len(sub)
  BY <1>1, <1>2, <1>4, <1>5
<1>7. ASSUME NEW i \in 1 .. Len(g) PROVE g[i] = h[Len(h) - Len(g) + i]
  <2>1. i \in 1 .. Len(sub) /\ Len(h) - Len(g) + i \in 1 .. Len(labels) - Len(zone.name)
    BY <1>1, <1>2, <1>4, <1>5
  <2>2. g[i] = sub[i]
    BY <1>1, <1>5
  <2>3. h[Len(h) - Len(g) + i] = labels[Len(labels) - Len(sub) + i]
    BY <1>4, <1>6, <2>1
  <2> QED  BY <1>2, <2>1, <2>2, <2>3
<1> QED  BY <1>4, <1>5, <1>6, <1>7, UnderIs DEF h, g

LEMMA JoinedTwice ==
  ASSUME NEW s, IsName(s), NEW t, IsName(t), NEW u, IsName(u),
         NEW v, v = t \o u, NEW w, w = s \o t
  PROVE  w \o u = s \o v
<1>1. PICK A : s \in Seq(A) /\ t \in Seq(A)
  BY TwoNames
<1>2. PICK B : t \in Seq(B) /\ u \in Seq(B)
  BY TwoNames
<1>3. A \subseteq A \cup B /\ B \subseteq A \cup B
  OBVIOUS
<1>4. s \in Seq(A \cup B) /\ t \in Seq(A \cup B) /\ u \in Seq(A \cup B)
  BY <1>1, <1>2, <1>3, SeqMonotonic, Zenon
<1>5. (s \o t) \o u = s \o (t \o u)
  BY <1>4, ConcatAssociative
<1> QED  BY <1>5

(* A host name is what the name of the zone was put behind. *)
LEMMA HostnameJoined ==
  ASSUME NEW zone, IsName(zone.name), NEW s, IsName(s)
  PROVE  /\ IsName(s \o zone.name) /\ EndsWith(s \o zone.name, zone.name)
         /\ Len(s) > 0 => IsUnder(s \o zone.name, zone.name)
         /\ Hostname(zone, s \o zone.name) = s
<1> DEFINE t == zone.name
           joined == s \o t
<1>1. Len(s) \in Nat /\ Len(t) \in Nat
  BY LengthOfName
<1>2. /\ IsName(joined) /\ Len(joined) = Len(s) + Len(t)
      /\ \A i \in 1 .. Len(s) + Len(t) :
           joined[i] = IF i <= Len(s) THEN s[i] ELSE t[i - Len(s)]
  BY NamesJoined
<1> HIDE DEF joined
<1>3. ASSUME NEW i \in 1 .. Len(t) PROVE t[i] = joined[Len(joined) - Len(t) + i]
  <2>1. /\ Len(s) + i \in 1 .. Len(s) + Len(t) /\ ~(Len(s) + i <= Len(s))
        /\ Len(s) + i - Len(s) = i
    BY <1>1
  <2>2. joined[Len(s) + i] = t[i]
    BY <1>2, <2>1
  <2>3. Len(joined) - Len(t) + i = Len(s) + i
    BY <1>1, <1>2
  <2> QED  BY <2>2, <2>3
<1>4. ASSUME Len(s) > 0 PROVE IsUnder(joined, t)
  <2>1. IsName(joined) /\ Len(joined) > Len(t)
    BY <1>1, <1>2, <1>4
  <2> HIDE DEF t
  <2>2. IsName(t)
    BY DEF t
  <2> QED  BY <1>3, <2>1, <2>2, UnderIs
<1>5. ASSUME Len(s) = 0 PROVE joined = t
  <2>1. Len(joined) = Len(t) /\ \A i \in 1 .. Len(t) : t[i] = joined[i]
    BY <1>1, <1>2, <1>3, <1>5
  <2> QED  BY <1>2, <2>1, SameLabels
<1>6. EndsWith(joined, t)
  BY <1>1, <1>4, <1>5 DEF EndsWith
<1>7. Hostname(zone, joined) = s
  <2>1. /\ IsName(Hostname(zone, joined))
        /\ Len(Hostname(zone, joined)) = Len(joined) - Len(t)
        /\ \A i \in 1 .. Len(joined) - Len(t) : Hostname(zone, joined)[i] = joined[i]
    BY <1>2, <1>6, HostnameIs
  <2>2. Len(joined) - Len(t) = Len(s) /\ \A i \in 1 .. Len(s) : joined[i] = s[i]
    BY <1>1, <1>2
  <2> QED  BY <2>1, <2>2, SameLabels
<1> QED  BY <1>2, <1>4, <1>6, <1>7 DEF joined

-----------------------------------------------------------------------------
(* What lines yield *)

LEMMA Symbols ==
  ASSUME NEW zone, NEW l
  PROVE  /\ l.symbol = "=" => Yields(zone, l) = ForEqual(zone, l)
         /\ l.symbol = "^" => Yields(zone, l) = ForCaret(zone, l)
         /\ l.symbol \in {".", "&"} => Yields(zone, l) = ForDot(zone, l)
         /\ l.symbol = "C" => Yields(zone, l) = ForC(zone, l)
         /\ l.symbol = "+" => Yields(zone, l) = ForPlus(zone, l)
         /\ l.symbol = "@" => Yields(zone, l) = ForAt(zone, l)
         /\ l.symbol = "'" => Yields(zone, l) = ForQuote(zone, l)
         /\ l.symbol = "3" => Yields(zone, l) = ForThree(zone, l)
         /\ l.symbol = "S" => Yields(zone, l) = ForS(zone, l)
         /\ l.symbol = ":" => Yields(zone, l) = ForColon(zone, l)
         /\ l.symbol = "6" => Yields(zone, l) = ForSix(zone, l)
         /\ l.symbol \notin {"=", "^", ".", "&", "C", "+", "@", "'", "3", "S", ":", "6"} =>
              Yields(zone, l) = {}
  BY DEF Yields

LEMMA OwnedEnds ==
  ASSUME NEW zone, NEW type, NEW labels, Owns(zone, type, labels)
  PROVE  EndsWith(labels, zone.name)
  BY DEF Owns, EndsWith

LEMMA OwnedByAny ==
  ASSUME NEW zone, NEW type, NEW labels, Owns(zone, type, labels), type # "NS", NEW other
  PROVE  Owns(zone, other, labels)
  BY DEF Owns

LEMMA QualifiedIsName ==
  ASSUME NEW zone \in TinyZones, NEW host, IsName(host.labels), NEW label
  PROVE  IsName(Qualified(zone, host, label))
<1>1. IsName(<<label>>)
  <2>1. <<label>> \in Seq({label})
    OBVIOUS
  <2> QED  BY <2>1, NamesAre
<1>2. IsName(host.labels \o <<label>>)
  BY <1>1, NamesJoined
<1>3. IsName(host.labels \o <<label>> \o zone.name)
  BY <1>2, TinyNamesAssumption, NamesJoined
<1> QED  BY <1>3 DEF Qualified

(* The line would not make populate raise. *)
Sound(zone, l) ==
  IsArpa(zone) /\ l.symbol \in {"^", "=", "6"} => IsPointer(l.name) \/ l.ip # None

LEMMA CaretYields ==
  ASSUME NEW zone \in TinyZones, NEW l \in Line,
         IsArpa(zone) => IsPointer(l.name) \/ l.ip # None,
         NEW y \in ForCaret(zone, l)
  PROVE  /\ IsArpa(zone) /\ y = Yield("PTR", Pointed(l), Pointee(l))
         /\ IsName(y.labels) /\ Owns(zone, y.type, y.labels)
<1>1. IsArpa(zone) /\ Owns(zone, "PTR", Pointed(l)) /\ y = Yield("PTR", Pointed(l), Pointee(l))
  BY DEF ForCaret
<1>2. IsName(Pointed(l))
  <2>1. CASE IsPointer(l.name)
    BY <2>1, LineAssumption DEF Pointed
  <2>2. CASE ~IsPointer(l.name)
    <3>1. l.ip \in DOMAIN ReversePointer
      BY <1>1, <2>2, LineAssumption
    <3> QED  BY <2>2, <3>1, TinyNamesAssumption DEF Pointed
  <2> QED  BY <2>1, <2>2
<1> QED  BY <1>1, <1>2 DEF Yield

LEMMA HostYields ==
  ASSUME NEW zone \in TinyZones, NEW l \in Line, NEW type, NEW label,
         NEW y \in WithHost(zone, l, type, label)
  PROVE  /\ ~IsArpa(zone) /\ Owns(zone, type, l.name.labels)
         /\ IsName(y.labels) /\ Owns(zone, y.type, y.labels)
         /\ \/ y = Yield(type, l.name.labels, l.rest \o Qualified(zone, l.host, label))
            \/ y = Yield("A", Qualified(zone, l.host, label), <<l.ip>>)
<1> DEFINE host == Qualified(zone, l.host, label)
<1>1. IsName(host) /\ IsName(l.name.labels)
  BY LineAssumption, QualifiedIsName
<1> HIDE DEF host
<1>2. /\ ~IsArpa(zone) /\ Owns(zone, type, l.name.labels)
      /\ \/ y = Yield(type, l.name.labels, l.rest \o host)
         \/ Owns(zone, "A", host) /\ y = Yield("A", host, <<l.ip>>)
  BY DEF WithHost, IfOwned, host
<1>3. IsName(y.labels) /\ Owns(zone, y.type, y.labels)
  BY <1>1, <1>2 DEF Yield
<1> QED  BY <1>2, <1>3 DEF host

LEMMA OwnYields ==
  ASSUME NEW zone \in TinyZones, NEW l \in Line, NEW type, NEW value,
         NEW y \in IfOwned(zone, type, l, {Yield(type, l.name.labels, value)})
  PROVE  /\ ~IsArpa(zone) /\ y = Yield(type, l.name.labels, value)
         /\ IsName(y.labels) /\ Owns(zone, y.type, y.labels)
  BY LineAssumption DEF IfOwned, Yield

(* Zones below arpa get PTR records and nothing else. *)
LEMMA YieldsAre ==
  ASSUME NEW zone \in TinyZones, NEW l \in Line, Sound(zone, l), NEW y \in Yields(zone, l)
  PROVE  /\ IsName(y.labels) /\ Owns(zone, y.type, y.labels)
         /\ IsArpa(zone) => l.symbol \in {"^", "=", "6"} /\ y \in ForCaret(zone, l)
<1>1. CASE l.symbol = "^"
  BY <1>1, Symbols, CaretYields DEF Sound
<1>2. CASE l.symbol = "=" /\ IsArpa(zone)
  BY <1>2, Symbols, CaretYields DEF Sound, ForEqual
<1>3. CASE l.symbol = "6" /\ IsArpa(zone)
  BY <1>3, Symbols, CaretYields DEF Sound, ForSix
<1>4. CASE l.symbol = "+" \/ (l.symbol = "=" /\ ~IsArpa(zone))
  <2>1. y \in IfOwned(zone, "A", l, {Yield("A", l.name.labels, <<l.ip>>)})
    BY <1>4, Symbols DEF ForPlus, ForEqual
  <2> QED  BY <2>1, OwnYields, Zenon
<1>5. CASE l.symbol = "3" \/ (l.symbol = "6" /\ ~IsArpa(zone))
  <2>1. y \in IfOwned(zone, "AAAA", l, {Yield("AAAA", l.name.labels, <<l.ip>>)})
    BY <1>5, Symbols DEF ForThree, ForSix
  <2> QED  BY <2>1, OwnYields, Zenon
<1>6. CASE l.symbol \in {".", "&"}
  <2>1. y \in WithHost(zone, l, "NS", "ns")
    BY <1>6, Symbols DEF ForDot
  <2> QED  BY <2>1, HostYields, Zenon
<1>7. CASE l.symbol = "@"
  <2>1. y \in WithHost(zone, l, "MX", "mx")
    BY <1>7, Symbols DEF ForAt
  <2> QED  BY <2>1, HostYields, Zenon
<1>8. CASE l.symbol = "S"
  <2>1. y \in WithHost(zone, l, "SRV", "srv")
    BY <1>8, Symbols DEF ForS
  <2> QED  BY <2>1, HostYields, Zenon
<1>9. CASE l.symbol = "C"
  <2>1. y \in IfOwned(zone, "CNAME", l, {Yield("CNAME", l.name.labels, l.host.labels)})
    BY <1>9, Symbols DEF ForC
  <2> QED  BY <2>1, OwnYields, Zenon
<1>10. CASE l.symbol = "'"
  <2>1. y \in IfOwned(zone, "TXT", l, {Yield("TXT", l.name.labels, l.rest)})
    BY <1>10, Symbols DEF ForQuote
  <2> QED  BY <2>1, OwnYields, Zenon
<1>11. CASE l.symbol = ":"
  <2>1. y \in IfOwned(zone, "SRV", l, {Yield(l.type, l.name.labels, l.rest)})
    BY <1>11, Symbols DEF ForColon
  <2>2. /\ ~IsArpa(zone) /\ Owns(zone, "SRV", l.name.labels)
        /\ y = Yield(l.type, l.name.labels, l.rest)
    BY <2>1 DEF IfOwned
  <2>3. Owns(zone, l.type, l.name.labels)
    BY <2>2, OwnedByAny
  <2>4. y.type = l.type /\ y.labels = l.name.labels
    BY <2>2 DEF Yield
  <2> QED  BY <2>2, <2>3, <2>4, LineAssumption
<1>12. CASE l.symbol \notin {"=", "^", ".", "&", "C", "+", "@", "'", "3", "S", ":", "6"}
  BY <1>12, Symbols
<1> QED  BY <1>1, <1>2, <1>3, <1>4, <1>5, <1>6, <1>7, <1>8, <1>9, <1>10, <1>11, <1>12
-----------------------------------------------------------------------------
(* What is made of a list of lines *)

(* Of a line that is no C line everything counts, of others at most that.   *)
LEMMA YieldedIs ==
  ASSUME NEW zone, NEW lines \in Seq(Line), NEW y
  PROVE  /\ y \in AllYielded(zone, lines) =>
              \E i \in DOMAIN lines : y \in Yields(zone, lines[i])
         /\ \A i \in DOMAIN lines :
              y \in Yields(zone, lines[i]) /\ (lines[i].symbol = "C" => y.type # "CNAME") =>
                y \in AllYielded(zone, lines)
<1>1. ASSUME y \in AllYielded(zone, lines)
      PROVE  \E i \in DOMAIN lines : y \in Yields(zone, lines[i])
  BY <1>1 DEF AllYielded, Yielded
<1>2. ASSUME NEW i \in DOMAIN lines, y \in Yields(zone, lines[i]),
             lines[i].symbol = "C" => y.type # "CNAME"
      PROVE  y \in AllYielded(zone, lines)
  <2>1. lines[i].symbol # "C"
    <3> SUFFICES ASSUME lines[i].symbol = "C" PROVE y.type = "CNAME"
      BY <1>2
    <3>1. y \in ForC(zone, lines[i])
      BY <1>2, Symbols
    <3> QED  BY <3>1 DEF ForC, IfOwned, Yield
  <2>2. y \in Yielded(zone, lines, i)
    BY <1>2, <2>1 DEF Yielded
  <2> QED  BY <2>2 DEF AllYielded
<1> QED  BY <1>1, <1>2

LEMMA LinesSound ==
  ASSUME NEW zone \in TinyZones, NEW lines \in Seq(Line), ~LinesRaise(zone, lines),
         NEW i \in DOMAIN lines
  PROVE  lines[i] \in Line /\ Sound(zone, lines[i])
<1>1. lines[i] \in Line
  BY NamesAre
<1>2. IsArpa(zone) /\ lines[i].symbol \in {"^", "=", "6"} => ~CaretRaises(lines, i)
  BY DEF LinesRaise
<1> QED  BY <1>1, <1>2 DEF Sound, CaretRaises

(* A record for each type and name that something is yielded for. *)
LEMMA MadeOf ==
  ASSUME NEW zone, NEW lines
  PROVE  /\ \A r \in Made(zone, lines) : \E y \in AllYielded(zone, lines) :
              /\ r.name = Hostname(zone, y.labels) /\ r.type = y.type
              /\ r.values = Collected(zone, lines, y.type, y.labels)
         /\ \A y \in AllYielded(zone, lines) : \E r \in Made(zone, lines) :
              /\ r.name = Hostname(zone, y.labels) /\ r.type = y.type
              /\ r.values = Collected(zone, lines, y.type, y.labels)
<1> DEFINE rec(y) == [name |-> Hostname(zone, y.labels), type |-> y.type,
                      ttl |-> CollectedTtl(zone, lines, y.type, y.labels),
                      values |-> Collected(zone, lines, y.type, y.labels)]
<1>1. Made(zone, lines) = {rec(y) : y \in AllYielded(zone, lines)}
  BY DEF Made
<1>2. \A y : /\ rec(y).name = Hostname(zone, y.labels) /\ rec(y).type = y.type
             /\ rec(y).values = Collected(zone, lines, y.type, y.labels)
  OBVIOUS
<1> HIDE DEF rec
<1> QED  BY <1>1, <1>2

LEMMA MadeIs ==
  ASSUME NEW zone \in TinyZones, NEW lines \in Seq(Line), ~LinesRaise(zone, lines),
         NEW y \in AllYielded(zone, lines)
  PROVE  /\ IsName(y.labels) /\ Owns(zone, y.type, y.labels)
         /\ EndsWith(y.labels, zone.name)
         /\ Hostname(zone, y.labels) \o zone.name = y.labels
<1>1. PICK i \in DOMAIN lines : y \in Yields(zone, lines[i])
  BY YieldedIs
<1>2. IsName(y.labels) /\ Owns(zone, y.type, y.labels)
  BY <1>1, LinesSound, YieldsAre
<1>3. EndsWith(y.labels, zone.name)
  BY <1>2, OwnedEnds
<1>4. IsName(zone.name)
  BY TinyNamesAssumption
<1> QED  BY <1>2, <1>3, <1>4, HostnameIs

(* The order of the lines does not matter, but for CNAME records. *)
LEMMA YieldedInAnyOrder ==
  ASSUME NEW zone, NEW s \in Seq(Line), NEW t \in Seq(Line),
         {s[i] : i \in DOMAIN s} \subseteq {t[i] : i \in DOMAIN t},
         NEW y \in AllYielded(zone, s), y.type # "CNAME"
  PROVE  y \in AllYielded(zone, t)
<1>1. PICK i \in DOMAIN s : y \in Yields(zone, s[i])
  BY YieldedIs
<1>2. PICK j \in DOMAIN t : t[j] = s[i]
  OBVIOUS
<1> QED  BY <1>1, <1>2, YieldedIs

LEMMA ContentsInAnyOrder ==
  ASSUME NEW zone \in TinyZones, NEW s \in Seq(Line), NEW t \in Seq(Line),
         {s[i] : i \in DOMAIN s} = {t[i] : i \in DOMAIN t}
  PROVE  Contents(Made(zone, s)) \subseteq Contents(Made(zone, t))
<1>1. \A y : y.type # "CNAME" => (y \in AllYielded(zone, s) <=> y \in AllYielded(zone, t))
  BY YieldedInAnyOrder
<1>2. ASSUME NEW type, type # "CNAME", NEW labels
      PROVE  Collected(zone, s, type, labels) = Collected(zone, t, type, labels)
  BY <1>1, <1>2 DEF Collected, IsFor
<1> SUFFICES ASSUME NEW r \in Made(zone, s), r.type # "CNAME"
             PROVE  \E q \in Made(zone, t) :
                      q.name = r.name /\ q.type = r.type /\ q.values = r.values
  BY DEF Contents
<1>3. PICK y \in AllYielded(zone, s) :
        /\ r.name = Hostname(zone, y.labels) /\ r.type = y.type
        /\ r.values = Collected(zone, s, y.type, y.labels)
  BY MadeOf
<1>4. y \in AllYielded(zone, t)
  BY <1>1, <1>3
<1>5. PICK q \in Made(zone, t) :
        /\ q.name = Hostname(zone, y.labels) /\ q.type = y.type
        /\ q.values = Collected(zone, t, y.type, y.labels)
  BY <1>4, MadeOf
<1>6. Collected(zone, s, y.type, y.labels) = Collected(zone, t, y.type, y.labels)
  BY <1>2, <1>3
<1> QED  BY <1>3, <1>5, <1>6

-----------------------------------------------------------------------------
(* The files, read one after the other *)

LEMMA Least ==
  ASSUME NEW T, T \subseteq Nat, T # {}
  PROVE  \E x \in T : \A y \in T : x <= y
<1> DEFINE R == OpToRel(<, Nat)
<1>1. R = {ss \in Nat \X Nat : ss[1] < ss[2]}
  BY DEF OpToRel
<1>2. IsWellFoundedOn(R, Nat)
  BY NatLessThanWellFounded
<1> HIDE DEF R
<1>3. PICK x \in T : \A y \in T : ~(<<y, x>> \in R)
  BY <1>2, WFMin
<1>4. ASSUME NEW y \in T PROVE x <= y
  <2>1. x \in Nat /\ y \in Nat
    OBVIOUS
  <2>2. ~(y < x)
    BY <1>1, <1>3, <2>1
  <2> QED  BY <2>1, <2>2
<1> QED  BY <1>3, <1>4

(* f holds what has been read after each of the first n files of order. *)
IsReading(f, n, order) ==
  f = [i \in 0 .. n |-> IF i = 0 THEN << >> ELSE f[i - 1] \o texts[order[i]]]

LEMMA ReadingExists ==
  ASSUME NEW order, NEW n \in Nat
  PROVE  \E f : IsReading(f, n, order)
<1> DEFINE T == {m \in Nat : ~\E f : IsReading(f, m, order)}
<1> SUFFICES ASSUME T # {} PROVE FALSE
  OBVIOUS
<1>1. PICK m \in T : \A y \in T : m <= y
  BY Least
<1>2. m # 0
  <2>1. IsReading([i \in 0 .. 0 |-> << >>], 0, order)
    BY DEF IsReading
  <2> QED  BY <2>1
<1>3. PICK f : IsReading(f, m - 1, order)
  BY <1>1, <1>2
<1> DEFINE g == [i \in 0 .. m |-> IF i < m THEN f[i] ELSE f[m - 1] \o texts[order[m]]]
<1>4. \A i \in 0 .. m - 1 : g[i] = f[i]
  BY <1>1
<1>5. ASSUME NEW i \in 0 .. m
      PROVE  g[i] = IF i = 0 THEN << >> ELSE g[i - 1] \o texts[order[i]]
  <2>1. CASE i = 0
    BY <1>1, <1>2, <1>3, <2>1 DEF IsReading
  <2>2. CASE i # 0 /\ i < m
    <3>1. i \in 0 .. m - 1 /\ i - 1 \in 0 .. m - 1
      BY <2>2
    <3>2. f[i] = f[i - 1] \o texts[order[i]]
      BY <1>3, <2>2, <3>1 DEF IsReading
    <3> QED  BY <1>4, <2>2, <3>1, <3>2
  <2>3. CASE i = m
    <3>1. i - 1 \in 0 .. m - 1
      BY <1>2, <2>3
    <3>2. g[m] = f[m - 1] \o texts[order[m]]
      <4>1. m \in 0 .. m /\ ~(m < m)
        BY <1>1
      <4> QED  BY <4>1, Zenon
    <3>3. f[m - 1] = g[m - 1]
      BY <1>4, <2>3, <3>1
    <3> QED  BY <1>2, <2>3, <3>2, <3>3
  <2> QED  BY <2>1, <2>2, <2>3
<1>6. IsReading(g, m, order)
  <2>1. g = [i \in 0 .. m |-> g[i]]
    OBVIOUS
  <2> HIDE DEF g
  <2> QED  BY <1>5, <2>1 DEF IsReading
<1> QED  BY <1>1, <1>6

(* In whatever order, all lines of all files are read. *)
LEMMA ListedIs ==
  ASSUME texts \in [File -> Seq(Line)], NEW order \in Orders
  PROVE  /\ Listed(order) \in Seq(Line)
         /\ \A l : (\E i \in DOMAIN Listed(order) : Listed(order)[i] = l)
                 <=> \E f \in File : \E i \in DOMAIN texts[f] : texts[f][i] = l
<1> DEFINE n == Cardinality(File)
<1>1. /\ n \in Nat /\ order \in [1 .. n -> File] /\ order \in Seq(File) /\ Len(order) = n
      /\ \A f \in File : \E i \in 1 .. n : order[i] = f
  <2>1. n \in Nat
    BY FilesAssumption, FS_CardinalityType
  <2>2. order \in [1 .. n -> File] /\ {order[i] : i \in DOMAIN order} = File
    BY DEF Orders
  <2> HIDE DEF n
  <2>3. order \in Seq(File) /\ Len(order) = n
    BY <2>1, <2>2, SeqDef
  <2> QED  BY <2>1, <2>2, <2>3
<1> HIDE DEF n
<1> DEFINE f == CHOOSE g : IsReading(g, n, order)
<1>2. Listed(order) = f[n]
  BY <1>1 DEF Listed, IsReading
<1>3. IsReading(f, n, order)
  BY <1>1, ReadingExists
<1> HIDE DEF f
<1>4. f[0] = << >> /\ \A i \in 1 .. n : f[i] = f[i - 1] \o texts[order[i]]
  <2>1. f = [i \in 0 .. n |-> IF i = 0 THEN << >> ELSE f[i - 1] \o texts[order[i]]]
    BY <1>3 DEF IsReading
  <2>2. \A i \in 0 .. n : f[i] = IF i = 0 THEN << >> ELSE f[i - 1] \o texts[order[i]]
    BY <2>1
  <2>3. 0 \in 0 .. n /\ \A i \in 1 .. n : i \in 0 .. n /\ i # 0
    BY <1>1
  <2> QED  BY <2>2, <2>3
<1> DEFINE Right(m) ==
             /\ f[m] \in Seq(Line)
             /\ \A l : (\E i \in DOMAIN f[m] : f[m][i] = l)
                     <=> \E k \in 1 .. m : \E i \in DOMAIN texts[order[k]] : texts[order[k]][i] = l
           T == {m \in 0 .. n : ~Right(m)}
<1>5. \A m \in 0 .. n : Right(m)
  <2> SUFFICES ASSUME T # {} PROVE FALSE
    OBVIOUS
  <2>1. T \subseteq Nat
    BY <1>1
  <2>2. PICK m \in T : \A y \in T : m <= y
    <3> HIDE DEF T
    <3> QED  BY <2>1, Least
  <2>3. Right(0)
    <3>1. DOMAIN f[0] = {} /\ f[0] \in Seq(Line)
      BY <1>4
    <3> QED  BY <3>1
  <2>4. m \in 1 .. n /\ m - 1 \in 0 .. n /\ m - 1 \in Nat
    <3>1. m \in 0 .. n /\ ~Right(m)
      BY <2>2
    <3>2. m # 0
      <4> HIDE DEF Right
      <4> QED  BY <2>3, <3>1
    <3> QED  BY <1>1, <3>1, <3>2
  <2>5. Right(m - 1)
    <3>1. ~(m <= m - 1)
      BY <2>4
    <3> QED  BY <2>2, <2>4, <3>1
  <2> DEFINE s == f[m - 1]
             t == texts[order[m]]
  <2>6. f[m] = s \o t /\ s \in Seq(Line) /\ t \in Seq(Line)
    BY <1>1, <1>4, <2>4, <2>5
  <2>7. \A l : (\E i \in DOMAIN s : s[i] = l)
             <=> \E k \in 1 .. m - 1 : \E i \in DOMAIN texts[order[k]] : texts[order[k]][i] = l
    BY <2>5
  <2>8. /\ f[m] \in Seq(Line) /\ DOMAIN f[m] = 1 .. Len(s) + Len(t)
        /\ Len(s) \in Nat /\ Len(t) \in Nat /\ DOMAIN s = 1 .. Len(s) /\ DOMAIN t = 1 .. Len(t)
        /\ \A i \in 1 .. Len(s) + Len(t) : f[m][i] = IF i <= Len(s) THEN s[i] ELSE t[i - Len(s)]
    <3> HIDE DEF s, t
    <3>1. /\ s \o t \in Seq(Line) /\ Len(s \o t) = Len(s) + Len(t)
          /\ \A i \in 1 .. Len(s) + Len(t) : (s \o t)[i] = IF i <= Len(s) THEN s[i] ELSE t[i - Len(s)]
      BY <2>6, ConcatProperties
    <3> QED  BY <2>6, <3>1, LenProperties
  <2>9. ASSUME NEW l
        PROVE  (\E i \in DOMAIN f[m] : f[m][i] = l)
                 <=> (\E i \in DOMAIN s : s[i] = l) \/ (\E i \in DOMAIN t : t[i] = l)
    <3> HIDE DEF s, t
    <3>1. ASSUME NEW i \in DOMAIN s, s[i] = l PROVE \E k \in DOMAIN f[m] : f[m][k] = l
      <4>1. i \in 1 .. Len(s) + Len(t) /\ i <= Len(s)
        BY <2>8
      <4> QED  BY <2>8, <3>1, <4>1
    <3>2. ASSUME NEW i \in DOMAIN t, t[i] = l PROVE \E k \in DOMAIN f[m] : f[m][k] = l
      <4>1. i \in 1 .. Len(t) /\ Len(s) \in Nat /\ Len(t) \in Nat
        BY <2>8
      <4>2. Len(s) + i \in 1 .. Len(s) + Len(t) /\ ~(Len(s) + i <= Len(s)) /\ Len(s) + i - Len(s) = i
        BY <4>1
      <4>3. f[m][Len(s) + i] = t[i]
        BY <2>8, <4>2
      <4> QED  BY <2>8, <3>2, <4>2, <4>3
    <3>3. ASSUME NEW i \in DOMAIN f[m], f[m][i] = l
          PROVE  (\E k \in DOMAIN s : s[k] = l) \/ (\E k \in DOMAIN t : t[k] = l)
      <4>1. CASE i <= Len(s)
        BY <2>8, <3>3, <4>1
      <4>2. CASE ~(i <= Len(s))
        <5>1. i - Len(s) \in 1 .. Len(t)
          BY <2>8, <4>2
        <5> QED  BY <2>8, <3>3, <4>2, <5>1
      <4> QED  BY <4>1, <4>2
    <3> QED  BY <3>1, <3>2, <3>3
  <2>10. \A l : (\E k \in 1 .. m : \E i \in DOMAIN texts[order[k]] : texts[order[k]][i] = l)
           <=> \/ \E k \in 1 .. m - 1 : \E i \in DOMAIN texts[order[k]] : texts[order[k]][i] = l
               \/ \E i \in DOMAIN texts[order[m]] : texts[order[m]][i] = l
    <3>1. \A k : k \in 1 .. m <=> k \in 1 .. m - 1 \/ k = m
      BY <2>4
    <3> QED  BY <3>1
  <2>11. Right(m)
    BY <2>7, <2>8, <2>9, <2>10
  <2> QED  BY <2>2, <2>11
<1>6. Right(n)
  <2> HIDE DEF Right
  <2> QED  BY <1>1, <1>5
<1>7. \A l : (\E k \in 1 .. n : \E i \in DOMAIN texts[order[k]] : texts[order[k]][i] = l)
          <=> \E g \in File : \E i \in DOMAIN texts[g] : texts[g][i] = l
  BY <1>1
<1> QED  BY <1>2, <1>6, <1>7

-----------------------------------------------------------------------------
(* A run *)

(* Each zone that was populated is what one list of lines makes of it. *)
TinyInv ==
  /\ texts \in [File -> Seq(Line)]
  /\ cache = {} \/ \E lines \in Seq(Line) : cache = {lines}
  /\ DOMAIN made = TinyZones
  /\ \A z \in TinyZones : Known(z) =>
       \E lines \in Seq(Line) :
         cache = {lines} /\ made[z] = {Made(z, lines)} /\ ~LinesRaise(z, lines)

LEMMA TinyInitOk == TinyInit => TinyInv
<1> SUFFICES ASSUME TinyInit PROVE TinyInv
  OBVIOUS
<1>1. \A z \in TinyZones : ~Known(z)
  BY DEF TinyInit, Known
<1> QED  BY <1>1, FilesAssumption DEF TinyInit, TinyInv

LEMMA PopulateOk ==
  ASSUME TinyInv, NEW zone \in TinyZones, Populate(zone)
  PROVE  TinyInv'
<1>1. PICK read \in Lines :
        /\ cache' = {read} /\ made' = [made EXCEPT ![zone] = Populated(zone, read)]
  BY DEF Populate
<1>2. texts' = texts /\ texts \in [File -> Seq(Line)]
  BY DEF Populate, TinyInv
<1>3. read \in Seq(Line)
  <2>1. CASE cache = {}
    BY <1>1, <1>2, <2>1, ListedIs DEF Lines
  <2>2. CASE cache # {}
    BY <1>1, <2>2 DEF Lines, TinyInv
  <2> QED  BY <2>1, <2>2
<1>4. cache # {} => cache = {read}
  BY <1>1 DEF Lines, TinyInv
<1>5. DOMAIN made = TinyZones /\ DOMAIN made' = TinyZones
  BY <1>1 DEF TinyInv
<1>6. ASSUME NEW z \in TinyZones, made'[z] # {}
      PROVE  made'[z] = {Made(z, read)} /\ ~LinesRaise(z, read)
  <2>1. CASE z = zone
    BY <1>1, <1>5, <1>6, <2>1 DEF Populated
  <2>2. CASE z # zone
    <3>1. made'[z] = made[z]
      BY <1>1, <1>5, <2>2
    <3>2. PICK lines \in Seq(Line) :
            cache = {lines} /\ made[z] = {Made(z, lines)} /\ ~LinesRaise(z, lines)
      BY <1>6, <3>1 DEF TinyInv, Known
    <3>3. lines = read
      BY <1>4, <3>2
    <3> QED  BY <3>1, <3>2, <3>3
  <2> QED  BY <2>1, <2>2
<1>7. \A z \in TinyZones : Known(z)' =>
        \E lines \in Seq(Line) :
          cache' = {lines} /\ made'[z] = {Made(z, lines)} /\ ~LinesRaise(z, lines)
  BY <1>1, <1>3, <1>6 DEF Known
<1> QED  BY <1>1, <1>2, <1>3, <1>5, <1>7 DEF TinyInv

LEMMA EditOk ==
  ASSUME TinyInv, NEW file \in File, NEW line \in Added, Edit(file, line)
  PROVE  TinyInv'
<1>1. texts' \in [File -> Seq(Line)]
  <2>1. line \in Line
    BY FilesAssumption
  <2>2. texts \in [File -> Seq(Line)] /\ texts' = [texts EXCEPT ![file] = Append(@, line)]
    BY DEF TinyInv, Edit
  <2>3. Append(texts[file], line) \in Seq(Line)
    BY <2>1, <2>2
  <2> QED  BY <2>2, <2>3
<1> QED  BY <1>1 DEF TinyInv, Edit, Known

LEMMA TinyStep == TinyInv /\ [TinyNext]_tinyVars => TinyInv'
<1> SUFFICES ASSUME TinyInv, [TinyNext]_tinyVars PROVE TinyInv'
  OBVIOUS
<1>1. ASSUME NEW z \in TinyZones, Populate(z) PROVE TinyInv'
  BY <1>1, PopulateOk
<1>2. ASSUME NEW f \in File, NEW l \in Added, Edit(f, l) PROVE TinyInv'
  BY <1>2, EditOk
<1>3. CASE UNCHANGED tinyVars
  BY <1>3 DEF tinyVars, TinyInv, Known
<1> QED  BY <1>1, <1>2, <1>3 DEF TinyNext

LEMMA TinyWorks == TinySpec => []TinyInv
  BY TinyInitOk, TinyStep, PTL DEF TinySpec

-----------------------------------------------------------------------------
(* What zones of one list of lines have in common *)

IsOf(zone, lines) ==
  /\ zone \in TinyZones /\ lines \in Seq(Line)
  /\ cache = {lines} /\ made[zone] = {Made(zone, lines)} /\ ~LinesRaise(zone, lines)

LEMMA OfLines ==
  ASSUME TinyInv, NEW z \in TinyZones, Known(z), NEW t \in TinyZones, Known(t)
  PROVE  \E lines : IsOf(z, lines) /\ IsOf(t, lines)
<1>1. PICK lines : IsOf(z, lines)
  BY DEF TinyInv, IsOf
<1>2. PICK others : IsOf(t, others)
  BY DEF TinyInv, IsOf
<1>3. lines = others
  BY <1>1, <1>2 DEF IsOf
<1> QED  BY <1>1, <1>2, <1>3

LEMMA RecordsAre ==
  ASSUME NEW zone, NEW lines, IsOf(zone, lines)
  PROVE  /\ Read = {lines[i] : i \in DOMAIN lines}
         /\ RecordsOf(zone) = Made(zone, lines)
  BY DEF IsOf, Read, RecordsOf

LEMMA AllSound ==
  ASSUME NEW zone, NEW lines, IsOf(zone, lines), NEW l \in Read
  PROVE  /\ l \in Line /\ Sound(zone, l)
         /\ \A y \in Yields(zone, l) :
              (l.symbol = "C" => y.type # "CNAME") => y \in AllYielded(zone, lines)
<1>1. PICK i \in DOMAIN lines : l = lines[i]
  BY RecordsAre
<1>2. zone \in TinyZones /\ lines \in Seq(Line) /\ ~LinesRaise(zone, lines)
  BY DEF IsOf
<1> QED  BY <1>1, <1>2, LinesSound, YieldedIs

LEMMA FromLines ==
  ASSUME NEW zone, NEW lines, IsOf(zone, lines), NEW y \in AllYielded(zone, lines)
  PROVE  \E l \in Read : y \in Yields(zone, l)
<1>1. PICK i \in DOMAIN lines : y \in Yields(zone, lines[i])
  BY YieldedIs DEF IsOf
<1> QED  BY <1>1, RecordsAre

(* A record is one of the yields of its type and name, all of them its values. *)
LEMMA RecordIs ==
  ASSUME NEW zone, NEW lines, IsOf(zone, lines), NEW r \in RecordsOf(zone)
  PROVE  \E y \in AllYielded(zone, lines) :
           /\ r.type = y.type /\ r.name = Hostname(zone, y.labels)
           /\ r.name \o zone.name = y.labels
           /\ IsName(y.labels) /\ Owns(zone, y.type, y.labels)
           /\ r.values = Collected(zone, lines, y.type, y.labels)
<1>1. zone \in TinyZones /\ lines \in Seq(Line) /\ ~LinesRaise(zone, lines)
  BY DEF IsOf
<1>2. PICK y \in AllYielded(zone, lines) :
        /\ r.name = Hostname(zone, y.labels) /\ r.type = y.type
        /\ r.values = Collected(zone, lines, y.type, y.labels)
  BY RecordsAre, MadeOf
<1>3. /\ IsName(y.labels) /\ Owns(zone, y.type, y.labels)
      /\ Hostname(zone, y.labels) \o zone.name = y.labels
  BY <1>1, MadeIs
<1> QED  BY <1>2, <1>3

LEMMA RecordFor ==
  ASSUME NEW zone, NEW lines, IsOf(zone, lines), NEW y \in AllYielded(zone, lines)
  PROVE  \E r \in RecordsOf(zone) :
           /\ r.type = y.type /\ r.name = Hostname(zone, y.labels)
           /\ r.name \o zone.name = y.labels
           /\ r.values = Collected(zone, lines, y.type, y.labels)
<1>1. zone \in TinyZones /\ lines \in Seq(Line) /\ ~LinesRaise(zone, lines)
  BY DEF IsOf
<1>2. PICK r \in RecordsOf(zone) :
        /\ r.name = Hostname(zone, y.labels) /\ r.type = y.type
        /\ r.values = Collected(zone, lines, y.type, y.labels)
  BY RecordsAre, MadeOf
<1>3. Hostname(zone, y.labels) \o zone.name = y.labels
  BY <1>1, MadeIs
<1> QED  BY <1>2, <1>3

LEMMA HoldsYield ==
  ASSUME NEW zone, NEW lines, IsOf(zone, lines),
         NEW type, NEW labels, NEW value, Yield(type, labels, value) \in AllYielded(zone, lines)
  PROVE  Holds(zone, labels, type, value)
<1> DEFINE y == Yield(type, labels, value)
<1>1. y.type = type /\ y.labels = labels /\ y.value = value
  BY DEF Yield
<1>2. y \in AllYielded(zone, lines)
  OBVIOUS
<1> HIDE DEF y
<1>3. PICK r \in RecordsOf(zone) :
        /\ r.type = y.type /\ r.name \o zone.name = y.labels
        /\ r.values = Collected(zone, lines, y.type, y.labels)
  BY <1>2, RecordFor
<1>4. y.value \in Collected(zone, lines, y.type, y.labels)
  BY <1>2 DEF Collected, IsFor
<1> QED  BY <1>1, <1>3, <1>4 DEF Holds

LEMMA ValueIs ==
  ASSUME NEW zone, NEW lines, IsOf(zone, lines), NEW r \in RecordsOf(zone), NEW value \in r.values
  PROVE  \E y \in AllYielded(zone, lines) :
           y.type = r.type /\ y.labels = r.name \o zone.name /\ y.value = value
<1>1. PICK x \in AllYielded(zone, lines) :
        /\ r.type = x.type /\ r.name \o zone.name = x.labels
        /\ r.values = Collected(zone, lines, x.type, x.labels)
  BY RecordIs
<1> QED  BY <1>1 DEF Collected, IsFor

-----------------------------------------------------------------------------
(* The order of the files *)

LEMMA SameWhateverTheOrder == TinyInv => AnyOrder
<1> SUFFICES ASSUME TinyInv, NEW z \in TinyZones, NEW o \in Orders, NEW p \in Orders,
                    NEW s \in Populated(z, Listed(o)), NEW t \in Populated(z, Listed(p))
             PROVE  Contents(s) = Contents(t)
  BY DEF AnyOrder
<1>1. texts \in [File -> Seq(Line)]
  BY DEF TinyInv
<1>2. /\ Listed(o) \in Seq(Line) /\ Listed(p) \in Seq(Line)
      /\ {Listed(o)[i] : i \in DOMAIN Listed(o)} = {Listed(p)[i] : i \in DOMAIN Listed(p)}
  BY <1>1, ListedIs
<1>3. s = Made(z, Listed(o)) /\ t = Made(z, Listed(p))
  BY DEF Populated
<1> HIDE DEF Contents
<1>4. Contents(s) \subseteq Contents(t) /\ Contents(t) \subseteq Contents(s)
  BY <1>2, <1>3, ContentsInAnyOrder
<1> QED  BY <1>4

(* Whichever order listdir has the files in, the records have the same      *)
(* names, types and values.                                                 *)
THEOREM InAnyOrder == TinySpec => []AnyOrder
  BY TinyWorks, SameWhateverTheOrder, PTL

-----------------------------------------------------------------------------
(* Addresses and the names that point to them *)

LEMMA ShortNames ==
  ASSUME NEW a, NEW b
  PROVE  /\ IsName(<<b>>) /\ IsName(<<a, b>>) /\ IsUnder(<<a, b>>, <<b>>)
<1>1. <<b>> \in Seq({b}) /\ <<a, b>> \in Seq({a, b})
  OBVIOUS
<1>2. IsName(<<b>>) /\ IsName(<<a, b>>)
  BY <1>1, NamesAre
<1>3. Len(<<a, b>>) > Len(<<b>>)
      /\ \A i \in 1 .. Len(<<b>>) : <<b>>[i] = <<a, b>>[Len(<<a, b>>) - Len(<<b>>) + i]
  <2>1. Len(<<a, b>>) = 2 /\ Len(<<b>>) = 1 /\ <<a, b>>[2] = b /\ <<b>>[1] = b
    OBVIOUS
  <2>2. \A i \in 1 .. 1 : i = 1 /\ 2 - 1 + i = 2
    OBVIOUS
  <2> QED  BY <2>1, <2>2
<1> QED  BY <1>2, <1>3, UnderIs

LEMMA NoPointer ==
  ASSUME NEW l \in Line, l.symbol \in {"=", "6"}, ~IsPtr(l)
  PROVE  /\ l.ip \in DOMAIN ReversePointer
         /\ Pointed(l) = ReversePointer[l.ip] /\ Pointee(l) = l.name.labels
  BY LineAssumption DEF IsPtr, Pointed, Pointee

LEMMA Forward ==
  ASSUME NEW f, NEW lines, IsOf(f, lines), ~IsArpa(f),
         NEW l \in Read, l.symbol \in {"=", "6"}, l.ip # Ignored,
         Owns(f, AddressType(l), l.name.labels)
  PROVE  Holds(f, l.name.labels, AddressType(l), <<l.ip>>)
<1> DEFINE y == Yield(AddressType(l), l.name.labels, <<l.ip>>)
<1>1. CASE l.symbol = "="
  <2>1. Yields(f, l) = ForPlus(f, l)
    BY <1>1, Symbols DEF ForEqual
  <2>2. y \in Yields(f, l)
    BY <1>1, <2>1 DEF ForPlus, IfOwned, AddressType
  <2>3. y \in AllYielded(f, lines)
    BY <1>1, <2>2, AllSound
  <2> QED  BY <2>3, HoldsYield
<1>2. CASE l.symbol = "6"
  <2>1. Yields(f, l) = ForThree(f, l)
    BY <1>2, Symbols DEF ForSix
  <2>2. y \in Yields(f, l)
    BY <1>2, <2>1 DEF ForThree, IfOwned, AddressType
  <2>3. y \in AllYielded(f, lines)
    BY <1>2, <2>2, AllSound
  <2> QED  BY <2>3, HoldsYield
<1> QED  BY <1>1, <1>2

LEMMA Backward ==
  ASSUME NEW a, NEW lines, IsOf(a, lines), IsArpa(a),
         NEW l \in Read, l.symbol \in {"=", "6"}, ~IsPtr(l),
         Owns(a, "PTR", ReversePointer[l.ip])
  PROVE  Holds(a, ReversePointer[l.ip], "PTR", l.name.labels)
<1>1. l \in Line
  BY AllSound
<1>2. Yields(a, l) = ForCaret(a, l)
  BY Symbols DEF ForEqual, ForSix
<1>3. Yield("PTR", ReversePointer[l.ip], l.name.labels) \in Yields(a, l)
  BY <1>1, <1>2, NoPointer DEF ForCaret
<1>4. Yield("PTR", ReversePointer[l.ip], l.name.labels) \in AllYielded(a, lines)
  BY <1>3, AllSound
<1> QED  BY <1>4, HoldsYield

(* What r in the zone a says of host is so in the zone f, or a PTR line's.  *)
IsAnswered(f, a, r, host) ==
  \/ \E ip \in DOMAIN ReversePointer :
       /\ ReversePointer[ip] = r.name \o a.name
       /\ ip = Ignored \/ \E type \in {"A", "AAAA"} : Holds(f, host, type, <<ip>>)
  \/ \E l \in Read :
       IsPtr(l) /\ Pointed(l) = r.name \o a.name /\ Pointee(l) = host

LEMMA PointedBack ==
  ASSUME NEW f, NEW a, NEW lines, IsOf(f, lines), IsOf(a, lines), ~IsArpa(f), IsArpa(a),
         NEW r \in RecordsOf(a), NEW host \in r.values, Owns(f, "A", host)
  PROVE  IsAnswered(f, a, r, host)
<1>1. PICK y \in AllYielded(a, lines) : y.labels = r.name \o a.name /\ y.value = host
  BY ValueIs
<1>2. PICK l \in Read : y \in Yields(a, l)
  BY FromLines
<1>3. a \in TinyZones /\ l \in Line /\ Sound(a, l)
  BY AllSound DEF IsOf
<1>4. l.symbol \in {"^", "=", "6"} /\ y \in ForCaret(a, l)
  BY <1>2, <1>3, YieldsAre
<1>5. Pointed(l) = r.name \o a.name /\ Pointee(l) = host
  <2>1. y = Yield("PTR", Pointed(l), Pointee(l))
    BY <1>4 DEF ForCaret
  <2> QED  BY <1>1, <2>1 DEF Yield
<1>6. CASE IsPtr(l)
  BY <1>5, <1>6 DEF IsAnswered
<1>7. CASE ~IsPtr(l) /\ l.ip # Ignored
  <2>0. l.symbol \in {"=", "6"}
    BY <1>4, <1>7 DEF IsPtr
  <2>1. l.ip \in DOMAIN ReversePointer /\ ReversePointer[l.ip] = r.name \o a.name
    BY <1>3, <1>5, <1>7, <2>0, NoPointer
  <2>2. host = l.name.labels
    BY <1>3, <1>5, <1>7, <2>0, NoPointer
  <2>3. AddressType(l) \in {"A", "AAAA"} /\ Owns(f, AddressType(l), l.name.labels)
    BY <2>2, OwnedByAny DEF AddressType
  <2>4. Holds(f, host, AddressType(l), <<l.ip>>)
    BY <1>7, <2>0, <2>2, <2>3, Forward
  <2> QED  BY <2>1, <2>3, <2>4 DEF IsAnswered
<1>8. CASE ~IsPtr(l) /\ l.ip = Ignored
  <2>0. l.symbol \in {"=", "6"}
    BY <1>4, <1>8 DEF IsPtr
  <2>1. l.ip \in DOMAIN ReversePointer /\ ReversePointer[l.ip] = r.name \o a.name
    BY <1>3, <1>5, <1>8, <2>0, NoPointer
  <2> QED  BY <1>8, <2>1 DEF IsAnswered
<1> QED  BY <1>4, <1>6, <1>7, <1>8

LEMMA StoriesAgree == TinyInv => BothWays
<1> SUFFICES ASSUME TinyInv, NEW f \in TinyZones, NEW a \in TinyZones,
                    Known(f), Known(a), ~IsArpa(f), IsArpa(a)
             PROVE
    /\ \A l \in {l \in Read : l.symbol \in {"=", "6"} /\ ~IsPtr(l) /\ l.ip # Ignored} :
         Owns(f, AddressType(l), l.name.labels) /\ Owns(a, "PTR", ReversePointer[l.ip]) =>
           /\ Holds(f, l.name.labels, AddressType(l), <<l.ip>>)
           /\ Holds(a, ReversePointer[l.ip], "PTR", l.name.labels)
    /\ \A r \in RecordsOf(a) : \A host \in r.values :
         r.type = "PTR" /\ Owns(f, "A", host) => IsAnswered(f, a, r, host)
  BY DEF BothWays, IsAnswered
<1>1. PICK lines : IsOf(f, lines) /\ IsOf(a, lines)
  BY OfLines
<1>2. ASSUME NEW l \in Read, l.symbol \in {"=", "6"}, ~IsPtr(l), l.ip # Ignored,
             Owns(f, AddressType(l), l.name.labels), Owns(a, "PTR", ReversePointer[l.ip])
      PROVE  /\ Holds(f, l.name.labels, AddressType(l), <<l.ip>>)
             /\ Holds(a, ReversePointer[l.ip], "PTR", l.name.labels)
  BY <1>1, <1>2, Forward, Backward
<1>3. ASSUME NEW r \in RecordsOf(a), NEW host \in r.values, r.type = "PTR", Owns(f, "A", host)
      PROVE  IsAnswered(f, a, r, host)
  BY <1>1, <1>3, PointedBack
<1> QED  BY <1>2, <1>3

(* What "=" and "6" lines say of an address is in the zone with the name    *)
(* and in the zone below arpa, and the PTR records of the one point back to *)
(* the addresses of the other, though files are edited between the two.     *)
THEOREM PointersBothWays == TinySpec => []BothWays
  BY TinyWorks, StoriesAgree, PTL

-----------------------------------------------------------------------------
(* The name servers of the zone below *)

LEMMA ArpaYields ==
  ASSUME NEW zone, NEW lines, IsOf(zone, lines), IsArpa(zone), NEW y \in AllYielded(zone, lines)
  PROVE  y.type = "PTR"
<1>1. PICK l \in Read : y \in Yields(zone, l)
  BY FromLines
<1>2. zone \in TinyZones /\ l \in Line /\ Sound(zone, l)
  BY AllSound DEF IsOf
<1>3. y \in ForCaret(zone, l)
  BY <1>1, <1>2, YieldsAre
<1> QED  BY <1>3 DEF ForCaret, Yield

(* What "." and "&" lines say of the name servers of a name *)
Servers(labels) ==
  {l.rest \o l.host.labels : l \in {l \in Read : l.symbol \in {".", "&"} /\ l.name.labels = labels}}

LEMMA HostInFull ==
  ASSUME NEW zone, NEW l, InFull(l), l.symbol \in {".", "&", "@", "S"}, NEW label
  PROVE  Qualified(zone, l.host, label) = l.host.labels
<1>1. Len(l.host.labels) > 1 \/ l.host.dot
  BY DEF InFull
<1>2. ~(1 > 1)
  OBVIOUS
<1> QED  BY <1>1, <1>2, Zenon DEF Qualified

LEMMA ServerYields ==
  ASSUME NEW zone \in TinyZones, NEW l, InFull(l), NEW y \in Yields(zone, l), y.type = "NS"
  PROVE  l.symbol \in {".", "&"} /\ y = Yield("NS", l.name.labels, l.rest \o l.host.labels)
<1>1. y \notin ForCaret(zone, l)
  BY DEF ForCaret, Yield
<1>2. y \notin ForPlus(zone, l)
  BY DEF ForPlus, IfOwned, Yield
<1>3. y \notin ForThree(zone, l)
  BY DEF ForThree, IfOwned, Yield
<1>4. l.symbol \notin {"=", "6", "^", "+", "3"}
  BY <1>1, <1>2, <1>3, Symbols DEF ForEqual, ForSix
<1>5. l.symbol # "C"
  BY Symbols DEF ForC, IfOwned, Yield
<1>6. l.symbol # "'"
  BY Symbols DEF ForQuote, IfOwned, Yield
<1>7. l.symbol # ":"
  BY Symbols DEF ForColon, IfOwned, Yield, InFull
<1>8. ASSUME NEW type, NEW label, y \in WithHost(zone, l, type, label)
      PROVE  y = Yield(type, l.name.labels, l.rest \o Qualified(zone, l.host, label))
  <2> DEFINE host == Qualified(zone, l.host, label)
  <2>1. y = Yield(type, l.name.labels, l.rest \o host) \/ y = Yield("A", host, <<l.ip>>)
    BY <1>8 DEF WithHost, IfOwned
  <2> HIDE DEF host
  <2>2. y # Yield("A", host, <<l.ip>>)
    BY DEF Yield
  <2> QED  BY <2>1, <2>2 DEF host
<1>9. l.symbol # "@"
  <2>1. Yield("MX", l.name.labels, l.rest \o Qualified(zone, l.host, "mx")).type # "NS"
    BY DEF Yield
  <2> SUFFICES ASSUME l.symbol = "@" PROVE FALSE
    OBVIOUS
  <2>2. y \in WithHost(zone, l, "MX", "mx")
    BY Symbols DEF ForAt
  <2> QED  BY <1>8, <2>1, <2>2
<1>10. l.symbol # "S"
  <2>1. Yield("SRV", l.name.labels, l.rest \o Qualified(zone, l.host, "srv")).type # "NS"
    BY DEF Yield
  <2> SUFFICES ASSUME l.symbol = "S" PROVE FALSE
    OBVIOUS
  <2>2. y \in WithHost(zone, l, "SRV", "srv")
    BY Symbols DEF ForS
  <2> QED  BY <1>8, <2>1, <2>2
<1>11. l.symbol \in {".", "&"}
  BY <1>4, <1>5, <1>6, <1>7, <1>9, <1>10, Symbols
<1>12. y = Yield("NS", l.name.labels, l.rest \o Qualified(zone, l.host, "ns"))
  BY <1>8, <1>11, Symbols DEF ForDot
<1>13. Qualified(zone, l.host, "ns") = l.host.labels
  BY <1>11, HostInFull
<1> QED  BY <1>11, <1>12, <1>13

LEMMA ServersYielded ==
  ASSUME NEW zone \in TinyZones, ~IsArpa(zone), NEW l, InFull(l), l.symbol \in {".", "&"},
         Owns(zone, "NS", l.name.labels)
  PROVE  Yield("NS", l.name.labels, l.rest \o l.host.labels) \in Yields(zone, l)
<1>1. Qualified(zone, l.host, "ns") = l.host.labels
  BY HostInFull
<1> QED  BY <1>1, Symbols DEF ForDot, WithHost, IfOwned

(* Both zones have the same values for the name servers of a name that each *)
(* owns: those that the lines say.                                          *)
LEMMA ServersCollected ==
  ASSUME NEW zone, NEW lines, IsOf(zone, lines), ~IsArpa(zone), \A l \in Read : InFull(l),
         NEW labels, Owns(zone, "NS", labels)
  PROVE  Collected(zone, lines, "NS", labels) = Servers(labels)
<1>0. zone \in TinyZones
  BY DEF IsOf
<1>1. ASSUME NEW y \in AllYielded(zone, lines), IsFor(y, "NS", labels)
      PROVE  y.value \in Servers(labels)
  <2>1. PICK l \in Read : y \in Yields(zone, l)
    BY FromLines
  <2>2. l.symbol \in {".", "&"} /\ y = Yield("NS", l.name.labels, l.rest \o l.host.labels)
    BY <1>0, <1>1, <2>1, ServerYields DEF IsFor
  <2> QED  BY <1>1, <2>2 DEF Servers, IsFor, Yield
<1>2. ASSUME NEW l \in Read, l.symbol \in {".", "&"}, l.name.labels = labels
      PROVE  l.rest \o l.host.labels \in Collected(zone, lines, "NS", labels)
  <2> DEFINE y == Yield("NS", labels, l.rest \o l.host.labels)
  <2>1. y \in Yields(zone, l)
    BY <1>0, <1>2, ServersYielded
  <2>2. y \in AllYielded(zone, lines)
    BY <1>2, <2>1, AllSound
  <2>3. IsFor(y, "NS", labels) /\ y.value = l.rest \o l.host.labels
    BY DEF IsFor, Yield
  <2> HIDE DEF y
  <2> QED  BY <2>2, <2>3 DEF Collected
<1> QED  BY <1>1, <1>2 DEF Collected, Servers

(* There is a record of name servers just if lines say some. *)
LEMMA ServersRecorded ==
  ASSUME NEW zone, NEW lines, IsOf(zone, lines), ~IsArpa(zone), \A l \in Read : InFull(l),
         NEW labels, Owns(zone, "NS", labels), Servers(labels) # {}
  PROVE  \E r \in RecordsOf(zone) :
           /\ r.type = "NS" /\ r.name = Hostname(zone, labels) /\ r.name \o zone.name = labels
           /\ r.values = Servers(labels)
<1>1. Collected(zone, lines, "NS", labels) = Servers(labels)
  BY ServersCollected
<1>2. PICK y \in AllYielded(zone, lines) : IsFor(y, "NS", labels)
  BY <1>1 DEF Collected
<1>3. y.type = "NS" /\ y.labels = labels
  BY <1>2 DEF IsFor
<1>4. PICK r \in RecordsOf(zone) :
        /\ r.type = y.type /\ r.name = Hostname(zone, y.labels)
        /\ r.name \o zone.name = y.labels
        /\ r.values = Collected(zone, lines, y.type, y.labels)
  BY <1>2, RecordFor
<1> QED  BY <1>1, <1>3, <1>4

(* The names of a zone and of those below it, which the zones above it own  *)
(* for name servers as it does.                                             *)
Edges(zone) == {s \o zone.name : s \in {Apex} \cup zone.sub_zones}

LEMMA EdgesAreOwned ==
  ASSUME NEW z \in TinyZones, NEW sub \in TinyZones, IsUnder(sub.name, z.name),
         NEW s \in {Apex} \cup sub.sub_zones
  PROVE  /\ Owns(z, "NS", s \o sub.name) /\ Owns(sub, "NS", s \o sub.name)
         /\ Hostname(sub, s \o sub.name) = s
         /\ EndsWith(s \o sub.name, sub.name)
<1> DEFINE labels == s \o sub.name
           host == Hostname(z, sub.name)
<1>1. IsName(z.name) /\ IsName(sub.name) /\ IsName(s)
  <2>1. IsName(Apex)
    BY EmptySeq, NamesAre DEF Apex
  <2> QED  BY <2>1, TinyNamesAssumption
<1>2. /\ IsName(labels) /\ EndsWith(labels, sub.name) /\ Hostname(sub, labels) = s
      /\ Len(s) > 0 => IsUnder(labels, sub.name)
  BY <1>1, HostnameJoined
<1>3. CASE s = Apex
  <2>1. labels = sub.name
    <3>1. sub.name \in Seq({sub.name[i] : i \in DOMAIN sub.name})
      BY <1>1 DEF IsName
    <3> QED  BY <1>3, <3>1, ConcatEmptySeq DEF Apex
  <2>2. host \in z.sub_zones
    BY NestingAssumption
  <2> HIDE DEF labels
  <2> QED  BY <1>2, <2>1, <2>2 DEF Owns, labels
<1>4. CASE s \in sub.sub_zones
  <2>1. s \o host \in z.sub_zones /\ IsUnder(s \o host, host)
    BY <1>4, NestingAssumption
  <2>2. IsName(host) /\ host \o z.name = sub.name
    BY <1>1, HostnameIs DEF EndsWith
  <2> HIDE DEF host
  <2>3. Len(s) > 0
    <3>1. IsName(s \o host) /\ Len(s \o host) = Len(s) + Len(host)
      BY <1>1, <2>2, NamesJoined
    <3>2. Len(s \o host) > Len(host)
      BY <2>1, <2>2, <3>1, UnderIs
    <3>3. Len(s) \in Nat /\ Len(host) \in Nat
      BY <1>1, <2>2, LengthOfName
    <3> QED  BY <3>1, <3>2, <3>3
  <2>4. IsUnder(labels, sub.name) /\ Owns(sub, "NS", labels)
    BY <1>2, <1>4, <2>3 DEF Owns
  <2>5. labels = (s \o host) \o z.name
    <3>1. PICK n : n = z.name
      OBVIOUS
    <3>2. PICK m : m = sub.name
      OBVIOUS
    <3>3. PICK w : w = s \o host
      OBVIOUS
    <3>4. IsName(s) /\ IsName(host) /\ IsName(n) /\ m = host \o n
      BY <1>1, <2>2, <3>1, <3>2
    <3>5. w \o n = s \o m
      BY <3>3, <3>4, JoinedTwice
    <3> QED  BY <3>1, <3>2, <3>3, <3>5
  <2>6. IsName(s \o host)
    BY <1>1, <2>2, NamesJoined
  <2> HIDE DEF labels
  <2>7. Hostname(z, labels) = s \o host
    BY <1>1, <2>5, <2>6, HostnameJoined
  <2>8. IsUnder(labels, z.name)
    BY <1>1, <1>2, <2>4, UnderUnder DEF EndsWith
  <2>9. Owns(z, "NS", labels)
    BY <2>1, <2>7, <2>8 DEF Owns
  <2> QED  BY <1>2, <2>4, <2>9 DEF labels
<1> QED  BY <1>3, <1>4

LEMMA OnlyTheEdges ==
  ASSUME NEW z \in TinyZones, NEW sub \in TinyZones, IsUnder(sub.name, z.name),
         NEW type, NEW labels, IsName(labels), Owns(z, type, labels), EndsWith(labels, sub.name)
  PROVE  type = "NS" /\ labels \in Edges(sub)
<1> DEFINE host == Hostname(z, sub.name)
<1>1. IsName(z.name) /\ IsName(sub.name)
  BY TinyNamesAssumption
<1>2. Len(z.name) \in Nat /\ Len(sub.name) \in Nat /\ Len(sub.name) > Len(z.name)
  BY <1>1, LengthOfName, UnderIs
<1>3. host \in z.sub_zones
  BY NestingAssumption
<1>4. labels # z.name
  BY <1>1, <1>2, LengthOfName, UnderIs DEF EndsWith
<1>5. IsUnder(labels, z.name)
  BY <1>4 DEF Owns
<1>6. CASE labels = sub.name
  <2>1. type = "NS"
    BY <1>3, <1>4, <1>6 DEF Owns
  <2>2. sub.name \in Seq({sub.name[i] : i \in DOMAIN sub.name})
    BY <1>1 DEF IsName
  <2>3. Apex \o sub.name = sub.name
    BY <2>2, ConcatEmptySeq DEF Apex
  <2> QED  BY <1>6, <2>1, <2>3 DEF Edges
<1>7. CASE IsUnder(labels, sub.name)
  <2>1. IsUnder(Hostname(z, labels), host)
    BY <1>1, <1>7, HostnamesUnder
  <2>2. Hostname(z, labels) \in z.sub_zones /\ type = "NS"
    BY <1>3, <1>4, <2>1 DEF Owns
  <2>3. PICK s \in sub.sub_zones : Hostname(z, labels) = s \o host
    BY <2>1, <2>2, NestingAssumption
  <2>4. IsName(s) /\ IsName(host) /\ host \o z.name = sub.name
    BY <1>1, TinyNamesAssumption, HostnameIs DEF EndsWith
  <2>5. Hostname(z, labels) \o z.name = labels
    BY <1>1, <1>5, HostnameIs DEF EndsWith
  <2> HIDE DEF host
  <2>6. labels = s \o sub.name
    <3>1. PICK n : n = z.name
      OBVIOUS
    <3>2. PICK m : m = sub.name
      OBVIOUS
    <3>3. PICK w : w = Hostname(z, labels)
      OBVIOUS
    <3>4. IsName(s) /\ IsName(host) /\ IsName(n) /\ m = host \o n /\ w = s \o host
      BY <1>1, <2>3, <2>4, <3>1, <3>2, <3>3
    <3>5. w \o n = s \o m
      BY <3>4, JoinedTwice
    <3> QED  BY <2>5, <3>1, <3>2, <3>3, <3>5
  <2> QED  BY <2>2, <2>6 DEF Edges
<1> QED  BY <1>6, <1>7 DEF EndsWith

(* What one zone has for a name that both own for name servers, the other   *)
(* one has too.                                                             *)
LEMMA ServersInBoth ==
  ASSUME NEW a, NEW b, NEW lines, IsOf(a, lines), IsOf(b, lines), ~IsArpa(b),
         \A l \in Read : InFull(l),
         NEW r \in RecordsOf(a), NEW told, told = Told(a, r), told.type = "NS",
         Owns(a, "NS", told.labels), Owns(b, "NS", told.labels)
  PROVE  \E q \in RecordsOf(b) : q.name = Hostname(b, told.labels) /\ Told(b, q) = told
<1>0. PICK labels : labels = r.name \o a.name
  OBVIOUS
<1> /\ told.labels = labels /\ r.type = "NS" /\ told.values = r.values
    /\ told = [labels |-> labels, type |-> "NS", values |-> r.values]
  BY <1>0 DEF Told
<1>1. PICK y \in AllYielded(a, lines) :
        /\ r.type = y.type /\ r.name \o a.name = y.labels
        /\ r.values = Collected(a, lines, y.type, y.labels)
  BY RecordIs
<1>2. ~IsArpa(a)
  BY <1>1, ArpaYields
<1>3. y.value \in Collected(a, lines, y.type, y.labels)
  BY DEF Collected, IsFor
<1>4. r.values = Servers(labels) /\ Servers(labels) # {}
  BY <1>0, <1>1, <1>2, <1>3, ServersCollected
<1>5. PICK q \in RecordsOf(b) :
        /\ q.type = "NS" /\ q.name = Hostname(b, labels) /\ q.name \o b.name = labels
        /\ q.values = Servers(labels)
  BY <1>4, ServersRecorded
<1> QED  BY <1>4, <1>5 DEF Told

LEMMA DelegationsOk == TinyInv => DelegationsAgree
<1> SUFFICES ASSUME TinyInv, NEW z \in TinyZones, NEW sub \in TinyZones, Known(z), Known(sub),
                    \A l \in Read : InFull(l), IsUnder(sub.name, z.name),
                    IsArpa(sub) => IsArpa(z)
             PROVE  Overlap(z, sub) = Delegations(sub)
  BY DEF DelegationsAgree
<1>1. PICK lines : IsOf(z, lines) /\ IsOf(sub, lines)
  BY OfLines
<1>2. IsName(z.name) /\ IsName(sub.name)
  BY TinyNamesAssumption
<1>3. IsArpa(z) => IsArpa(sub)
  <2>1. IsName(InAddr) /\ IsName(Ip6)
    BY ShortNames DEF InAddr, Ip6
  <2> QED  BY <1>2, <2>1, UnderUnder DEF IsArpa, EndsWith
<1>4. ASSUME NEW r \in RecordsOf(z), EndsWith(r.name \o z.name, sub.name)
      PROVE  Told(z, r) \in Delegations(sub)
  <2>0. PICK told : told = Told(z, r)
    OBVIOUS
  <2>1. PICK y \in AllYielded(z, lines) :
          /\ told.type = y.type /\ told.labels = y.labels
          /\ IsName(y.labels) /\ Owns(z, y.type, y.labels)
    BY <1>1, <2>0, RecordIs DEF Told
  <2>2. EndsWith(told.labels, sub.name)
    BY <1>4, <2>0 DEF Told
  <2>3. told.type = "NS" /\ told.labels \in Edges(sub)
    BY <2>1, <2>2, OnlyTheEdges
  <2>4. PICK s \in {Apex} \cup sub.sub_zones : told.labels = s \o sub.name
    BY <2>3 DEF Edges
  <2>5. /\ Owns(z, "NS", told.labels) /\ Owns(sub, "NS", told.labels)
        /\ Hostname(sub, told.labels) = s
    BY <2>4, EdgesAreOwned
  <2>6. ~IsArpa(sub)
    BY <1>1, <2>1, <2>3, ArpaYields
  <2>7. PICK q \in RecordsOf(sub) : q.name = s /\ Told(sub, q) = told
    BY <1>1, <2>0, <2>3, <2>5, <2>6, ServersInBoth
  <2>8. q.type = "NS"
    BY <2>3, <2>7 DEF Told
  <2> QED  BY <2>0, <2>7, <2>8 DEF Delegations
<1>5. ASSUME NEW r \in RecordsOf(sub), r.type = "NS", r.name \in {Apex} \cup sub.sub_zones
      PROVE  Told(sub, r) \in Overlap(z, sub)
  <2>0. PICK told : told = Told(sub, r)
    OBVIOUS
  <2>1. told.type = "NS"
    BY <1>5, <2>0 DEF Told
  <2>2. /\ Owns(z, "NS", told.labels) /\ Owns(sub, "NS", told.labels)
        /\ EndsWith(told.labels, sub.name)
    <3>1. told.labels = r.name \o sub.name
      BY <2>0 DEF Told
    <3> QED  BY <1>5, <3>1, EdgesAreOwned
  <2>3. PICK y \in AllYielded(sub, lines) : r.type = y.type
    BY <1>1, RecordIs
  <2>4. ~IsArpa(z)
    BY <1>1, <1>3, <1>5, <2>3, ArpaYields
  <2>5. PICK q \in RecordsOf(z) : Told(z, q) = told
    BY <1>1, <2>0, <2>1, <2>2, <2>4, ServersInBoth
  <2>6. told.labels = q.name \o z.name
    BY <2>5 DEF Told
  <2> QED  BY <2>0, <2>2, <2>5, <2>6 DEF Overlap
<1> QED  BY <1>4, <1>5 DEF Overlap, Delegations

(* A zone has nothing at and below the name of a zone below it, directly or *)
(* not, but the name servers that this zone has for itself and for the      *)
(* zones below it in turn.                                                  *)
THEOREM DelegationsMatch == TinySpec => []DelegationsAgree
  BY TinyWorks, DelegationsOk, PTL
=============================================================================
