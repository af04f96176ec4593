----------------------------- MODULE YamlFiles -----------------------------
(***************************************************************************)
(* YamlProvider as the target of one zone, file by file: where a zone is   *)
(* read from (its zone file, the files of its split directory, a shared    *)
(* file), how the files are put together, and _apply, which writes one     *)
(* file after the other, each by truncating it first and dumping the text  *)
(* through a buffer then, and may fail or be killed at any point, also in  *)
(* the middle of a file.  What a plan consists of is Target's; here a plan *)
(* leads to the desired records.                                           *)
(*                                                                         *)
(* A record is [name, value]; with one type to a name, the name stands for *)
(* a record's identity.  A path has the fields kind ("zone", "split" or    *)
(* "shared"), form ("utf8" or "idna", how the zone is spelled in it) and   *)
(* name (the record's, or CatchAll).                                       *)
(***************************************************************************)
EXTENDS Naturals, Sequences, FiniteSets

CONSTANTS
  Name,           \* names of records
  CatchAllNames,  \* CATCHALL_RECORD_NAMES: the apex and the wildcard
  CatchAll,       \* stands for $zone in the name of a file
  Slashed,        \* names that cannot be names of files
  Value,          \* what the records of a name may be
  Forms,          \* {"utf8", "idna"}, or {"utf8"} for a name in ASCII
  Options,        \* configurations of the provider: split, catchall, zonefile,
                  \* shared, replace, ignore_missing (all boolean), and order,
                  \* the kinds of files in the order of their paths
  Directories,    \* contents that the directory may have at first, besides none
  MaxRuns         \* bound: runs, each of which may fail

Kinds == {"zone", "split", "shared"}
Shared == [kind |-> "shared", form |-> "utf8", name |-> CatchAll]
Path == [kind : {"zone"}, form : Forms, name : {CatchAll}] \cup
        [kind : {"split"}, form : Forms, name : Name \cup {CatchAll}] \cup {Shared}
Record == [name : Name, value : Value]
Keyed(records) == \A r, s \in records : r.name = s.name => r = s
Zones == {z \in SUBSET Record : Keyed(z)}
NoRecords == [p \in Path |-> {}]

ASSUME NamesAssumption ==
  /\ CatchAllNames \cup Slashed \subseteq Name
  /\ CatchAllNames \cap Slashed = {}
  /\ CatchAll \notin Name
ASSUME FormsAssumption == "utf8" \in Forms
ASSUME DirectoriesAssumption ==
  Directories \subseteq
    [files : [Path -> SUBSET Record], there : SUBSET Path, split : SUBSET Forms]
(* a provider that is a target reads what it writes *)
ASSUME OptionsAssumption ==
  \A o \in Options :
    /\ o.split \/ o.zonefile
    /\ o.order \in [1 .. 3 -> Kinds]
    /\ \A kind \in Kinds : \E i \in 1 .. 3 : o.order[i] = kind

VARIABLES
  opts,     \* the provider's options
  files,    \* what each file holds
  there,    \* the files that exist
  broken,   \* those of them with a text that cannot be loaded, as it was cut off
  split,    \* the forms in which the split directory exists
  own,      \* the directory was empty, and the provider alone writes in it
  desired,  \* the zone that the sources have
  todo,     \* what _apply has yet to write: a function from paths
  opened,   \* the file that is open for writing, as a set
  result,   \* how the last run ended, or "running"
  runs      \* how many runs were started

vars ==
  <<opts, files, there, broken, split, own, desired, todo, opened, result, runs>>

-----------------------------------------------------------------------------
(* Reading: _split_sources, _zone_sources, populate *)

ZoneFiles == {p \in there : p.kind = "zone"}

(* both a UTF-8 and an IDNA file, or directory *)
Ambiguous ==
  \/ opts.split /\ Cardinality(split) > 1
  \/ opts.zonefile /\ Cardinality(ZoneFiles) > 1

Sources ==
  {p \in there :
     \/ p.kind = "split" /\ opts.split
     \/ p.kind = "zone" /\ opts.zonefile
     \/ p.kind = "shared" /\ opts.shared}

Rank(kind) == CHOOSE i \in DOMAIN opts.order : opts.order[i] = kind

(* whether p is read after q.  In a split directory $... and * come before  *)
(* the other names.                                                         *)
ReadAfter(p, q) ==
  \/ Rank(p.kind) > Rank(q.kind)
  \/ /\ p.kind = q.kind
     /\ \/ q.name = CatchAll /\ p.name # CatchAll
        \/ q.name \in CatchAllNames /\ p.name \notin CatchAllNames \cup {CatchAll}

Named(path, name) == {r \in files[path] : r.name = name}

(* A second record of a name raises, unless records are replaced. *)
Clashes ==
  ~opts.replace /\ \E p, q \in Sources : \E n \in Name :
    p # q /\ Named(p, n) # {} /\ Named(q, n) # {}

Shown ==
  UNION {{r \in files[p] : ~\E q \in Sources : ReadAfter(q, p) /\ Named(q, r.name) # {}} :
           p \in Sources}

Raises(target) ==
  \/ Ambiguous
  \/ Clashes
  \/ Sources \cap broken # {}
  \/ opts.shared /\ Shared \notin there
  \/ Sources = {} /\ ~target /\ ~opts.ignore_missing

(* list_zones, for this zone *)
IsListed == (opts.split /\ split # {}) \/ (opts.zonefile /\ ZoneFiles # {})

-----------------------------------------------------------------------------
(* Writing: _apply.  It writes the UTF-8 form. *)

PathOf(kind, name) == [kind |-> kind, form |-> "utf8", name |-> name]
AtName(records, name) == {r \in records : r.name = name}
Caught(records) == {r \in records : opts.catchall /\ r.name \in CatchAllNames}

(* Mistake: what goes to the catch-all file is written to its own as well. *)
SplitFilesTwice(records) ==
  {[path |-> PathOf("split", n), holds |-> AtName(records, n)] :
     n \in {r.name : r \in records}} \cup
  {[path |-> PathOf("split", CatchAll), holds |-> c] :
     c \in {Caught(records)} \ {{}}}

SplitFiles(records) ==
  {[path |-> PathOf("split", n), holds |-> AtName(records, n)] :
     n \in {r.name : r \in records \ Caught(records)}} \cup
  {[path |-> PathOf("split", CatchAll), holds |-> c] :
     c \in {Caught(records)} \ {{}}}

(* Mistake: only what differs from what is shown is written. *)
ToWriteChanged ==
  IF opts.split THEN SplitFiles(desired \ Shown)
  ELSE {[path |-> PathOf("zone", CatchAll), holds |-> desired \ Shown]}

(* the files that are written: all of the zone, changed or not *)
ToWrite ==
  IF opts.split THEN SplitFiles(desired)
  ELSE {[path |-> PathOf("zone", CatchAll), holds |-> desired]}

Idle == result # "running"

StartRun ==
  /\ Idle
  /\ runs < MaxRuns
  /\ runs' = runs + 1
  /\ IF Raises(TRUE)
       THEN result' = "unreadable" /\ UNCHANGED <<todo, split>>
     ELSE IF Shown = desired
       THEN result' = "clean" /\ UNCHANGED <<todo, split>>
     ELSE /\ result' = "running"
          /\ todo' = ToWrite
          /\ split' = IF opts.split THEN split \cup {"utf8"} ELSE split
  /\ UNCHANGED <<opts, files, there, broken, own, desired, opened>>

(* The catch-all file comes last, the others in the order of their names. *)
IsNext(f) ==
  /\ f \in todo
  /\ f.path.kind = "split" /\ f.path.name = CatchAll => todo = {f}

(* open() truncates the file. *)
Open ==
  /\ ~Idle
  /\ opened = {}
  /\ \E f \in {g \in todo : IsNext(g) /\ g.path.name \notin Slashed} :
       /\ opened' = {f}
       /\ files' = [files EXCEPT ![f.path] = {}]
       /\ there' = there \cup {f.path}
       /\ broken' = broken \ {f.path}
  /\ UNCHANGED <<opts, split, own, desired, todo, result, runs>>

(* open() raises for a name with a slash. *)
OpenFails ==
  /\ ~Idle
  /\ opened = {}
  /\ \E f \in todo : IsNext(f) /\ f.path.name \in Slashed
  /\ todo' = {}
  /\ result' = "failed"
  /\ UNCHANGED <<opts, files, there, broken, split, own, desired, opened, runs>>

(* What a text that was cut off is read as, if it can be loaded: of its     *)
(* records some, the last of which may have lost a part of its value.       *)
CutOff(records) ==
  {{}} \cup UNION {SUBSET ((records \ {r}) \cup {[r EXCEPT !.value = v]}) :
                     r \in records, v \in Value}

(* safe_dump: a part of the text has reached the disk.  It cannot be loaded *)
(* if it ends in a name, or before a record has its type and a value.       *)
Flush ==
  /\ ~Idle
  /\ \E f \in opened :
       \/ /\ \E part \in CutOff(f.holds) : files' = [files EXCEPT ![f.path] = part]
          /\ broken' = broken \ {f.path}
       \/ /\ files' = [files EXCEPT ![f.path] = {}]
          /\ broken' = broken \cup {f.path}
  /\ UNCHANGED <<opts, there, split, own, desired, todo, opened, result, runs>>

(* The rest of the text, when the file is closed *)
Write ==
  /\ ~Idle
  /\ \E f \in opened :
       /\ files' = [files EXCEPT ![f.path] = f.holds]
       /\ broken' = broken \ {f.path}
       /\ todo' = todo \ {f}
  /\ opened' = {}
  /\ UNCHANGED <<opts, there, split, own, desired, result, runs>>

Finish ==
  /\ ~Idle
  /\ todo = {}
  /\ result' = "written"
  /\ UNCHANGED <<opts, files, there, broken, split, own, desired, todo, opened, runs>>

-----------------------------------------------------------------------------
(* The disk is full, or the process is killed: what has reached the disk    *)
(* stays.                                                                   *)
Crash ==
  /\ ~Idle
  /\ todo' = {}
  /\ opened' = {}
  /\ result' = "failed"
  /\ UNCHANGED <<opts, files, there, broken, split, own, desired, runs>>

(* Somebody removes a file that cannot be loaded; no run does. *)
Mend ==
  /\ Idle
  /\ \E p \in broken :
       /\ files' = [files EXCEPT ![p] = {}]
       /\ there' = there \ {p}
       /\ broken' = broken \ {p}
  /\ result' = "none"
  /\ UNCHANGED <<opts, split, own, desired, todo, opened, runs>>

EditSources ==
  /\ Idle
  /\ runs < MaxRuns
  /\ desired' \in Zones \ {desired}
  /\ result' = "none"
  /\ UNCHANGED <<opts, files, there, broken, split, own, todo, opened, runs>>

Init ==
  /\ opts \in Options
  /\ \/ /\ files = NoRecords /\ there = {} /\ split = {}
        /\ own = ~opts.shared
     \/ \E d \in Directories :
          /\ files = d.files /\ there = d.there /\ split = d.split
          /\ own = FALSE
  /\ broken = {}
  /\ desired \in Zones
  /\ todo = {}
  /\ opened = {}
  /\ result = "none"
  /\ runs = 0

Next ==
  \/ StartRun \/ Open \/ OpenFails \/ Flush \/ Write \/ Finish
  \/ Crash \/ Mend \/ EditSources

Spec == Init /\ [][Next]_vars

-----------------------------------------------------------------------------
(* Properties *)

(* A directory that the provider alone has written stays in a state that    *)
(* one removal makes readable: wherever the writes of whichever runs were   *)
(* interrupted, no record is in two files and no second form of the zone is *)
(* there, and the text of one file at most cannot be loaded, that in which  *)
(* the last write stopped.  (While it is there every run raises.)           *)
OneFileToMend ==
  own /\ Raises(TRUE) =>
    \E p \in Sources : broken = {p} /\ ~Ambiguous /\ ~Clashes

(* When a run ends well, after whichever failures before it, the provider   *)
(* shows the zone that was desired and lists it: files that a crash left    *)
(* empty or with a part of their records are written again, and the names   *)
(* that share a file keep each other's records.  A split directory keeps    *)
(* the files of names that have no records any more, whose records are      *)
(* shown on.                                                                *)
ReadsBack ==
  own /\ result \in {"written", "clean"} =>
    /\ desired \subseteq Shown
    /\ desired # {} => IsListed /\ ~Raises(FALSE)
    /\ \A r \in Shown \ desired :
         /\ opts.split
         /\ AtName(desired, r.name) = {}
=============================================================================
