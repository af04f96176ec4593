------------------------------ MODULE TinyDns ------------------------------
(***************************************************************************)
(* TinyDnsFileSource: zones populated from the lines of tinydns files.     *)
(*                                                                         *)
(* A line is of a kind, told by its symbol, and about a name; lines of one *)
(* symbol and one spelling of a name are a group.  A line yields values    *)
(* for records, some of them of other types or other names; its group has  *)
(* one TTL; and what several groups yield for a record is put together.    *)
(*                                                                         *)
(* A line has the fields symbol; name and host (of another host, and what  *)
(* any line about a pointer has second), each with its labels and whether  *)
(* it is written with its final dot; ip, or None; rest, the numbers or the *)
(* text that come with it; type, of the lines that name one; and ttl,      *)
(* NoTtl where the line is too short to have one and EmptyTtl where the    *)
(* field is there with nothing in it.                                      *)
(* A value is a sequence: the labels of a name, an address, numbers and    *)
(* labels.  Where the code collects lists, i and j are places of lines in  *)
(* the list that was read.  The model is of one run, and of one worker     *)
(* that populates its zones one after the other.                           *)
(***************************************************************************)
EXTENDS Records

CONSTANTS
  TinyZones,       \* records of name (its labels) and sub_zones (relative names)
  Line,            \* the lines that files may hold
  Added,           \* those of them that may be added while runs go on
  File,            \* the files of the directory
  InitialTexts,    \* what the files may hold to begin with
  MaxEdits,        \* bound: lines that are added while runs go on
  ReversePointer,  \* ReversePointer[ip]: the labels of its name below arpa
  Ignored,         \* 0.0.0.0
  Registered,      \* the record types that are registered
  SingleValue,     \* those of them whose records have one value
  Default,         \* default_ttl
  None, NoTtl, EmptyTtl

VARIABLES
  texts,    \* the lines of each file
  cache,    \* _cache: {} for None, or {what was read in the order of listdir}
  waiting,  \* the zones that have yet to be populated
  made,     \* made[z]: {its records}, {} for a populate that raised
  edits     \* lines that were added

tinyVars == <<texts, cache, waiting, made, edits>>

IsName(labels) == labels \in Seq({labels[i] : i \in DOMAIN labels})
ASSUME FilesAssumption ==
  /\ IsFiniteSet(File) /\ Added \subseteq Line
  /\ InitialTexts \subseteq [File -> Seq(Line)]
(* What a line of each symbol has *)
ASSUME LineAssumption ==
  \A l \in Line :
    /\ IsName(l.name.labels) /\ IsName(l.host.labels)
    /\ l.ip \in DOMAIN ReversePointer \cup {None}
    /\ l.symbol \in {"+", "3", "=", "6"} => l.ip # None
ASSUME TinyNamesAssumption ==
  /\ \A z \in TinyZones : IsName(z.name) /\ \A s \in z.sub_zones : IsName(s)
  /\ \A ip \in DOMAIN ReversePointer : IsName(ReversePointer[ip])
ASSUME MaxEditsAssumption == MaxEdits \in Nat

-----------------------------------------------------------------------------
(* Names *)

InAddr == <<"in-addr", "arpa">>
Ip6 == <<"ip6", "arpa">>
EndsWith(labels, name) == labels = name \/ IsUnder(labels, name)
IsArpa(zone) == EndsWith(zone.name, InAddr) \/ EndsWith(zone.name, Ip6)

Hostname(zone, labels) == SubSeq(labels, 1, Len(labels) - Len(zone.name))

(* The sub-zones of a zone are all the zones that are configured below it,  *)
(* so that those of a zone below it are among them.                         *)
ASSUME NestingAssumption ==
  \A z, sub \in TinyZones : IsUnder(sub.name, z.name) =>
    LET host == Hostname(z, sub.name)
    IN  /\ host \in z.sub_zones
        /\ {s \o host : s \in sub.sub_zones} = {s \in z.sub_zones : IsUnder(s, host)}

(* Mistake: the name of a sub-zone is the sub-zone's for name servers too. *)
OwnsNoEdge(zone, type, labels) ==
  \/ labels = zone.name
  \/ /\ IsUnder(labels, zone.name)
     /\ \A s \in zone.sub_zones : ~EndsWith(Hostname(zone, labels), s)

(* Zone.owns.  The name of a sub-zone is the zone's for name servers, also  *)
(* if it is below another sub-zone.                                         *)
Owns(zone, type, labels) ==
  \/ labels = zone.name
  \/ /\ IsUnder(labels, zone.name)
     /\ IF Hostname(zone, labels) \in zone.sub_zones THEN type = "NS"
        ELSE \A s \in zone.sub_zones : ~IsUnder(Hostname(zone, labels), s)

(* A host without any dot is one below the zone that is populated. *)
Qualified(zone, host, label) ==
  IF Len(host.labels) = 1 /\ ~host.dot THEN host.labels \o <<label>> \o zone.name
  ELSE host.labels

(* A ^ line is a PTR record as it stands if its name looks like one; the    *)
(* dot at the end is compared too.                                          *)
IsPointer(name) ==
  \/ ~name.dot /\ EndsWith(name.labels, InAddr)
  \/ name.dot /\ EndsWith(name.labels, Ip6)

-----------------------------------------------------------------------------
(* What a line yields: values, each for the record of a type and name *)

Yield(type, labels, value) == [type |-> type, labels |-> labels, value |-> value]

IfOwned(zone, type, l, yields) ==
  IF ~IsArpa(zone) /\ Owns(zone, type, l.name.labels) THEN yields ELSE {}

(* A host may come with its address. *)
WithHost(zone, l, type, label) ==
  LET host == Qualified(zone, l.host, label)
      glue == IF l.ip # None /\ Owns(zone, "A", host)
              THEN {Yield("A", host, <<l.ip>>)} ELSE {}
  IN  IfOwned(zone, type, l, glue \cup {Yield(type, l.name.labels, l.rest \o host)})

ForAt(zone, l) == WithHost(zone, l, "MX", "mx")
ForDot(zone, l) == WithHost(zone, l, "NS", "ns")
ForS(zone, l) == WithHost(zone, l, "SRV", "srv")
ForC(zone, l) == IfOwned(zone, "CNAME", l, {Yield("CNAME", l.name.labels, l.host.labels)})
ForQuote(zone, l) == IfOwned(zone, "TXT", l, {Yield("TXT", l.name.labels, l.rest)})
ForThree(zone, l) == IfOwned(zone, "AAAA", l, {Yield("AAAA", l.name.labels, <<l.ip>>)})
ForPlus(zone, l) ==
  IF l.ip = Ignored THEN {} ELSE IfOwned(zone, "A", l, {Yield("A", l.name.labels, <<l.ip>>)})
ForColon(zone, l) ==
  IF l.type \notin Registered THEN {}
  ELSE IfOwned(zone, "SRV", l, {Yield(l.type, l.name.labels, l.rest)})

(* PTR records of whatever names the lines make *)
Pointed(l) == IF IsPointer(l.name) THEN l.name.labels ELSE ReversePointer[l.ip]
Pointee(l) == IF IsPointer(l.name) THEN l.host.labels ELSE l.name.labels
ForCaret(zone, l) ==
  IF IsArpa(zone) /\ Owns(zone, "PTR", Pointed(l))
    THEN {Yield("PTR", Pointed(l), Pointee(l))} ELSE {}
ForEqual(zone, l) == IF IsArpa(zone) THEN ForCaret(zone, l) ELSE ForPlus(zone, l)
ForSix(zone, l) == IF IsArpa(zone) THEN ForCaret(zone, l) ELSE ForThree(zone, l)

(* SYMBOL_MAP *)
Yields(zone, l) ==
  CASE l.symbol = "=" -> ForEqual(zone, l)
    [] l.symbol = "^" -> ForCaret(zone, l)
    [] l.symbol \in {".", "&"} -> ForDot(zone, l)
    [] l.symbol = "C" -> ForC(zone, l)
    [] l.symbol = "+" -> ForPlus(zone, l)
    [] l.symbol = "@" -> ForAt(zone, l)
    [] l.symbol = "'" -> ForQuote(zone, l)
    [] l.symbol = "3" -> ForThree(zone, l)
    [] l.symbol = "S" -> ForS(zone, l)
    [] l.symbol = ":" -> ForColon(zone, l)
    [] l.symbol = "6" -> ForSix(zone, l)
    [] OTHER -> {}

-----------------------------------------------------------------------------
(* _process_lines and _process_symbols: groups, in the order of the dict *)

First(places) == CHOOSE i \in places : \A j \in places : i <= j

OfSymbol(lines, i) == {j \in DOMAIN lines : lines[j].symbol = lines[i].symbol}
Group(lines, i) == {j \in OfSymbol(lines, i) : lines[j].name = lines[i].name}

(* The group of the line at i comes before that of the one at j. *)
IsBefore(lines, i, j) ==
  LET a == First(OfSymbol(lines, i))
      b == First(OfSymbol(lines, j))
  IN  a < b \/ (a = b /\ First(Group(lines, i)) < First(Group(lines, j)))

(* Of several C lines about a name the first one counts. *)
Yielded(zone, lines, i) ==
  IF lines[i].symbol = "C" /\ First(Group(lines, i)) # i THEN {} ELSE Yields(zone, lines[i])
AllYielded(zone, lines) == UNION {Yielded(zone, lines, i) : i \in DOMAIN lines}

(* _ttl_for: of a group the first line with a TTL says it.  ":" lines are   *)
(* grouped by the type that they name once more.                            *)
TtlFor(lines, i) ==
  LET timed == {j \in Group(lines, i) :
                  /\ lines[j].ttl # NoTtl
                  /\ lines[i].symbol = ":" => lines[j].type = lines[i].type}
  IN  IF timed = {} THEN Default ELSE lines[First(timed)].ttl

(* A TTL that is empty makes int() raise, and so does what is no address,   *)
(* the latter and that of "^" lines in every zone below arpa, whichever     *)
(* owns the name.                                                           *)
CaretRaises(lines, i) ==
  \/ TtlFor(lines, i) = EmptyTtl
  \/ ~IsPointer(lines[i].name) /\ lines[i].ip = None
LinesRaise(zone, lines) ==
  \E i \in DOMAIN lines :
    \/ IsArpa(zone) /\ lines[i].symbol \in {"^", "=", "6"} /\ CaretRaises(lines, i)
    \/ TtlFor(lines, i) = EmptyTtl /\ Yielded(zone, lines, i) # {}

IsFor(y, type, labels) == y.type = type /\ y.labels = labels

(* The places of the lines whose groups have a TTL of their own for a record*)
Timing(zone, lines, type, labels) ==
  {i \in DOMAIN lines :
     TtlFor(lines, i) # Default /\ \E y \in Yielded(zone, lines, i) : IsFor(y, type, labels)}

(* Its TTL: whichever of these groups comes last says it *)
CollectedTtl(zone, lines, type, labels) ==
  LET own == Timing(zone, lines, type, labels)
  IN  IF own = {} THEN Default
      ELSE TtlFor(lines, CHOOSE i \in own : \A j \in own : ~IsBefore(lines, i, j))

(* Mistake: the values of a later group take the place of the earlier ones. *)
CollectedLast(zone, lines, type, labels) ==
  LET telling == {i \in DOMAIN lines : \E y \in Yielded(zone, lines, i) : IsFor(y, type, labels)}
      last == {i \in telling : \A j \in telling : ~IsBefore(lines, i, j)}
  IN  UNION {{y.value : y \in {y \in Yielded(zone, lines, i) : IsFor(y, type, labels)}} : i \in last}

(* The values of a record, those of all groups *)
Collected(zone, lines, type, labels) ==
  {y.value : y \in {y \in AllYielded(zone, lines) : IsFor(y, type, labels)}}

Made(zone, lines) ==
  {[name |-> Hostname(zone, y.labels), type |-> y.type,
    ttl |-> CollectedTtl(zone, lines, y.type, y.labels),
    values |-> Collected(zone, lines, y.type, y.labels)] : y \in AllYielded(zone, lines)}

(* A type with one value is refused the list of several, equal ones too. *)
Refused(zone, lines) ==
  \E i, j \in DOMAIN lines :
    /\ i # j
    /\ \E x \in Yielded(zone, lines, i), y \in Yielded(zone, lines, j) :
         x.type \in SingleValue /\ IsFor(y, x.type, x.labels)

(* populate: {its records}, or {} if it raises *)
Populated(zone, lines) ==
  IF LinesRaise(zone, lines) \/ Refused(zone, lines) THEN {} ELSE {Made(zone, lines)}

-----------------------------------------------------------------------------
(* The source *)

Orders == {o \in [1 .. Cardinality(File) -> File] : {o[i] : i \in DOMAIN o} = File}
Listed(order) ==
  LET read[i \in 0 .. Len(order)] ==
        IF i = 0 THEN << >> ELSE read[i - 1] \o texts[order[i]]
  IN  read[Len(order)]

(* Mistake: the files are read for every zone. *)
Reread == {Listed(o) : o \in Orders}

(* _lines: read once, in any order, as listdir has it *)
Lines == IF cache = {} THEN {Listed(o) : o \in Orders} ELSE cache

Populate(zone) ==
  /\ zone \in waiting
  /\ waiting' = waiting \ {zone}
  /\ \E read \in Lines :
       /\ cache' = {read}
       /\ made' = [made EXCEPT ![zone] = Populated(zone, read)]
  /\ UNCHANGED <<texts, edits>>

(* Somebody adds a line to a file. *)
Edit(file, line) ==
  /\ edits < MaxEdits
  /\ edits' = edits + 1
  /\ texts' = [texts EXCEPT ![file] = Append(@, line)]
  /\ UNCHANGED <<cache, waiting, made>>

TinyInit ==
  /\ texts \in InitialTexts
  /\ cache = {}
  /\ waiting = TinyZones
  /\ made = [z \in TinyZones |-> {}]
  /\ edits = 0

TinyNext ==
  \/ \E z \in TinyZones : Populate(z)
  \/ \E f \in File, l \in Added : Edit(f, l)

TinySpec == TinyInit /\ [][TinyNext]_tinyVars

-----------------------------------------------------------------------------
(* Properties *)

Known(zone) == made[zone] # {}
RecordsOf(zone) == UNION made[zone]
Read == UNION {{lines[i] : i \in DOMAIN lines} : lines \in cache}
Holds(zone, labels, type, value) ==
  \E r \in RecordsOf(zone) :
     r.name \o zone.name = labels /\ r.type = type /\ value \in r.values

(* The zones of a run tell one story of the addresses, though its files may *)
(* change while it goes on: what "=" and "6" lines say is in the zone with  *)
(* the name and in the zone below arpa, and a PTR record of the one points  *)
(* to an address of the other, but for those of "^" lines and 0.0.0.0, and  *)
(* those of lines about names that look like pointers.                      *)
IsPtr(line) == line.symbol = "^" \/ IsPointer(line.name)
AddressType(line) == IF line.symbol = "=" THEN "A" ELSE "AAAA"
BothWays ==
  \A f, a \in TinyZones : Known(f) /\ Known(a) /\ ~IsArpa(f) /\ IsArpa(a) =>
    /\ \A l \in {l \in Read : l.symbol \in {"=", "6"} /\ ~IsPtr(l) /\ l.ip # Ignored} :
         Owns(f, AddressType(l), l.name.labels) /\ Owns(a, "PTR", ReversePointer[l.ip]) =>
           /\ Holds(f, l.name.labels, AddressType(l), <<l.ip>>)
           /\ Holds(a, ReversePointer[l.ip], "PTR", l.name.labels)
    /\ \A r \in RecordsOf(a) : \A host \in r.values :
         r.type = "PTR" /\ Owns(f, "A", host) =>
           \/ \E ip \in DOMAIN ReversePointer :
                /\ ReversePointer[ip] = r.name \o a.name
                /\ ip = Ignored \/ \E type \in {"A", "AAAA"} : Holds(f, host, type, <<ip>>)
           \/ \E l \in Read :
                IsPtr(l) /\ Pointed(l) = r.name \o a.name /\ Pointee(l) = host

(* The order that listdir has the files in decides no more than TTLs and    *)
(* which of several C lines counts: the names, the types and the values of  *)
(* the records are the same, where no line makes populate raise.            *)
Contents(records) ==
  {[name |-> r.name, type |-> r.type, values |-> r.values] :
     r \in {r \in records : r.type # "CNAME"}}
AnyOrder ==
  cache = {} => \A z \in TinyZones, o, p \in Orders :
    \A s \in Populated(z, Listed(o)), t \in Populated(z, Listed(p)) :
      Contents(s) = Contents(t)

(* A zone and a zone below it, at whatever depth, populated from the same   *)
(* lines, agree: what the upper one has at and below the name of the lower  *)
(* one are the name servers that the lower one has for itself and for the   *)
(* zones below it, and no more.  This is where the hosts of the lines are   *)
(* written with a dot and no ":" line is about name servers.  Not so        *)
(* between "arpa" itself and the zones below, for which the lines of name   *)
(* servers are skipped.                                                     *)
Told(zone, r) == [labels |-> r.name \o zone.name, type |-> r.type, values |-> r.values]
Overlap(zone, sub) ==
  {Told(zone, r) : r \in {r \in RecordsOf(zone) : EndsWith(r.name \o zone.name, sub.name)}}
Delegations(zone) ==
  {Told(zone, r) : r \in {r \in RecordsOf(zone) :
     r.type = "NS" /\ r.name \in {Apex} \cup zone.sub_zones}}
InFull(line) ==
  /\ line.symbol \in {".", "&", "@", "S"} => Len(line.host.labels) > 1 \/ line.host.dot
  /\ line.symbol = ":" => line.type # "NS"
DelegationsAgree ==
  \A z, sub \in TinyZones :
    /\ Known(z) /\ Known(sub) /\ \A l \in Read : InFull(l)
    /\ IsUnder(sub.name, z.name) /\ (IsArpa(sub) => IsArpa(z))
    => Overlap(z, sub) = Delegations(sub)

(* "first non-default wins": of the groups that have a TTL of their own for *)
(* a record the first one says it.                                          *)
FirstTtlWins ==
  \A z \in TinyZones : Known(z) =>
    \A lines \in cache, r \in RecordsOf(z) :
      LET own == Timing(z, lines, r.type, r.name \o z.name)
      IN  own # {} => \E i \in own : /\ \A j \in own : ~IsBefore(lines, j, i)
                                     /\ r.ttl = TtlFor(lines, i)
=============================================================================
