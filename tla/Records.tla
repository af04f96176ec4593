------------------------------ MODULE Records ------------------------------
(***************************************************************************)
(* Record names, record identity and sets of records: the vocabulary that  *)
(* the other modules share.  A name is the sequence of its labels relative *)
(* to the zone, leftmost label first (a.sub is <<"a", "sub">>, the apex is *)
(* the empty sequence), so that ".endswith('.' + zone)" is a comparison of *)
(* label sequences.  A record is a record value with at least the fields   *)
(* name and type; everything else it carries is left to the module that    *)
(* looks at it.                                                            *)
(***************************************************************************)
EXTENDS Naturals, FiniteSets, Sequences

Apex == << >>

(* name lies strictly below sub_zone: name.endswith('.' + sub_zone) *)
IsUnder(name, sub_zone) ==
  \E i \in 2 .. Len(name) + 1 : SubSeq(name, i, Len(name)) = sub_zone

(* Record.__eq__ and __hash__: a record is identified by (name, _type)     *)
(* alone, neither by its values nor by the zone it is in.                  *)
SameRecord(r, s) == r.name = s.name /\ r.type = s.type

(* `record in node` and `node.discard(record)` *)
HasSame(records, r) == \E s \in records : SameRecord(s, r)
Discard(records, r) == {s \in records : ~SameRecord(s, r)}

(* add_record(replace=True) on a set of records *)
WithRecord(records, r) == Discard(records, r) \cup {r}

(* No two records of the set have the same name and type. *)
IsKeyed(records) == \A r, s \in records : SameRecord(r, s) => r = s

(* The NS record of the apex, as a set with at most that one element. *)
IsRootNs(r) == r.type = "NS" /\ r.name = Apex
RootNsIn(records) == {r \in records : IsRootNs(r)}
=============================================================================
