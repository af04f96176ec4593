----------------------------- MODULE MCTarget -----------------------------
(* A zone of a few records on one target, for TLC. *)
EXTENDS Target

Rec(name, type, value, ignored, excluded) ==
  [name |-> name, type |-> type, value |-> value,
   ignored |-> ignored, included |-> {}, excluded |-> excluded]

Www == <<"www">>

(* value "wide" is one that the target has to reduce, to "plain" *)
MCFits(value) == value # "wide"
MCReduced(value) == "plain"
MCReads(value) == value
AllFit(value) == TRUE

RootNsRecords ==
  {Rec(Apex, "NS", "plain", FALSE, {}), Rec(Apex, "NS", "other", FALSE, {})}
WwwRecords ==
  { Rec(Www, "A", "plain", FALSE, {}), Rec(Www, "A", "other", FALSE, {}),
    Rec(Www, "A", "plain", TRUE, {}),
    Rec(Www, "CNAME", "plain", FALSE, {}),
    Rec(Www, "CNAME", "plain", FALSE, {"target"}) }
MailRecords ==
  {Rec(<<"mail">>, "A", v, FALSE, {}) : v \in {"plain", "other"}}
WideRecord == Rec(<<"mail">>, "A", "wide", FALSE, {})
OddRecord == Rec(<<"odd">>, "X", "plain", FALSE, {})

MCRecord == RootNsRecords \cup WwwRecords \cup MailRecords \cup {WideRecord, OddRecord}

Valid(zone) == IsKeyed(zone) /\ CnamesAlone(zone)
MCSourceZones == {z \in SUBSET MCRecord : Valid(z)}
MCLiveZones ==
  {z \in SUBSET (MCRecord \ {WideRecord}) :
     IsKeyed(z) /\ CnamesAlone({r \in z : Managed(r)})}
FileSourceZones ==
  {z \in SUBSET (RootNsRecords \cup WwwRecords \cup MailRecords) : Valid(z)}
=============================================================================
