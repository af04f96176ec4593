---------------------------- MODULE MCYamlFiles ----------------------------
(* A zone of four names, for TLC. *)
EXTENDS YamlFiles

MCName == {"", "*", "www", "0/25"}
Opts(sp, ca, zf, sh, rp, order) ==
  [split |-> sp, catchall |-> ca, zonefile |-> zf, shared |-> sh, replace |-> rp,
   ignore_missing |-> FALSE, order |-> order]

(* the default, SplitYamlProvider, both with files by zone and a shared file *)
MCOptions ==
  { Opts(FALSE, TRUE, TRUE, FALSE, FALSE, <<"split", "zone", "shared">>),
    Opts(TRUE, TRUE, FALSE, FALSE, FALSE, <<"split", "zone", "shared">>),
    Opts(TRUE, FALSE, TRUE, FALSE, FALSE, <<"zone", "split", "shared">>),
    Opts(TRUE, TRUE, TRUE, TRUE, TRUE, <<"shared", "split", "zone">>) }

R(name) == [name |-> name, value |-> 1]
Holding(path, records, sp) ==
  [files |-> [NoRecords EXCEPT ![path] = records], there |-> {path}, split |-> sp]

(* a zone file in its IDNA spelling, a zone file beside a split directory,  *)
(* a shared file                                                            *)
MCDirectories ==
  { Holding([kind |-> "zone", form |-> "idna", name |-> CatchAll], {R("www")}, {}),
    Holding(PathOf("zone", CatchAll), {R("www"), R("")}, {"utf8"}),
    Holding(Shared, {R("*")}, {"idna"}) }
=============================================================================
