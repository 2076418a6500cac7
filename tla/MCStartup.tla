----------------------------- MODULE MCStartup ------------------------------
(* An instance of Startup for TLC. *)
EXTENDS Startup, TLC

Op(write, gated, text, proxy) ==
  [write |-> write, gated |-> gated, text |-> text, proxy |-> proxy]

(* A documented read, an undocumented ungated write, a blank gated write   *)
(* and a write no proxy can be built for.                                  *)
MCOperations == {
  Op(FALSE, FALSE, "own", TRUE), Op(TRUE, FALSE, "absent", TRUE),
  Op(TRUE, TRUE, "blank", TRUE), Op(TRUE, FALSE, "own", FALSE)}

(* Host programs: every call that is refused outright, and every           *)
(* combination of the settings the later checks look at.                   *)
MCHostConfigs ==
  {[NoConfig EXCEPT !.shape = s] : s \in {"absent", "scalar", "direct"}}
  \cup {[NoConfig EXCEPT !.shape = s, !.spec = "blank"] : s \in {"mapping", "direct"}}
  \cup [shape : {"mapping"}, spec : {"location"}, prefix : {"absent", "empty", "given"},
        base : {TRUE}, ack : {"string"}, fresh : {FALSE}, other : BOOLEAN]
  \cup [shape : {"direct"}, spec : {"document"}, prefix : {"absent"},
        base : BOOLEAN, ack : {"true", "false", "string"}, fresh : BOOLEAN, other : {FALSE}]

(* A prefix only matters beside an extensions directory. *)
MCArguments == {a \in ArgumentSpace : a.ext \/ a.prefix = "absent"}

(* Every shape, every spec, with and without a prefix and a base URL.      *)
MCSections ==
  {NoSection}
  \cup {[NoSection EXCEPT !.shape = s] : s \in {"falsy", "scalar"}}
  \cup {[NoSection EXCEPT !.shape = "mapping", !.spec = s] :
          s \in {"absent", "empty", "blank", "location", "document"}}
  \cup [shape : {"mapping"}, spec : {"location"}, prefix : {"empty", "given"},
        base : {TRUE}, ack : {"string"}]
  \cup {[NoSection EXCEPT !.shape = "mapping", !.spec = "document", !.base = TRUE, !.ack = "true"]}

MCConfigs ==
  MCHostConfigs \cup {ConfigOf(g[1], g[2]) :
    g \in {g \in MCArguments \X MCSections : Configured(g[1], g[2])}}

Symmetry == Permutations(LegalIds)
=============================================================================
