---- MODULE MCDaemon ----
(***************************************************************************)
(* Daemon for TLC: configurations that differ in what a reload may change, *)
(* and two that are of no use: one that does not load, and one whose       *)
(* script parses but does not run.                                         *)
(***************************************************************************)
EXTENDS Daemon

Config(path, port, file) ==
    [loads |-> TRUE, parses |-> TRUE, builds |-> TRUE, root |-> path, port |-> port,
     pidfile |-> file]

MCFirst == Config(<<"srv">>, 69, "old")

MCConfigs ==
    {MCFirst,
     Config(<<"srv", "tftp">>, 6969, "new"),
     [MCFirst EXCEPT !.builds = FALSE],
     [MCFirst EXCEPT !.builds = FALSE, !.parses = FALSE, !.loads = FALSE]}
====
