--------------------------- MODULE MCCommandLine ----------------------------
(* Instances of CommandLine for TLC.                                       *)
EXTENDS CommandLine
=============================================================================
