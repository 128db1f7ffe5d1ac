---------------------------- MODULE MCCommandLine ----------------------------
(* The instances of CommandLine that TLC checks.                            *)
EXTENDS CommandLine

CONSTANTS w1, w2, main
=============================================================================
