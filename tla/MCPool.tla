------------------------------- MODULE MCPool -------------------------------
(* The instance of ThreadPool that TLC checks: the command line submits one *)
(* job at a time, a second client lets the queue grow.                      *)
EXTENDS ThreadPool

CONSTANTS w1, w2, w3, c1, c2
=============================================================================
