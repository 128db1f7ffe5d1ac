---------------------------- MODULE CommandSession ----------------------------
(***************************************************************************)
(* What a user of the command line relies on: the commands take effect in  *)
(* the order they are typed, one after the other, each in a state that     *)
(* admits it; after a command that ends the session none takes effect, and *)
(* the session leaves the database shut down.  Threads, the queue of jobs  *)
(* and the futures are invisible here.                                     *)
(***************************************************************************)
EXTENDS Naturals, Sequences

VARIABLES
  log,      (* the commands that took effect, with their results *)
  up,       (* the database is running                           *)
  ended     (* the session has ended as it should                *)

vars == <<log, up, ended>>

Init == log = <<>> /\ up = FALSE /\ ended = FALSE

Admits(c) ==
  IF up THEN c \in {"shutdown", "help", "work", "exit"}
        ELSE c \in {"install", "boot", "help", "exit"}

(* A result after which the session goes on.                                *)
GoesOn(r) == r \in {"CONTINUE", "WRONG"}

Do(c, r) ==
  /\ ~ended /\ \A n \in DOMAIN log : GoesOn(log[n].result)
  /\ Admits(c)
  /\ log' = Append(log, [com |-> c, result |-> r])
  /\ up' # up => c \in {"install", "boot", "shutdown", "exit"}
  /\ r = "EXIT" => ~up'
  /\ UNCHANGED ended

End ==
  /\ ~ended /\ ended' = TRUE
  /\ up' = FALSE
  /\ UNCHANGED log

Next ==
  \/ End
  \/ \E c \in {"install", "boot", "shutdown", "help", "work", "exit"},
        r \in {"CONTINUE", "WRONG", "UNKNOWN_ERROR", "EXIT", "exception"} : Do(c, r)

Spec == Init /\ [][Next]_vars
=============================================================================
