------------------------------ MODULE JobService ------------------------------
(***************************************************************************)
(* What a client of the thread pool relies on: a job it submitted is       *)
(* started once, in the order of submission, and answered once it has run. *)
(* Workers, the mutex of the queue and its waiters are invisible here.     *)
(***************************************************************************)
EXTENDS Sequences

CONSTANT Jobs

VARIABLES
  pending,     (* jobs submitted and not started, oldest first *)
  running,     (* jobs being executed                          *)
  answered     (* jobs whose future is ready                   *)

vars == <<pending, running, answered>>

Init == pending = <<>> /\ running = {} /\ answered = {}

Fresh(j) ==
  /\ \A i \in DOMAIN pending : pending[i] # j
  /\ j \notin running \cup answered

Submit(j) ==
  /\ Fresh(j)
  /\ pending' = Append(pending, j)
  /\ UNCHANGED <<running, answered>>

Start ==
  /\ pending # <<>>
  /\ running' = running \cup {Head(pending)}
  /\ pending' = Tail(pending)
  /\ UNCHANGED answered

Finish(j) ==
  /\ j \in running
  /\ running' = running \ {j}
  /\ answered' = answered \cup {j}
  /\ UNCHANGED pending

Next == Start \/ \E j \in Jobs : Submit(j) \/ Finish(j)

Spec == Init /\ [][Next]_vars
=============================================================================
