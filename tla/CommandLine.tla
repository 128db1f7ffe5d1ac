------------------------------ MODULE CommandLine ------------------------------
(***************************************************************************)
(* The command line: the thread of main reads a line, tests whether the    *)
(* database may run the command now, hands the command to the thread pool  *)
(* as a job with a pointer to its own arguments, and blocks on the future. *)
(* The command runs in a worker; its result, or its exception, decides how *)
(* the command line goes on.  The pool is a static object, constructed by  *)
(* the first submission and destroyed when main has returned.              *)
(*                                                                         *)
(* Lines that are empty, not a command, ask for help on a command or are   *)
(* refused print a text and change nothing.                                *)
(***************************************************************************)
EXTENDS ThreadPool

CONSTANTS
  Cli,            (* the thread of main                                     *)
  Failures        (* bound: "args", INSERT INTO without its two fixed       *)
                  (* arguments is typed; "store", a shutdown fails          *)

ASSUME CliAssumption ==
  /\ Clients = {Cli}
  /\ Failures \subseteq {"args", "store"}

Commands == {"install", "boot", "shutdown", "help", "work", "exit"}
Results  == {"CONTINUE", "WRONG", "UNKNOWN_ERROR", "EXIT", "exception"}
NoResult == "none"
CliPlaces == {"read", "submit", "wait", "leave", "main", "dead"}

VARIABLES
  cli,        (* where the thread of main is; "dead": std::terminate         *)
  script,     (* the commands it has read, oldest first                      *)
  running,    (* _running of the DatabaseInstanceManager                     *)
  result      (* per job: what its packaged_task has stored                  *)

cliVars == <<cli, script, running, result>>
allVars == <<vars, cliVars>>

Job(n)  == <<Cli, n>>
Current == Job(sent[Cli])          (* the job submitted last *)
Com(j)  == script[j[2]]

CInit ==
  /\ Init
  /\ cli = "read" /\ script = <<>> /\ running = FALSE
  /\ result = [j \in Jobs |-> NoResult]

-----------------------------------------------------------------------------
(* Mutant: INSTALL and BOOT are not refused while the database runs.        *)
PassesAlways(c) == running \/ c \in {"install", "boot", "help", "exit"}

(* The test of runcli, in the thread of main.                               *)
Passes(c) ==
  IF running THEN c \notin {"install", "boot"}
             ELSE c \in {"install", "boot", "help", "exit"}

ReadCommand(c) ==
  /\ cli = "read" /\ Passes(c)
  /\ Len(script) < MaxJobs
  /\ script' = Append(script, c)
  /\ cli' = "submit"
  /\ UNCHANGED <<vars, running, result>>

EndOfInput ==
  /\ cli = "read" /\ cli' = "leave"
  /\ UNCHANGED <<vars, script, running, result>>

(* The first submission constructs the pool, which may fail to start a      *)
(* thread: nobody catches the exception.                                    *)
Construct ==
  /\ cli = "submit"
  /\ Built \/ SpawnFails \/ \E w \in Workers : Spawn(w)
  /\ UNCHANGED cliVars

ConstructFailed ==
  /\ cli = "submit" /\ pool = "gone"
  /\ cli' = "dead"
  /\ UNCHANGED <<vars, script, running, result>>

SubmitCommand ==
  /\ cli = "submit" /\ Submit(Cli)
  /\ cli' = "wait"
  /\ UNCHANGED <<script, running, result>>

-----------------------------------------------------------------------------
(* A shutdown has something to store only while the database runs.          *)
StoreFails == running /\ "store" \in Failures

(* What a command may answer, and whether the database runs after it: only  *)
(* the last statement of install and boot says that it runs, and an error   *)
(* in them leaves it as it was.  Errors are caught in every command but     *)
(* SHUTDOWN and EXIT; the arguments of INSERT INTO are read before.         *)
Outcomes(c) ==
  LET Same(R) == {[res |-> r, run |-> running] : r \in R}
      StopsOrThrows(r) == {[res |-> r, run |-> FALSE]}
                          \cup (IF StoreFails THEN Same({"exception"}) ELSE {})
  IN  CASE c \in {"install", "boot"} ->
             {[res |-> "CONTINUE", run |-> TRUE]} \cup Same({"CONTINUE", "UNKNOWN_ERROR"})
        [] c = "shutdown" -> StopsOrThrows("CONTINUE")
        [] c = "exit" -> StopsOrThrows("EXIT")
        [] c = "help" -> Same({"CONTINUE"})
        [] c = "work" -> Same({"CONTINUE", "WRONG", "UNKNOWN_ERROR"})
                         \cup (IF "args" \in Failures THEN Same({"exception"}) ELSE {})

Run(w) ==
  /\ Execute(w)
  /\ \E o \in Outcomes(Com(task[w])) :
       /\ running' = o.run
       /\ result' = [result EXCEPT ![task[w]] = o.res]
  /\ UNCHANGED <<cli, script>>

(* Mutant: EXIT is answered like any other command.                         *)
AfterExit(r) == IF r = "UNKNOWN_ERROR" THEN "leave" ELSE "read"

After(r) ==
  CASE r \in {"EXIT", "UNKNOWN_ERROR"} -> "leave"
    [] r \in {"CONTINUE", "WRONG"} -> "read"
    [] r = "exception" -> "dead"       (* get() throws it again; main does *)
                                       (* not catch it                     *)
    [] OTHER -> "read"

(* Mutant: the command line asks for the state of the future but does not   *)
(* wait for it.                                                             *)
GetAnswerNow ==
  /\ cli = "wait"
  /\ IF Current \in ready THEN Get(Cli, Current) /\ cli' = After(result[Current])
     ELSE cli' = "read" /\ UNCHANGED vars
  /\ UNCHANGED <<script, running, result>>

GetAnswer ==
  /\ cli = "wait"
  /\ Get(Cli, Current)
  /\ cli' = After(result[Current])
  /\ UNCHANGED <<script, running, result>>

-----------------------------------------------------------------------------
(* Mutant: the loop ends without the shutdown behind it.                    *)
LeaveRunning ==
  /\ cli = "leave" /\ cli' = "main"
  /\ UNCHANGED <<vars, script, running, result>>

(* The shutdown behind the loop runs in the thread of main, which does not  *)
(* catch what it throws.                                                    *)
Leave ==
  /\ cli = "leave"
  /\ \/ running' = FALSE /\ cli' = "main"
     \/ StoreFails /\ cli' = "dead" /\ UNCHANGED running
  /\ UNCHANGED <<vars, script, result>>

(* main has returned: the static pool is destroyed, if it was constructed.  *)
ExitProcess ==
  /\ cli = "main" /\ Destroy
  /\ UNCHANGED cliVars

(* The workers, and the destructor.                                         *)
InPool ==
  /\ cli # "dead"
  /\ \/ Invalidate \/ Join
     \/ \E w \in Workers : TestDone(w) \/ Sleep(w) \/ Refused(w) \/ Pop(w)
                           \/ SpuriousWakeup(w)
  /\ UNCHANGED cliVars

RunCommand == cli # "dead" /\ \E w \in Workers : Run(w)

Over ==
  /\ \/ cli = "dead"
     \/ cli = "main" /\ pool \in {"building", "gone"}
  /\ UNCHANGED allVars

Read == EndOfInput \/ \E c \in Commands : ReadCommand(c)

CliGoesOn ==
  \/ Construct \/ ConstructFailed \/ SubmitCommand
  \/ GetAnswer \/ Leave \/ ExitProcess

CNext == Read \/ CliGoesOn \/ RunCommand \/ InPool \/ Over

CSpec == CInit /\ [][CNext]_allVars

(* The threads that can go on do; the user need not type anything, and no   *)
(* wakeup has to be spurious.                                               *)
WorkerGoesOn(w) ==
  /\ cli # "dead"
  /\ \/ Run(w)
     \/ (TestDone(w) \/ Sleep(w) \/ Refused(w) \/ Pop(w)) /\ UNCHANGED cliVars

FairCSpec ==
  /\ CSpec
  /\ WF_allVars(CliGoesOn)
  /\ WF_allVars(cli # "dead" /\ (Invalidate \/ Join) /\ UNCHANGED cliVars)
  /\ \A w \in Workers : WF_allVars(WorkerGoesOn(w))

-----------------------------------------------------------------------------
(* Types; the result of a job is known exactly when its future is ready.    *)
CTypeOK ==
  /\ TypeOK
  /\ cli \in CliPlaces
  /\ script \in Seq(Commands) /\ running \in BOOLEAN
  /\ result \in [Jobs -> Results \cup {NoResult}]
  /\ \A j \in Jobs : result[j] # NoResult <=> j \in ready

(* One command is under way at most, and only while the command line waits  *)
(* for it: the arguments a job points to are those of a frame that is still *)
(* on the stack of the thread of main (runcli).                             *)
OneCommand ==
  \A j \in Queued \cup Executing : cli = "wait" /\ j = Current

(* What was tested when the line was read still holds when the command      *)
(* runs, in another thread (runcli, com_install, com_boot).                 *)
GateHolds == \A w \in Workers : at[w] = "run" => Passes(Com(task[w]))

(* When runcli has returned the database is shut down and no command is     *)
(* left in the pool (runcli, EXIT, errors and the end of the input).        *)
EndsShutDown == cli = "main" => ~running /\ Queued \cup Executing = {}

(* The number of commands that have taken effect.                           *)
Effective == IF Current \in ready \/ sent[Cli] = 0 THEN sent[Cli] ELSE sent[Cli] - 1

(* The command line implements a CommandSession: through two threads, a     *)
(* queue and a future, the commands take effect as they were typed.         *)
Session == INSTANCE CommandSession WITH
  log <- [n \in 1 .. Effective |-> [com |-> script[n], result |-> result[Job(n)]]],
  up <- running,
  ended <- cli = "main"
ImplementsSession == Session!Spec

(* Once the user typed EXIT the process ends: the pool is gone, no worker   *)
(* is left behind (runcli, ~ThreadPool).                                    *)
ExitEnds ==
  (cli = "wait" /\ Com(Current) = "exit")
    ~> (cli = "dead" \/ (cli = "main" /\ pool = "gone"))
=============================================================================
