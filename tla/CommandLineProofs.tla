--------------------------- MODULE CommandLineProofs ---------------------------
(***************************************************************************)
(* For any number of workers and commands: the command line is a client of *)
(* the thread pool, has one command under way at most, and implements a    *)
(* CommandSession.                                                         *)
(***************************************************************************)
EXTENDS CommandLine, ThreadPoolProofs

LEMMA CliIsClient == Clients = {Cli} /\ Cli \in Clients
BY CliAssumption

(* Every step of the command line is a step of the pool, or leaves it alone. *)
LEMMA StepOfPool ==
  ASSUME TypeOK, [CNext]_allVars
  PROVE  [Next]_vars
<1>1. CASE Read
  BY <1>1 DEF Read, EndOfInput, ReadCommand
<1>2. CASE CliGoesOn
  <2>1. CASE Construct
    BY <2>1 DEF Construct, Next, OwnerStep
  <2>2. CASE ConstructFailed \/ Leave
    BY <2>2 DEF ConstructFailed, Leave
  <2>3. CASE SubmitCommand
    BY <2>3, CliIsClient DEF SubmitCommand, Next, ClientStep
  <2>4. CASE GetAnswer
    <3>1. Get(Cli, Current)
      BY <2>4 DEF GetAnswer
    <3>2. Current \in Jobs
      BY <3>1, CliIsClient DEF Get, TypeOK
    <3>3. QED
      BY <3>1, <3>2, CliIsClient DEF Next, ClientStep
  <2>5. CASE ExitProcess
    BY <2>5 DEF ExitProcess, Next, OwnerStep
  <2>6. QED
    BY <1>2, <2>1, <2>2, <2>3, <2>4, <2>5 DEF CliGoesOn
<1>3. CASE RunCommand
  BY <1>3 DEF RunCommand, Run, Next, WorkerStep
<1>4. CASE InPool
  BY <1>4 DEF InPool, Next, OwnerStep, WorkerStep
<1>5. CASE Over \/ UNCHANGED allVars
  BY <1>5 DEF Over, allVars
<1>6. QED
  BY <1>1, <1>2, <1>3, <1>4, <1>5 DEF CNext

(* Hence what is proved of the pool holds in it.                            *)
LEMMA PoolInside == CSpec => []JobsInv
<1>1. CInit => Init /\ TypeOK
  BY InitTypeOK DEF CInit
<1>2. TypeOK /\ [CNext]_allVars => TypeOK' /\ [Next]_vars
  BY StepOfPool, NextTypeOK
<1>3. CSpec => Spec
  BY <1>1, <1>2, PTL DEF CSpec, Spec
<1>4. QED
  BY <1>3, JobsInvariant

-----------------------------------------------------------------------------
(* The inductive invariant: how far the script is read, which jobs are      *)
(* answered, and what the command line still knows of the command it waits  *)
(* for.                                                                     *)
ScriptInv ==
  /\ Len(script) \in {sent[Cli], sent[Cli] + 1}
  /\ cli \in {"read", "wait", "leave", "main"} => Len(script) = sent[Cli]
  /\ cli = "submit" => Len(script) = sent[Cli] + 1

Unanswered(j) == cli = "wait" /\ j = Current

AnsweredInv ==
  \A j \in Jobs : j[2] <= sent[Cli] => j \in ready \/ Unanswered(j)

GateInv ==
  cli = "submit" \/ (cli = "wait" /\ Current \notin ready) => Passes(script[Len(script)])

GoesOnInv ==
  cli \in {"read", "submit", "wait"} =>
    \A j \in ready : Unanswered(j) \/ result[j] \in {"CONTINUE", "WRONG"}

CliTypes ==
  /\ cli \in CliPlaces
  /\ script \in Seq(Commands) /\ running \in BOOLEAN
  /\ result \in [Jobs -> Results \cup {NoResult}]
  /\ \A j \in Jobs : result[j] # NoResult <=> j \in ready

CmdInv ==
  /\ CliTypes /\ ScriptInv /\ AnsweredInv /\ GateInv /\ GoesOnInv
  /\ cli = "main" => ~running

(* What the jobs of the pool are here.                                      *)
LEMMA JobsHere ==
  ASSUME JobsInv
  PROVE  /\ Jobs = {Job(n) : n \in 1 .. MaxJobs}
         /\ sent[Cli] \in 0 .. MaxJobs
         /\ ready \subseteq Submitted /\ \A j \in ready : j \in Jobs /\ j[2] <= sent[Cli]
BY CliIsClient DEF JobsInv, JobsOnce, Jobs, Job, TypeOK, Submitted

LEMMA OneUnderWay ==
  ASSUME JobsInv, AnsweredInv, NEW j \in Queued \cup Executing
  PROVE  Unanswered(j) /\ j \in Jobs /\ j \notin ready
<1>1. j \in Submitted /\ j \notin ready
  BY DEF JobsInv, JobsOnce
<1>2. j \in Jobs /\ j[2] <= sent[Cli]
  BY <1>1, CliIsClient DEF Submitted, Jobs
<1>3. QED
  BY <1>1, <1>2 DEF AnsweredInv

LEMMA InitCmd == CInit => CmdInv
<1> SUFFICES ASSUME CInit PROVE CmdInv
  OBVIOUS
<1>1. sent[Cli] = 0 /\ ready = {} /\ cli = "read" /\ script = <<>> /\ running = FALSE
  BY CliIsClient DEF CInit, Init
<1>2. CliTypes
  <2>1. /\ result \in [Jobs -> Results \cup {NoResult}]
        /\ \A j \in Jobs : result[j] = NoResult
    BY DEF CInit
  <2>2. script \in Seq(Commands)
    BY <1>1
  <2>3. QED
    BY <1>1, <2>1, <2>2 DEF CliTypes, CliPlaces
<1>3. ScriptInv /\ GateInv /\ GoesOnInv
  BY <1>1 DEF ScriptInv, GateInv, GoesOnInv
<1>4. AnsweredInv
  BY <1>1, CliIsClient DEF AnsweredInv, Jobs
<1>5. QED
  BY <1>1, <1>2, <1>3, <1>4 DEF CmdInv

(* The thread of main reads a command, or the end of the input.             *)
LEMMA ReadCmd ==
  ASSUME JobsInv, CmdInv, Read
  PROVE  CmdInv'
<1>1. CASE EndOfInput
  BY <1>1 DEF EndOfInput, CmdInv, CliTypes, CliPlaces, ScriptInv, AnsweredInv, GateInv,
              GoesOnInv, Unanswered, vars
<1>2. ASSUME NEW c \in Commands, ReadCommand(c) PROVE CmdInv'
  <2>1. script \in Seq(Commands) /\ sent[Cli] \in Nat /\ Len(script) = sent[Cli]
    BY <1>2, JobsHere DEF ReadCommand, CmdInv, CliTypes, ScriptInv
  <2>2. script' = Append(script, c) /\ cli = "read" /\ cli' = "submit" /\ Passes(c)
        /\ UNCHANGED <<vars, running, result>>
    BY <1>2 DEF ReadCommand
  <2>3. script' \in Seq(Commands) /\ Len(script') = sent[Cli] + 1 /\ script'[Len(script')] = c
    BY <2>1, <2>2
  <2>4. CliTypes'
    BY <2>2, <2>3 DEF CmdInv, CliTypes, CliPlaces, vars
  <2>5. ScriptInv' /\ GateInv'
    BY <2>2, <2>3 DEF ScriptInv, GateInv, Passes, vars
  <2>6. AnsweredInv' /\ GoesOnInv'
    BY <2>2 DEF CmdInv, AnsweredInv, GoesOnInv, Unanswered, vars
  <2>7. QED
    BY <2>2, <2>4, <2>5, <2>6 DEF CmdInv
<1>3. QED
  BY <1>1, <1>2 DEF Read

(* Steps of the pool that neither submit nor answer a job.                  *)
LEMMA QuietCmd ==
  ASSUME JobsInv, CmdInv, UNCHANGED <<sent, ready, cliVars>>
  PROVE  CmdInv'
BY DEF CmdInv, cliVars, CliTypes, ScriptInv, AnsweredInv, GateInv, GoesOnInv, Unanswered,
       Current, Passes

LEMMA SubmitCmd ==
  ASSUME JobsInv, CmdInv, SubmitCommand
  PROVE  CmdInv'
<1> DEFINE n == sent[Cli]
<1>1. n \in Nat /\ sent'[Cli] = n + 1 /\ UNCHANGED <<ready, script, running, result>>
      /\ cli = "submit" /\ cli' = "wait"
  BY JobsHere, CliIsClient DEF SubmitCommand, Submit, JobsInv, TypeOK
<1>2. Len(script) = n + 1 /\ Passes(script[Len(script)])
  BY <1>1 DEF CmdInv, ScriptInv, GateInv
<1>3. CliTypes' /\ ScriptInv'
  BY <1>1, <1>2 DEF CmdInv, CliTypes, CliPlaces, ScriptInv
<1>4. AnsweredInv'
  <2> SUFFICES ASSUME NEW j \in Jobs, j[2] <= n + 1, j # Job(n + 1)
               PROVE  j \in ready
    BY <1>1 DEF AnsweredInv, Unanswered, Current
  <2>1. j[2] <= n
    BY <1>1, JobsHere DEF Job
  <2>2. QED
    BY <1>1, <2>1 DEF CmdInv, AnsweredInv, Unanswered
<1>5. GateInv' /\ GoesOnInv'
  BY <1>1, <1>2 DEF CmdInv, GateInv, GoesOnInv, Unanswered, Passes
<1>6. QED
  BY <1>1, <1>3, <1>4, <1>5 DEF CmdInv

(* A worker has run the command the command line waits for.                 *)
LEMMA RunFacts ==
  ASSUME JobsInv, CmdInv, NEW w \in Workers, Run(w)
  PROVE  /\ task[w] = Current /\ Current \in Jobs /\ Current \notin ready
         /\ sent[Cli] \in 1 .. MaxJobs /\ Len(script) = sent[Cli]
         /\ cli = "wait" /\ ready' = ready \cup {Current}
         /\ script[sent[Cli]] \in Commands /\ Com(Current) = script[sent[Cli]]
         /\ Passes(script[sent[Cli]])
         /\ \E o \in Outcomes(script[sent[Cli]]) :
              /\ running' = o.run
              /\ result' = [result EXCEPT ![Current] = o.res]
         /\ UNCHANGED <<cli, script, sent>>
<1>1. Execute(w) /\ at[w] = "run" /\ UNCHANGED <<cli, script, sent>>
      /\ ready' = ready \cup {task[w]}
  BY DEF Run, Execute
<1>2. task[w] \in Executing
  BY <1>1 DEF Executing
<1>3. cli = "wait" /\ task[w] = Current /\ Current \in Jobs /\ Current \notin ready
  BY <1>2, OneUnderWay DEF CmdInv, Unanswered
<1>4. sent[Cli] \in 1 .. MaxJobs /\ Com(Current) = script[sent[Cli]]
  BY <1>3, CliIsClient, JobsHere DEF Current, Job, Jobs, Com
<1>5. Len(script) = sent[Cli] /\ script \in Seq(Commands)
  BY <1>3 DEF CmdInv, ScriptInv, CliTypes
<1>6. script[sent[Cli]] \in Commands
  BY <1>4, <1>5
<1>7. Passes(script[sent[Cli]])
  BY <1>3, <1>5 DEF CmdInv, GateInv
<1>8. QED
  BY <1>1, <1>3, <1>4, <1>5, <1>6, <1>7 DEF Run

LEMMA OutcomeIs ==
  ASSUME NEW r, NEW b \in BOOLEAN, NEW o, o = [res |-> r, run |-> b]
  PROVE  o.res = r /\ o.run = b /\ o.run \in BOOLEAN
<1>1. o.res = r /\ o.run = b
  BY Zenon
<1>2. QED
  BY <1>1, Zenon

LEMMA OutcomesTyped ==
  ASSUME NEW c \in Commands, running \in BOOLEAN, NEW o \in Outcomes(c)
  PROVE  /\ o.res \in Results /\ o.run \in BOOLEAN
         /\ o.run # running => c \in {"install", "boot", "shutdown", "exit"}
         /\ o.res = "EXIT" => ~o.run
<1> DEFINE Is(r, b) == o = [res |-> r, run |-> b]
<1>1. CASE c \in {"install", "boot"}
  <2>1. Is("CONTINUE", TRUE) \/ Is("CONTINUE", running) \/ Is("UNKNOWN_ERROR", running)
    BY <1>1 DEF Outcomes
  <2>2. (o.res = "CONTINUE" \/ o.res = "UNKNOWN_ERROR") /\ o.run \in BOOLEAN
    BY <2>1, OutcomeIs, Zenon
  <2>3. QED
    BY <1>1, <2>2 DEF Results
<1>2. CASE c = "shutdown"
  <2>1. Is("CONTINUE", FALSE) \/ Is("exception", running)
    BY <1>2 DEF Outcomes
  <2>2. (o.res = "CONTINUE" \/ o.res = "exception") /\ o.run \in BOOLEAN
    BY <2>1, OutcomeIs, Zenon
  <2>3. QED
    BY <1>2, <2>2 DEF Results
<1>3. CASE c = "exit"
  <2>1. Is("EXIT", FALSE) \/ Is("exception", running)
    BY <1>3 DEF Outcomes
  <2>2. (o.res = "EXIT" /\ o.run = FALSE) \/ o.res = "exception"
    BY <2>1, OutcomeIs, Zenon
  <2>3. o.run \in BOOLEAN
    BY <2>1, OutcomeIs, Zenon
  <2>4. QED
    BY <1>3, <2>2, <2>3 DEF Results
<1>4. CASE c = "help"
  BY <1>4 DEF Outcomes, Results
<1>5. CASE c = "work"
  BY <1>5 DEF Outcomes, Results
<1>6. QED
  BY <1>1, <1>2, <1>3, <1>4, <1>5 DEF Commands

LEMMA RunCmd ==
  ASSUME JobsInv, CmdInv, NEW w \in Workers, Run(w)
  PROVE  CmdInv'
<1>1. PICK o \in Outcomes(script[sent[Cli]]) :
        running' = o.run /\ result' = [result EXCEPT ![Current] = o.res]
  BY RunFacts
<1>2. /\ Current \in Jobs /\ Current \notin ready /\ cli = "wait" /\ Current' = Current
      /\ ready' = ready \cup {Current} /\ UNCHANGED <<cli, script, sent>>
  BY RunFacts DEF Current
<1>3. o.res \in Results /\ o.run \in BOOLEAN
  BY RunFacts, OutcomesTyped, <1>1 DEF CmdInv, CliTypes
<1>4. o.res # NoResult
  BY <1>3 DEF Results, NoResult
<1>5. CliTypes'
  <2>1. result' \in [Jobs -> Results \cup {NoResult}]
    BY <1>1, <1>2, <1>3 DEF CmdInv, CliTypes
  <2>2. \A j \in Jobs : result'[j] # NoResult <=> j \in ready'
    BY <1>1, <1>2, <1>4 DEF CmdInv, CliTypes
  <2>3. QED
    BY <1>1, <1>2, <1>3, <2>1, <2>2 DEF CmdInv, CliTypes
<1>6. ScriptInv' /\ AnsweredInv'
  BY <1>2 DEF CmdInv, ScriptInv, AnsweredInv, Unanswered
<1>7. GateInv' /\ GoesOnInv'
  <2>1. \A j \in ready : j # Current => result'[j] = result[j]
    BY <1>1, JobsHere DEF CmdInv, CliTypes
  <2>2. QED
    BY <1>2, <2>1 DEF CmdInv, GateInv, GoesOnInv, Unanswered
<1>8. QED
  BY <1>2, <1>5, <1>6, <1>7 DEF CmdInv

LEMMA AnswerCmd ==
  ASSUME JobsInv, CmdInv, GetAnswer
  PROVE  CmdInv'
<1>1. /\ cli = "wait" /\ cli' = After(result[Current]) /\ Current \in ready
      /\ UNCHANGED <<sent, ready, script, running, result>> /\ Current' = Current
  BY DEF GetAnswer, Get, Current
<1>2. cli' \in {"read", "leave", "dead"}
      /\ (cli' = "read" => result[Current] \in {"CONTINUE", "WRONG"})
  <2>1. Current \in Jobs /\ result[Current] \in Results
    BY <1>1, JobsHere DEF CmdInv, CliTypes
  <2>2. QED
    BY <1>1, <2>1 DEF After, Results
<1>3. CliTypes' /\ ScriptInv'
  BY <1>1, <1>2 DEF CmdInv, CliTypes, CliPlaces, ScriptInv
<1>4. AnsweredInv'
  BY <1>1, <1>2 DEF CmdInv, AnsweredInv, Unanswered
<1>5. GateInv' /\ GoesOnInv'
  BY <1>1, <1>2 DEF CmdInv, GateInv, GoesOnInv, Unanswered
<1>6. QED
  BY <1>2, <1>3, <1>4, <1>5 DEF CmdInv

LEMMA LeaveCmd ==
  ASSUME JobsInv, CmdInv, Leave \/ ConstructFailed
  PROVE  CmdInv'
<1>1. /\ cli \in {"leave", "submit"} /\ cli' \in {"main", "dead"}
      /\ cli' = "main" => cli = "leave" /\ running' = FALSE
      /\ running' \in BOOLEAN
      /\ UNCHANGED <<sent, ready, script, result>>
  BY DEF Leave, ConstructFailed, CmdInv, CliTypes, vars
<1>2. CliTypes' /\ ScriptInv'
  BY <1>1 DEF CmdInv, CliTypes, CliPlaces, ScriptInv
<1>3. AnsweredInv' /\ GateInv' /\ GoesOnInv'
  BY <1>1 DEF CmdInv, AnsweredInv, GateInv, GoesOnInv, Unanswered
<1>4. QED
  BY <1>1, <1>2, <1>3 DEF CmdInv

LEMMA InPoolIsQuiet ==
  ASSUME InPool \/ Construct \/ ExitProcess
  PROVE  UNCHANGED <<sent, ready, cliVars>>
BY DEF InPool, Construct, ExitProcess, Invalidate, Join, TestDone, Sleep, Refused, Pop,
       SpuriousWakeup, Built, SpawnFails, StartDestroy, Spawn, Destroy

LEMMA NextCmd ==
  ASSUME JobsInv, CmdInv, [CNext]_allVars
  PROVE  CmdInv'
<1>1. CASE Read
  BY <1>1, ReadCmd
<1>2. CASE CliGoesOn
  BY <1>2, InPoolIsQuiet, QuietCmd, LeaveCmd, SubmitCmd, AnswerCmd DEF CliGoesOn
<1>3. CASE RunCommand
  BY <1>3, RunCmd DEF RunCommand
<1>4. CASE InPool
  BY <1>4, InPoolIsQuiet, QuietCmd
<1>5. CASE UNCHANGED allVars
  BY <1>5, QuietCmd DEF allVars, vars
<1>6. QED
  BY <1>1, <1>2, <1>3, <1>4, <1>5 DEF CNext, Over

LEMMA CmdInvariant == CSpec => [](JobsInv /\ CmdInv)
<1>1. JobsInv /\ CmdInv /\ [CNext]_allVars => CmdInv'
  BY NextCmd
<1>2. QED
  BY <1>1, InitCmd, PoolInside, PTL DEF CSpec

(* Every variable keeps its type, and a result is known exactly when its    *)
(* future is ready.                                                         *)
THEOREM CommandLineTypeCorrect == CSpec => []CTypeOK
<1>1. JobsInv /\ CmdInv => CTypeOK
  BY DEF JobsInv, CmdInv, CliTypes, CTypeOK
<1>2. QED
  BY <1>1, CmdInvariant, PTL

(* One command is under way at most, and the command line waits for it.     *)
THEOREM OneCommandAtATime == CSpec => []OneCommand
<1>1. JobsInv /\ CmdInv => OneCommand
  BY OneUnderWay DEF CmdInv, OneCommand, Unanswered
<1>2. QED
  BY <1>1, CmdInvariant, PTL

(* What was tested when the line was read holds while the command runs.     *)
THEOREM GateStays == CSpec => []GateHolds
<1>1. ASSUME JobsInv, CmdInv, NEW w \in Workers, at[w] = "run"
      PROVE  Passes(Com(task[w]))
  <2>1. task[w] \in Executing
    BY <1>1 DEF Executing
  <2>2. cli = "wait" /\ task[w] = Current /\ Current \notin ready
    BY <1>1, <2>1, OneUnderWay DEF CmdInv, Unanswered
  <2>3. Com(task[w]) = script[Len(script)]
    BY <1>1, <2>2 DEF CmdInv, ScriptInv, Com, Current, Job
  <2>4. QED
    BY <1>1, <2>2, <2>3 DEF CmdInv, GateInv
<1>2. JobsInv /\ CmdInv => GateHolds
  BY <1>1 DEF GateHolds
<1>3. QED
  BY <1>2, CmdInvariant, PTL

(* When the command line has returned the database is shut down and the     *)
(* pool has no command left.                                                *)
THEOREM ReturnsShutDown == CSpec => []EndsShutDown
<1>1. JobsInv /\ CmdInv => EndsShutDown
  BY OneUnderWay DEF CmdInv, EndsShutDown, Unanswered
<1>2. QED
  BY <1>1, CmdInvariant, PTL

-----------------------------------------------------------------------------
(* The refinement.                                                          *)
Log == [n \in 1 .. Effective |-> [com |-> script[n], result |-> result[Job(n)]]]

LEMMA EffectiveIs ==
  ASSUME JobsInv, CmdInv
  PROVE  /\ Effective \in 0 .. sent[Cli] /\ sent[Cli] <= Len(script)
         /\ cli # "wait" \/ Current \in ready => Effective = sent[Cli]
         /\ sent[Cli] # 0 /\ Current \notin ready => Effective = sent[Cli] - 1
<1>1. sent[Cli] \in Nat /\ Len(script) \in {sent[Cli], sent[Cli] + 1}
  BY JobsHere DEF CmdInv, ScriptInv
<1>2. sent[Cli] # 0 => Current \in ready \/ cli = "wait"
  <2> SUFFICES ASSUME sent[Cli] # 0 PROVE Current \in ready \/ cli = "wait"
    OBVIOUS
  <2>1. Current \in Jobs /\ Current[2] = sent[Cli]
    BY <1>1, JobsHere, PoolAssumption DEF Current, Job
  <2>2. QED
    BY <1>1, <2>1 DEF CmdInv, AnsweredInv, Unanswered
<1>3. Current \in ready => sent[Cli] # 0
  BY JobsHere DEF Current, Job
<1>4. QED
  BY <1>1, <1>2, <1>3 DEF Effective

(* Steps that keep what took effect, and its results, are not seen.         *)
LEMMA LogKept ==
  ASSUME Effective' = Effective, UNCHANGED result,
         \A n \in 1 .. Effective : script'[n] = script[n]
  PROVE  Log' = Log
BY DEF Log, Job

Unseen == Log' = Log /\ UNCHANGED running /\ (cli' = "main" <=> cli = "main")

LEMMA ReadUnseen ==
  ASSUME JobsInv, CmdInv, Read
  PROVE  Unseen
<1>1. UNCHANGED <<sent, ready, running, result>> /\ cli = "read" /\ cli' \in {"submit", "leave"}
  BY DEF Read, EndOfInput, ReadCommand, vars
<1>2. Effective' = Effective /\ Effective \in 0 .. Len(script)
  <2>1. Effective \in 0 .. sent[Cli] /\ sent[Cli] \in Nat /\ Len(script) = sent[Cli]
    BY <1>1, EffectiveIs, JobsHere DEF CmdInv, ScriptInv
  <2>2. QED
    BY <1>1, <2>1 DEF Effective, Current, Job
<1>3. \A n \in 1 .. Effective : script'[n] = script[n]
  <2>1. script \in Seq(Commands)
    BY DEF CmdInv, CliTypes
  <2>2. QED
    BY <1>2, <2>1 DEF Read, EndOfInput, ReadCommand
<1>4. QED
  BY <1>1, <1>2, <1>3, LogKept DEF Unseen

LEMMA QuietUnseen ==
  ASSUME UNCHANGED <<sent, ready, cliVars>>
  PROVE  Unseen
<1>1. Effective' = Effective /\ UNCHANGED <<result, script, running, cli>>
  BY DEF Effective, Current, cliVars
<1>2. QED
  BY <1>1, LogKept DEF Unseen

LEMMA SubmitUnseen ==
  ASSUME JobsInv, CmdInv, SubmitCommand
  PROVE  Unseen
<1> DEFINE n == sent[Cli]
<1>1. n \in Nat /\ sent'[Cli] = n + 1 /\ UNCHANGED <<ready, script, running, result>>
      /\ cli = "submit" /\ cli' = "wait"
  BY JobsHere, CliIsClient DEF SubmitCommand, Submit, JobsInv, TypeOK
<1>2. Effective = n
  BY <1>1, EffectiveIs
<1>3. Job(n + 1) \notin ready
  BY <1>1, JobsHere DEF Job
<1>4. Effective' = n
  BY <1>1, <1>3 DEF Effective, Current
<1>5. QED
  BY <1>1, <1>2, <1>4, LogKept DEF Unseen

LEMMA AnswerUnseen ==
  ASSUME JobsInv, CmdInv, GetAnswer
  PROVE  Unseen
<1>1. cli = "wait" /\ cli' = After(result[Current]) /\ UNCHANGED <<sent, ready, script, running, result>>
  BY DEF GetAnswer, Get
<1>2. cli' # "main" /\ Effective' = Effective
  BY <1>1 DEF After, Effective, Current
<1>3. QED
  BY <1>1, <1>2, LogKept DEF Unseen

LEMMA LeaveEnds ==
  ASSUME JobsInv, CmdInv, Leave \/ ConstructFailed
  PROVE  Unseen \/ Session!End
<1>1. UNCHANGED <<sent, ready, script, result>> /\ cli # "main"
  BY DEF Leave, ConstructFailed, vars
<1>2. Log' = Log
  <2>1. Effective' = Effective
    BY <1>1 DEF Effective, Current
  <2>2. QED
    BY <1>1, <2>1, LogKept
<1>3. CASE cli' = "main" /\ running' = FALSE
  BY <1>1, <1>2, <1>3 DEF Session!End, Log
<1>4. CASE cli' = "dead" /\ UNCHANGED running
  BY <1>1, <1>2, <1>4 DEF Unseen
<1>5. QED
  BY <1>3, <1>4 DEF Leave, ConstructFailed, vars

(* The step of the worker is the one at which the command takes effect.     *)
LEMMA RunDoes ==
  ASSUME JobsInv, CmdInv, NEW w \in Workers, Run(w)
  PROVE  Session!Next
<1> DEFINE n == sent[Cli]
           c == script[n]
<1>1. PICK o \in Outcomes(c) :
        running' = o.run /\ result' = [result EXCEPT ![Current] = o.res]
  BY RunFacts
<1>2. /\ n \in 1 .. MaxJobs /\ c \in Commands /\ Passes(c) /\ cli = "wait"
      /\ Current \in Jobs /\ Current \notin ready /\ ready' = ready \cup {Current}
      /\ UNCHANGED <<cli, script, sent>>
  BY RunFacts
<1>3. Effective = n - 1 /\ Effective' = n /\ n \in Nat /\ n - 1 \in Nat
  <2>1. Effective = n - 1
    BY <1>2, EffectiveIs
  <2>2. Effective' = n
    BY <1>2 DEF Effective, Current
  <2>3. QED
    BY <1>2, <2>1, <2>2
<1>4. o.res \in Results /\ (running' # running => c \in {"install", "boot", "shutdown", "exit"})
      /\ (o.res = "EXIT" => ~running')
  BY <1>1, <1>2, OutcomesTyped DEF CmdInv, CliTypes
<1>5. \A k \in 1 .. n - 1 : Job(k) \in Jobs /\ Job(k) # Current /\ Job(k) \in ready
  <2> SUFFICES ASSUME NEW k \in 1 .. n - 1
               PROVE  Job(k) \in Jobs /\ Job(k) # Current /\ Job(k) \in ready
    OBVIOUS
  <2>1. Job(k) \in Jobs /\ Job(k) # Current
    <3>1. k \in 1 .. MaxJobs
      BY <1>2, <1>3, PoolAssumption
    <3>2. QED
      BY <1>2, <1>3, <3>1, JobsHere DEF Job, Current
  <2>2. QED
    BY <1>2, <1>3, <2>1 DEF CmdInv, AnsweredInv, Unanswered, Job
<1>6. \A k \in 1 .. n - 1 : result'[Job(k)] = result[Job(k)]
                            /\ result[Job(k)] \in {"CONTINUE", "WRONG"}
  BY <1>1, <1>2, <1>5 DEF CmdInv, CliTypes, GoesOnInv, Unanswered
<1>7. result'[Job(n)] = o.res
  BY <1>1, <1>2 DEF Current, CmdInv, CliTypes
<1>8. Log' = Append(Log, [com |-> c, result |-> o.res])
  <2>1. Log = [k \in 1 .. n - 1 |-> [com |-> script[k], result |-> result[Job(k)]]]
    BY <1>3 DEF Log
  <2>2. Log' = [k \in 1 .. n |-> [com |-> script[k], result |-> result'[Job(k)]]]
    BY <1>2, <1>3 DEF Log, Job
  <2>3. Len(Log) = n - 1
    BY <1>3, <2>1
  <2>4. QED
    BY <1>3, <1>6, <1>7, <2>1, <2>2, <2>3
<1>9. Session!Admits(c)
  BY <1>2 DEF Passes, Session!Admits, Commands
<1>10. \A k \in DOMAIN Log : Session!GoesOn(Log[k].result)
  BY <1>3, <1>6 DEF Log, Session!GoesOn
<1>11. Session!Do(c, o.res)
  BY <1>2, <1>4, <1>8, <1>9, <1>10 DEF Session!Do, Log
<1>12. QED
  BY <1>2, <1>4, <1>11 DEF Session!Next, Commands, Results

LEMMA StepIsSession ==
  ASSUME JobsInv, CmdInv, [CNext]_allVars
  PROVE  Unseen \/ Session!Next
<1>1. CASE Read
  BY <1>1, ReadUnseen
<1>2. CASE CliGoesOn
  BY <1>2, InPoolIsQuiet, QuietUnseen, LeaveEnds, SubmitUnseen, AnswerUnseen
     DEF CliGoesOn, Session!Next
<1>3. CASE RunCommand
  BY <1>3, RunDoes DEF RunCommand
<1>4. CASE InPool
  BY <1>4, InPoolIsQuiet, QuietUnseen
<1>5. CASE UNCHANGED allVars
  BY <1>5, QuietUnseen DEF allVars, vars
<1>6. QED
  BY <1>1, <1>2, <1>3, <1>4, <1>5 DEF CNext, Over

(* The command line implements a CommandSession.                            *)
THEOREM CommandLineImplementsSession == CSpec => ImplementsSession
<1>1. CInit => Session!Init
  BY CliIsClient DEF CInit, Init, Session!Init, Effective, Current
<1>2. JobsInv /\ CmdInv /\ [CNext]_allVars => [Session!Next]_(Session!vars)
  BY StepIsSession DEF Unseen, Log, Session!vars
<1>3. QED
  BY <1>1, <1>2, CmdInvariant, PTL DEF CSpec, ImplementsSession, Session!Spec
=============================================================================
