------------------------------ MODULE ThreadPool ------------------------------
(***************************************************************************)
(* The thread pool of src/src/threading: workers that take jobs from a     *)
(* queue guarded by one mutex and one condition variable, clients that     *)
(* submit a job and block on its future, and the destructor that stops the *)
(* workers.  A step is one critical section of the queue's mutex, or one   *)
(* step outside of it.                                                     *)
(***************************************************************************)
EXTENDS Naturals, Sequences, FiniteSets

CONSTANTS
  Workers,    (* the threads of the pool                                       *)
  Clients,    (* the threads that submit jobs; the command line is one         *)
  MaxJobs,    (* bound: jobs one client submits                                *)
  Ahead       (* bound: futures one client holds at a time                     *)

ASSUME PoolAssumption ==
  /\ IsFiniteSet(Workers)
  /\ MaxJobs \in Nat /\ Ahead \in Nat

Jobs == Clients \X (1 .. MaxJobs)
NoJob == <<>>            (* a unique_ptr that is null *)

VARIABLES
  queue, valid,         (* _queue and _valid of the ThreadQueue               *)
  done,                 (* _done of the ThreadPool                            *)
  pool,                 (* how far its constructor or destructor is           *)
  at,                   (* per worker: where it is                            *)
  task,                 (* per worker: pTask                                  *)
  ready,                (* jobs whose packaged_task has stored its result     *)
  sent,                 (* per client: number of jobs submitted               *)
  held                  (* per client: jobs whose TaskFuture it still holds   *)

vars == <<queue, valid, done, pool, at, task, ready, sent, held>>

Places == {"unborn", "test", "enter", "asleep", "woken", "run", "exit"}
Asleep == {w \in Workers : at[w] = "asleep"}

(* Workers that will test the queue once more before they run or sleep. *)
Looking == {w \in Workers : at[w] \in {"test", "enter", "woken"}}

Init ==
  /\ queue = <<>> /\ valid = TRUE /\ done = FALSE
  /\ pool = "building"
  /\ at = [w \in Workers |-> "unborn"]
  /\ task = [w \in Workers |-> NoJob]
  /\ ready = {}
  /\ sent = [c \in Clients |-> 0]
  /\ held = [c \in Clients |-> {}]

-----------------------------------------------------------------------------
(* The constructor starts the workers one by one; when a thread cannot be  *)
(* started it stops those that run and throws.                             *)
Spawn(w) ==
  /\ pool = "building" /\ at[w] = "unborn"
  /\ at' = [at EXCEPT ![w] = "test"]
  /\ UNCHANGED <<queue, valid, done, pool, task, ready, sent, held>>

Built ==
  /\ pool = "building" /\ \A w \in Workers : at[w] # "unborn"
  /\ pool' = "up"
  /\ UNCHANGED <<queue, valid, done, at, task, ready, sent, held>>

StartDestroy ==
  /\ done' = TRUE
  /\ pool' = "destroy"
  /\ UNCHANGED <<queue, valid, at, task, ready, sent, held>>

SpawnFails ==
  /\ pool = "building" /\ \E w \in Workers : at[w] = "unborn"
  /\ StartDestroy

(* The pool is a static object: it is destroyed when main has returned, and *)
(* a TaskFuture does not leave its scope before its job is answered.        *)
Destroy ==
  /\ pool = "up" /\ \A c \in Clients : held[c] = {}
  /\ StartDestroy

(* notify_all under the mutex; a sleeper then waits for the mutex. *)
WakeAll == at' = [w \in Workers |-> IF at[w] = "asleep" THEN "woken" ELSE at[w]]

(* notify_one: some sleeper, if there is one. *)
WakeOne ==
  \/ Asleep = {} /\ UNCHANGED at
  \/ \E w \in Asleep : at' = [at EXCEPT ![w] = "woken"]

(* Mutant: destroy_all wakes one worker only. *)
InvalidateWakesOne ==
  /\ pool = "destroy"
  /\ valid' = FALSE /\ WakeOne
  /\ pool' = "join"
  /\ UNCHANGED <<queue, done, task, ready, sent, held>>

Invalidate ==
  /\ pool = "destroy"
  /\ valid' = FALSE /\ WakeAll
  /\ pool' = "join"
  /\ UNCHANGED <<queue, done, task, ready, sent, held>>

Join ==
  /\ pool = "join" /\ \A w \in Workers : at[w] \in {"unborn", "exit"}
  /\ pool' = "gone"
  /\ UNCHANGED <<queue, valid, done, at, task, ready, sent, held>>

-----------------------------------------------------------------------------
(* Mutant: the waiters are notified when the queue was empty only. *)
NotifyIfEmpty(j) ==
  /\ queue' = Append(queue, j)
  /\ IF queue = <<>> THEN WakeOne ELSE UNCHANGED at

(* Mutant: no waiter is notified. *)
NotifyNobody(j) == queue' = Append(queue, j) /\ UNCHANGED at

(* Mutant: the job submitted last is started first. *)
PushFront(j) == queue' = <<j>> \o queue /\ WakeOne

Push(j) == queue' = Append(queue, j) /\ WakeOne

Submit(c) ==
  LET j == <<c, sent[c] + 1>> IN
  /\ pool = "up" /\ sent[c] < MaxJobs /\ Cardinality(held[c]) < Ahead
  /\ Push(j)
  /\ sent' = [sent EXCEPT ![c] = @ + 1]
  /\ held' = [held EXCEPT ![c] = @ \cup {j}]
  /\ UNCHANGED <<valid, done, pool, task, ready>>

(* get(), or the destructor of a TaskFuture nobody called get() on. *)
Get(c, j) ==
  /\ j \in held[c] /\ j \in ready
  /\ held' = [held EXCEPT ![c] = @ \ {j}]
  /\ UNCHANGED <<queue, valid, done, pool, at, task, ready, sent>>

-----------------------------------------------------------------------------
TestDone(w) ==
  /\ at[w] = "test"
  /\ at' = [at EXCEPT ![w] = IF done THEN "exit" ELSE "enter"]
  /\ UNCHANGED <<queue, valid, done, pool, task, ready, sent, held>>

(* waitPop from the acquisition of the mutex: the wait condition is tested  *)
(* first and again after every wakeup.                                      *)
Sleep(w) ==
  /\ at[w] \in {"enter", "woken"} /\ queue = <<>> /\ valid
  /\ at' = [at EXCEPT ![w] = "asleep"]
  /\ UNCHANGED <<queue, valid, done, pool, task, ready, sent, held>>

Refused(w) ==
  /\ at[w] \in {"enter", "woken"} /\ ~valid
  /\ at' = [at EXCEPT ![w] = "test"]
  /\ UNCHANGED <<queue, valid, done, pool, task, ready, sent, held>>

(* Mutant: the job that is taken stays in the queue. *)
PopNothing(w) ==
  /\ at[w] \in {"enter", "woken"} /\ queue # <<>> /\ valid
  /\ task' = [task EXCEPT ![w] = Head(queue)]
  /\ at' = [at EXCEPT ![w] = "run"]
  /\ UNCHANGED <<queue, valid, done, pool, ready, sent, held>>

Pop(w) ==
  /\ at[w] \in {"enter", "woken"} /\ queue # <<>> /\ valid
  /\ task' = [task EXCEPT ![w] = Head(queue)]
  /\ queue' = Tail(queue)
  /\ at' = [at EXCEPT ![w] = "run"]
  /\ UNCHANGED <<valid, done, pool, ready, sent, held>>

SpuriousWakeup(w) ==
  /\ at[w] = "asleep"
  /\ at' = [at EXCEPT ![w] = "woken"]
  /\ UNCHANGED <<queue, valid, done, pool, task, ready, sent, held>>

(* Mutant: pTask outlives the iteration of the loop. *)
ExecuteKeepsTask(w) ==
  /\ at[w] = "run"
  /\ ready' = ready \cup {task[w]}
  /\ at' = [at EXCEPT ![w] = "test"]
  /\ UNCHANGED <<queue, valid, done, pool, task, sent, held>>

(* The packaged_task stores the result, or the exception, of the command. *)
Execute(w) ==
  /\ at[w] = "run"
  /\ ready' = ready \cup {task[w]}
  /\ task' = [task EXCEPT ![w] = NoJob]
  /\ at' = [at EXCEPT ![w] = "test"]
  /\ UNCHANGED <<queue, valid, done, pool, sent, held>>

WorkerStep(w) == TestDone(w) \/ Sleep(w) \/ Refused(w) \/ Pop(w) \/ Execute(w)
OwnerStep == Built \/ SpawnFails \/ Destroy \/ Invalidate \/ Join
ClientStep(c) == Submit(c) \/ \E j \in Jobs : Get(c, j)

Gone == pool = "gone" /\ UNCHANGED vars

Next ==
  \/ OwnerStep \/ Gone
  \/ \E w \in Workers : Spawn(w) \/ WorkerStep(w) \/ SpuriousWakeup(w)
  \/ \E c \in Clients : ClientStep(c)

Spec == Init /\ [][Next]_vars

(* The scheduler lets every thread that can go on go on; no client has to   *)
(* submit a job, no command line has to end, no wakeup has to be spurious.  *)
FairSpec ==
  /\ Spec
  /\ WF_vars(Invalidate \/ Join)
  /\ \A w \in Workers : WF_vars(WorkerStep(w))

-----------------------------------------------------------------------------
(* Types; a worker has a task exactly while it executes it.                 *)
TypeOK ==
  /\ queue \in Seq(Jobs) /\ valid \in BOOLEAN /\ done \in BOOLEAN
  /\ pool \in {"building", "up", "destroy", "join", "gone"}
  /\ at \in [Workers -> Places]
  /\ task \in [Workers -> Jobs \cup {NoJob}]
  /\ \A w \in Workers : task[w] # NoJob <=> at[w] = "run"
  /\ ready \in SUBSET Jobs
  /\ sent \in [Clients -> 0 .. MaxJobs]
  /\ held \in [Clients -> SUBSET Jobs]

(* While a worker sleeps, every queued job has a worker of its own that is  *)
(* about to look at the queue (waitPop, push): no wakeup is lost, and no    *)
(* job waits for the end of another one while a worker is idle.             *)
NoLostWakeup ==
  Asleep # {} /\ ~done => Len(queue) <= Cardinality(Looking)

Executing == {task[w] : w \in {v \in Workers : at[v] = "run"}}
Queued == {queue[i] : i \in DOMAIN queue}
Submitted == {j \in Jobs : j[2] <= sent[j[1]]}

(* Every job submitted is in exactly one place: in the queue once, with one *)
(* worker, or answered (submit, waitPop, worker).                           *)
JobsOnce ==
  /\ \A i, k \in DOMAIN queue : queue[i] = queue[k] => i = k
  /\ \A v, w \in Workers : at[v] = "run" /\ task[v] = task[w] => v = w
  /\ Queued \cap Executing = {} /\ (Queued \cup Executing) \cap ready = {}
  /\ Queued \cup Executing \cup ready = Submitted

(* The pool serves jobs as JobService promises: in order, once (submit,     *)
(* worker, waitPop).                                                        *)
Service == INSTANCE JobService WITH
  pending <- queue, running <- Executing, answered <- ready
ImplementsService == Service!Spec

(* Every future a client holds becomes ready: get() returns (TaskFuture).   *)
Answered == \A c \in Clients : \A j \in Jobs : j \in held[c] ~> j \in ready

(* Every worker ends once the pool is destroyed: destroy_all returns.       *)
DestroyReturns == pool = "destroy" ~> pool = "gone"
=============================================================================
