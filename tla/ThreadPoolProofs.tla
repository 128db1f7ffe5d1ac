--------------------------- MODULE ThreadPoolProofs ---------------------------
(***************************************************************************)
(* For any number of workers and clients: no wakeup is lost, every job is  *)
(* in one place, and the pool implements JobService.                       *)
(***************************************************************************)
EXTENDS ThreadPool, FiniteSetTheorems, TLAPS

(* NoLostWakeup is inductive once a sleeper is known to look at the queue   *)
(* again only through WakeOne, WakeAll or a spurious wakeup, so the types   *)
(* suffice beside it.                                                       *)
WakeupInv == TypeOK /\ NoLostWakeup

LEMMA JobSubmitted ==
  ASSUME TypeOK, NEW c \in Clients, Submit(c)
  PROVE  <<c, sent[c] + 1>> \in Jobs
BY PoolAssumption DEF TypeOK, Submit, Jobs

LEMMA NoJobIsNone == NoJob \notin Jobs
BY DEF NoJob, Jobs

(* The constructor, the destructor and the owner's steps keep the types. *)
LEMMA OwnerTypeOK ==
  ASSUME TypeOK, OwnerStep
  PROVE  TypeOK'
<1>1. CASE Built
  BY <1>1 DEF TypeOK, Built
<1>2. CASE SpawnFails
  BY <1>2 DEF TypeOK, SpawnFails, StartDestroy
<1>3. CASE Destroy
  BY <1>3 DEF TypeOK, Destroy, StartDestroy
<1>4. CASE Invalidate
  <2>1. \A w \in Workers : at'[w] \in Places /\ (at'[w] = "run" <=> at[w] = "run")
    BY <1>4 DEF TypeOK, Invalidate, WakeAll, Places
  <2>2. at' \in [Workers -> Places]
    BY <1>4, <2>1 DEF TypeOK, Invalidate, WakeAll
  <2>3. QED
    BY <1>4, <2>1, <2>2 DEF TypeOK, Invalidate
<1>5. CASE Join
  BY <1>5 DEF TypeOK, Join
<1>6. QED
  BY <1>1, <1>2, <1>3, <1>4, <1>5 DEF OwnerStep

LEMMA WakeOneOK ==
  ASSUME TypeOK, WakeOne
  PROVE  /\ at' \in [Workers -> Places]
         /\ \A w \in Workers : at'[w] = "run" <=> at[w] = "run"
BY DEF TypeOK, WakeOne, Asleep, Places

LEMMA ClientTypeOK ==
  ASSUME TypeOK, NEW c \in Clients, ClientStep(c)
  PROVE  TypeOK'
<1>1. CASE Submit(c)
  <2> DEFINE j == <<c, sent[c] + 1>>
  <2>1. j \in Jobs
    BY <1>1, JobSubmitted
  <2>2. queue' = Append(queue, j) /\ WakeOne
    BY <1>1 DEF Submit, Push
  <2>3. queue' \in Seq(Jobs)
    BY <2>1, <2>2 DEF TypeOK
  <2>4. sent' \in [Clients -> 0 .. MaxJobs]
    BY <1>1, PoolAssumption DEF Submit, TypeOK
  <2>5. held' \in [Clients -> SUBSET Jobs]
    BY <1>1, <2>1 DEF Submit, TypeOK
  <2>6. QED
    BY <1>1, <2>2, <2>3, <2>4, <2>5, WakeOneOK DEF TypeOK, Submit
<1>2. CASE \E j \in Jobs : Get(c, j)
  BY <1>2 DEF TypeOK, Get
<1>3. QED
  BY <1>1, <1>2 DEF ClientStep

LEMMA WorkerTypeOK ==
  ASSUME TypeOK, NEW w \in Workers, Spawn(w) \/ WorkerStep(w) \/ SpuriousWakeup(w)
  PROVE  TypeOK'
<1>1. CASE Spawn(w)
  BY <1>1 DEF TypeOK, Spawn, Places
<1>2. CASE TestDone(w)
  BY <1>2 DEF TypeOK, TestDone, Places
<1>3. CASE Sleep(w)
  BY <1>3 DEF TypeOK, Sleep, Places
<1>4. CASE Refused(w)
  BY <1>4 DEF TypeOK, Refused, Places
<1>5. CASE Pop(w)
  <2>1. Head(queue) \in Jobs /\ Tail(queue) \in Seq(Jobs)
    BY <1>5 DEF TypeOK, Pop
  <2>2. QED
    BY <1>5, <2>1, NoJobIsNone DEF TypeOK, Pop, Places
<1>6. CASE Execute(w)
  BY <1>6, NoJobIsNone DEF TypeOK, Execute, Places
<1>7. CASE SpuriousWakeup(w)
  BY <1>7 DEF TypeOK, SpuriousWakeup, Places
<1>8. QED
  BY <1>1, <1>2, <1>3, <1>4, <1>5, <1>6, <1>7 DEF WorkerStep

LEMMA NextTypeOK ==
  ASSUME TypeOK, [Next]_vars
  PROVE  TypeOK'
<1>1. CASE UNCHANGED vars
  BY <1>1 DEF TypeOK, vars
<1>2. CASE Gone
  BY <1>2 DEF TypeOK, Gone, vars
<1>3. QED
  BY <1>1, <1>2, OwnerTypeOK, ClientTypeOK, WorkerTypeOK DEF Next

LEMMA InitTypeOK == Init => TypeOK
<1> SUFFICES ASSUME Init PROVE TypeOK
  OBVIOUS
<1>1. queue \in Seq(Jobs) /\ ready \in SUBSET Jobs /\ held \in [Clients -> SUBSET Jobs]
  BY DEF Init
<1>2. \A w \in Workers : task[w] = NoJob /\ at[w] = "unborn"
  BY DEF Init
<1>3. sent \in [Clients -> 0 .. MaxJobs]
  BY PoolAssumption DEF Init
<1>4. at \in [Workers -> Places] /\ task \in [Workers -> Jobs \cup {NoJob}]
  BY DEF Init, Places
<1>5. QED
  BY <1>1, <1>2, <1>3, <1>4 DEF Init, TypeOK

(* The state of the pool keeps its type, and a worker has a task exactly    *)
(* while it executes it.                                                    *)
THEOREM PoolTypeCorrect == Spec => []TypeOK
BY InitTypeOK, NextTypeOK, PTL DEF Spec

-----------------------------------------------------------------------------
(* Counting the workers that look at the queue.                             *)
LEMMA LookingFinite ==
  /\ IsFiniteSet(Looking) /\ Cardinality(Looking) \in Nat
  /\ IsFiniteSet(Looking') /\ Cardinality(Looking') \in Nat
<1>1. Looking \subseteq Workers /\ Looking' \subseteq Workers
  BY DEF Looking
<1>2. QED
  BY <1>1, PoolAssumption, FS_Subset, FS_CardinalityType

LEMMA LookingGrows ==
  ASSUME Looking \subseteq Looking'
  PROVE  Cardinality(Looking) <= Cardinality(Looking')
BY LookingFinite, FS_Subset

LEMMA LookingGains ==
  ASSUME NEW w \in Workers, w \notin Looking, Looking' = Looking \cup {w}
  PROVE  Cardinality(Looking') = Cardinality(Looking) + 1
BY LookingFinite, FS_AddElement

LEMMA LookingLoses ==
  ASSUME NEW w \in Workers, w \in Looking, Looking' = Looking \ {w}
  PROVE  Cardinality(Looking') = Cardinality(Looking) - 1
BY LookingFinite, FS_RemoveElement

LEMMA SubmitWakes ==
  ASSUME WakeupInv, NEW c \in Clients, Submit(c)
  PROVE  NoLostWakeup'
<1> SUFFICES ASSUME Asleep' # {}, ~done'
             PROVE  Len(queue') <= Cardinality(Looking')
  BY DEF NoLostWakeup
<1> DEFINE j == <<c, sent[c] + 1>>
<1>1. Len(queue') = Len(queue) + 1 /\ Len(queue) \in Nat
  <2>1. queue \in Seq(Jobs) /\ j \in Jobs
    BY JobSubmitted DEF WakeupInv, TypeOK
  <2>2. queue' = Append(queue, j)
    BY DEF Submit, Push
  <2> HIDE DEF j
  <2>3. QED
    BY <2>1, <2>2
<1>2. PICK w \in Asleep : at' = [at EXCEPT ![w] = "woken"]
  BY DEF Submit, Push, WakeOne, Asleep
<1>3. w \in Workers /\ w \notin Looking /\ Looking' = Looking \cup {w}
  BY <1>2 DEF WakeupInv, TypeOK, Asleep, Looking
<1>4. Len(queue) <= Cardinality(Looking)
  BY <1>2 DEF WakeupInv, NoLostWakeup, Submit
<1>5. Cardinality(Looking') = Cardinality(Looking) + 1
  BY <1>3, LookingGains
<1>6. QED
  BY <1>1, <1>4, <1>5, LookingFinite

LEMMA PopKeeps ==
  ASSUME WakeupInv, NEW w \in Workers, Pop(w)
  PROVE  NoLostWakeup'
<1> SUFFICES ASSUME Asleep' # {}, ~done'
             PROVE  Len(queue') <= Cardinality(Looking')
  BY DEF NoLostWakeup
<1>1. Len(queue') = Len(queue) - 1 /\ Len(queue) \in Nat
  <2>1. queue \in Seq(Jobs) /\ queue # <<>> /\ queue' = Tail(queue)
    BY DEF WakeupInv, TypeOK, Pop
  <2>2. QED
    BY <2>1
<1>2. w \in Looking /\ Looking' = Looking \ {w}
  BY DEF WakeupInv, TypeOK, Pop, Looking
<1>3. Asleep # {} /\ ~done
  BY DEF WakeupInv, TypeOK, Pop, Asleep
<1>4. Cardinality(Looking') = Cardinality(Looking) - 1
  BY <1>2, LookingLoses
<1>5. Len(queue) <= Cardinality(Looking)
  BY <1>3 DEF WakeupInv, NoLostWakeup
<1>6. QED
  BY <1>1, <1>4, <1>5, LookingFinite

(* A step that adds no job, puts nobody to sleep and makes nobody look away *)
(* cannot break the bound.                                                  *)
LEMMA NothingLost ==
  ASSUME WakeupInv, UNCHANGED queue, Asleep' \subseteq Asleep, Looking \subseteq Looking',
         ~done' => ~done
  PROVE  NoLostWakeup'
BY LookingGrows, LookingFinite DEF NoLostWakeup, WakeupInv, TypeOK

LEMMA WorkerWakes ==
  ASSUME WakeupInv, NEW w \in Workers, Spawn(w) \/ WorkerStep(w) \/ SpuriousWakeup(w)
  PROVE  NoLostWakeup'
<1>1. CASE Sleep(w)
  <2>1. Len(queue') = 0
    BY <1>1 DEF Sleep
  <2>2. QED
    BY <2>1, LookingFinite DEF NoLostWakeup
<1>2. CASE TestDone(w)
  <2>1. CASE done
    BY <1>2, <2>1 DEF NoLostWakeup, TestDone
  <2>2. CASE ~done
    <3>1. Asleep' = Asleep /\ Looking' = Looking
      BY <1>2, <2>2 DEF WakeupInv, TypeOK, TestDone, Asleep, Looking
    <3>2. QED
      BY <1>2, <2>2, <3>1, NothingLost DEF TestDone
  <2>3. QED
    BY <2>1, <2>2
<1>3. CASE Spawn(w) \/ Refused(w) \/ Execute(w) \/ SpuriousWakeup(w)
  <2>1. Asleep' \subseteq Asleep /\ Looking \subseteq Looking' /\ UNCHANGED <<queue, done>>
    BY <1>3 DEF WakeupInv, TypeOK, Spawn, Refused, Execute, SpuriousWakeup, Asleep, Looking
  <2>2. QED
    BY <2>1, NothingLost
<1>4. CASE Pop(w)
  BY <1>4, PopKeeps
<1>5. QED
  BY <1>1, <1>2, <1>3, <1>4 DEF WorkerStep

LEMMA OwnerWakes ==
  ASSUME WakeupInv, OwnerStep
  PROVE  NoLostWakeup'
<1>1. CASE Built \/ Join
  <2>1. Asleep' = Asleep /\ Looking' = Looking /\ UNCHANGED <<queue, done>>
    BY <1>1 DEF Built, Join, Asleep, Looking
  <2>2. QED
    BY <2>1, NothingLost
<1>2. CASE SpawnFails \/ Destroy
  BY <1>2 DEF SpawnFails, Destroy, StartDestroy, NoLostWakeup
<1>3. CASE Invalidate
  <2>1. Asleep' = {}
    BY <1>3 DEF Invalidate, WakeAll, Asleep
  <2>2. QED
    BY <2>1 DEF NoLostWakeup
<1>4. QED
  BY <1>1, <1>2, <1>3 DEF OwnerStep

LEMMA NextWakes ==
  ASSUME WakeupInv, [Next]_vars
  PROVE  WakeupInv'
<1>1. TypeOK'
  BY NextTypeOK DEF WakeupInv
<1>2. CASE UNCHANGED vars
  <2>1. Asleep' = Asleep /\ Looking' = Looking
    BY <1>2 DEF vars, Asleep, Looking
  <2>2. QED
    BY <1>1, <1>2, <2>1, NothingLost DEF vars, WakeupInv
<1>3. CASE \E c \in Clients : Submit(c)
  BY <1>1, <1>3, SubmitWakes DEF WakeupInv
<1>4. CASE \E c \in Clients, j \in Jobs : Get(c, j)
  <2>1. Asleep' = Asleep /\ Looking' = Looking /\ UNCHANGED <<queue, done>>
    BY <1>4 DEF Get, Asleep, Looking
  <2>2. QED
    BY <1>1, <2>1, NothingLost DEF WakeupInv
<1>5. QED
  BY <1>1, <1>2, <1>3, <1>4, OwnerWakes, WorkerWakes DEF Next, ClientStep, Gone, WakeupInv

LEMMA InitWakes == Init => NoLostWakeup
BY DEF Init, NoLostWakeup, Asleep

(* While a worker sleeps, every queued job has a worker about to look at    *)
(* the queue, for any number of workers.                                    *)
THEOREM WakeupsKept == Spec => []NoLostWakeup
<1>1. Init => WakeupInv
  BY InitTypeOK, InitWakes DEF WakeupInv
<1>2. WakeupInv => NoLostWakeup
  BY DEF WakeupInv
<1>3. QED
  BY <1>1, <1>2, NextWakes, PTL DEF Spec

-----------------------------------------------------------------------------
(* Where the jobs are.                                                      *)
JobsInv == TypeOK /\ JobsOnce

LEMMA AppendQueued ==
  ASSUME NEW S, NEW q \in Seq(S), NEW x \in S
  PROVE  /\ {Append(q, x)[i] : i \in DOMAIN Append(q, x)} = {q[i] : i \in DOMAIN q} \cup {x}
         /\ (\A i, k \in DOMAIN q : q[i] = q[k] => i = k) /\ (\A i \in DOMAIN q : q[i] # x)
              => \A i, k \in DOMAIN Append(q, x) :
                   Append(q, x)[i] = Append(q, x)[k] => i = k
<1>1. DOMAIN q = 1 .. Len(q) /\ Len(q) \in Nat
  OBVIOUS
<1>2. DOMAIN Append(q, x) = 1 .. Len(q) + 1
  OBVIOUS
<1>3. \A i \in 1 .. Len(q) : Append(q, x)[i] = q[i]
  OBVIOUS
<1>4. Append(q, x)[Len(q) + 1] = x
  OBVIOUS
<1>5. {Append(q, x)[i] : i \in DOMAIN Append(q, x)} = {q[i] : i \in DOMAIN q} \cup {x}
  BY <1>1, <1>2, <1>3, <1>4
<1>6. ASSUME \A i, k \in DOMAIN q : q[i] = q[k] => i = k,
             \A i \in DOMAIN q : q[i] # x,
             NEW i \in DOMAIN Append(q, x), NEW k \in DOMAIN Append(q, x),
             Append(q, x)[i] = Append(q, x)[k]
      PROVE  i = k
  BY <1>1, <1>2, <1>3, <1>4, <1>6
<1>7. QED
  BY <1>5, <1>6

LEMMA TailQueued ==
  ASSUME NEW S, NEW q \in Seq(S), q # <<>>
  PROVE  /\ {q[i] : i \in DOMAIN q} = {Head(q)} \cup {Tail(q)[i] : i \in DOMAIN Tail(q)}
         /\ (\A i, k \in DOMAIN q : q[i] = q[k] => i = k)
              => /\ \A i, k \in DOMAIN Tail(q) : Tail(q)[i] = Tail(q)[k] => i = k
                 /\ \A i \in DOMAIN Tail(q) : Tail(q)[i] # Head(q)
<1>1. DOMAIN q = 1 .. Len(q) /\ Len(q) \in Nat /\ Len(q) > 0
  OBVIOUS
<1>2. DOMAIN Tail(q) = 1 .. Len(q) - 1
  OBVIOUS
<1>3. \A i \in 1 .. Len(q) - 1 : Tail(q)[i] = q[i + 1]
  OBVIOUS
<1>4. Head(q) = q[1]
  OBVIOUS
<1>5. {q[i] : i \in DOMAIN q} \subseteq {Head(q)} \cup {Tail(q)[i] : i \in DOMAIN Tail(q)}
  <2> SUFFICES ASSUME NEW i \in 1 .. Len(q)
               PROVE  q[i] = Head(q) \/ \E k \in DOMAIN Tail(q) : q[i] = Tail(q)[k]
    BY <1>1
  <2>1. CASE i = 1
    BY <1>4, <2>1
  <2>2. CASE i # 1
    <3>1. i - 1 \in 1 .. Len(q) - 1 /\ (i - 1) + 1 = i
      BY <1>1, <2>2
    <3>2. Tail(q)[i - 1] = q[i]
      BY <1>3, <3>1
    <3>3. QED
      BY <1>2, <3>1, <3>2
  <2>3. QED
    BY <2>1, <2>2
<1>6. {Head(q)} \cup {Tail(q)[i] : i \in DOMAIN Tail(q)} \subseteq {q[i] : i \in DOMAIN q}
  BY <1>1, <1>2, <1>3, <1>4
<1>7. ASSUME \A i, k \in DOMAIN q : q[i] = q[k] => i = k
      PROVE  /\ \A i, k \in DOMAIN Tail(q) : Tail(q)[i] = Tail(q)[k] => i = k
             /\ \A i \in DOMAIN Tail(q) : Tail(q)[i] # Head(q)
  BY <1>1, <1>2, <1>3, <1>4, <1>7
<1>8. QED
  BY <1>5, <1>6, <1>7

LEMMA SubmitOnce ==
  ASSUME JobsInv, NEW c \in Clients, Submit(c)
  PROVE  /\ JobsOnce'
         /\ <<c, sent[c] + 1>> \notin Queued \cup Executing \cup ready
         /\ Executing' = Executing
<1> DEFINE j == <<c, sent[c] + 1>>
<1>1. j \in Jobs /\ queue \in Seq(Jobs) /\ queue' = Append(queue, j) /\ WakeOne
  BY JobSubmitted DEF JobsInv, TypeOK, Submit, Push
<1>2. Executing' = Executing /\ UNCHANGED <<task, ready>> /\ \A w \in Workers : at'[w] = "run" <=> at[w] = "run"
  BY <1>1, WakeOneOK DEF JobsInv, Submit, Executing
<1>3. j \notin Submitted
  BY DEF Submitted, JobsInv, TypeOK
<1>4. Submitted' = Submitted \cup {j}
  <2>1. sent' = [sent EXCEPT ![c] = sent[c] + 1] /\ sent \in [Clients -> 0 .. MaxJobs]
    BY DEF Submit, JobsInv, TypeOK
  <2>2. \A i \in Jobs : i = <<i[1], i[2]>> /\ i[1] \in Clients /\ i[2] \in 1 .. MaxJobs
    BY DEF Jobs
  <2>3. \A i \in Jobs : i \in Submitted' <=> i \in Submitted \cup {j}
    <3> SUFFICES ASSUME NEW i \in Jobs
                 PROVE  i[2] <= sent'[i[1]] <=> i[2] <= sent[i[1]] \/ i = j
      BY DEF Submitted
    <3>1. CASE i[1] = c
      <4>1. sent'[i[1]] = sent[c] + 1 /\ sent[c] \in Nat /\ i[2] \in Nat
        BY <2>1, <2>2, <3>1, PoolAssumption
      <4>2. i = j <=> i[2] = sent[c] + 1
        BY <2>2, <3>1
      <4>3. QED
        BY <3>1, <4>1, <4>2
    <3>2. CASE i[1] # c
      BY <2>1, <2>2, <3>2
    <3>3. QED
      BY <3>1, <3>2
  <2>4. QED
    BY <1>1, <2>3 DEF Submitted
<1>5. j \notin Queued \cup Executing \cup ready
  BY <1>3 DEF JobsInv, JobsOnce
<1> HIDE DEF j
<1>6. /\ Queued' = Queued \cup {j}
      /\ \A i, k \in DOMAIN queue' : queue'[i] = queue'[k] => i = k
  BY <1>1, <1>5, AppendQueued DEF Queued, JobsInv, JobsOnce
<1>7. JobsOnce'
  BY <1>2, <1>4, <1>5, <1>6 DEF JobsOnce, JobsInv
<1>8. QED
  BY <1>2, <1>5, <1>7 DEF j

LEMMA PopOnce ==
  ASSUME JobsInv, NEW w \in Workers, Pop(w)
  PROVE  JobsOnce' /\ Executing' = Executing \cup {Head(queue)}
<1>1. queue \in Seq(Jobs) /\ queue # <<>> /\ queue' = Tail(queue)
  BY DEF JobsInv, TypeOK, Pop
<1>2. /\ Queued = {Head(queue)} \cup Queued' /\ Head(queue) \notin Queued'
      /\ \A i, k \in DOMAIN queue' : queue'[i] = queue'[k] => i = k
  BY <1>1, TailQueued DEF Queued, JobsInv, JobsOnce
<1>3. /\ task'[w] = Head(queue) /\ at'[w] = "run" /\ at[w] # "run"
      /\ \A v \in Workers \ {w} : task'[v] = task[v] /\ at'[v] = at[v]
  BY DEF JobsInv, TypeOK, Pop
<1>4. Executing' = Executing \cup {Head(queue)}
  BY <1>3 DEF Executing
<1>5. Head(queue) \notin Executing
  BY <1>2 DEF JobsInv, JobsOnce
<1>6. \A u, v \in Workers : at'[u] = "run" /\ task'[u] = task'[v] => u = v
  <2> SUFFICES ASSUME NEW u \in Workers, NEW v \in Workers, at'[u] = "run", task'[u] = task'[v]
               PROVE  u = v
    OBVIOUS
  <2>1. CASE u # w /\ v # w
    BY <1>3, <2>1 DEF JobsInv, JobsOnce
  <2>2. CASE u = w /\ v # w
    <3>1. task[v] = Head(queue) /\ Head(queue) \in Jobs
      BY <1>1, <1>3, <2>2
    <3>2. at[v] = "run"
      BY <3>1, NoJobIsNone DEF JobsInv, TypeOK
    <3>3. QED
      BY <1>5, <3>1, <3>2 DEF Executing
  <2>3. CASE u # w /\ v = w
    BY <1>3, <1>5, <2>3 DEF Executing
  <2>4. QED
    BY <2>1, <2>2, <2>3
<1>7. UNCHANGED <<ready, sent>> /\ Submitted' = Submitted
  BY DEF Pop, Submitted
<1>8. JobsOnce'
  BY <1>2, <1>4, <1>5, <1>6, <1>7 DEF JobsOnce, JobsInv
<1>9. QED
  BY <1>4, <1>8

LEMMA ExecuteOnce ==
  ASSUME JobsInv, NEW w \in Workers, Execute(w)
  PROVE  /\ JobsOnce' /\ task[w] \in Executing
         /\ Executing' = Executing \ {task[w]}
<1>1. /\ at[w] = "run" /\ at'[w] # "run" /\ task'[w] = NoJob
      /\ \A v \in Workers \ {w} : task'[v] = task[v] /\ at'[v] = at[v]
      /\ ready' = ready \cup {task[w]} /\ UNCHANGED <<queue, sent>>
  BY DEF JobsInv, TypeOK, Execute
<1>2. \A v \in Workers : at[v] = "run" /\ task[v] = task[w] => v = w
  BY <1>1 DEF JobsInv, JobsOnce
<1>3. task[w] \in Executing /\ Executing' = Executing \ {task[w]}
  BY <1>1, <1>2 DEF Executing
<1>4. Queued' = Queued /\ Submitted' = Submitted
  BY <1>1 DEF Queued, Submitted
<1>5. \A u, v \in Workers : at'[u] = "run" /\ task'[u] = task'[v] => u = v
  <2> SUFFICES ASSUME NEW u \in Workers, NEW v \in Workers, at'[u] = "run", task'[u] = task'[v]
               PROVE  u = v
    OBVIOUS
  <2>1. u # w /\ at[u] = "run" /\ task[u] \in Jobs
    BY <1>1, NoJobIsNone DEF JobsInv, TypeOK
  <2>2. v # w
    BY <1>1, <2>1, NoJobIsNone
  <2>3. QED
    BY <1>1, <2>1, <2>2 DEF JobsInv, JobsOnce
<1>6. JobsOnce'
  BY <1>1, <1>3, <1>4, <1>5 DEF JobsOnce, JobsInv
<1>7. QED
  BY <1>3, <1>6

(* The steps of the other kinds move no job. *)
LEMMA NoJobMoves ==
  ASSUME JobsInv, UNCHANGED <<queue, task, ready, sent>>,
         \A w \in Workers : at'[w] = "run" <=> at[w] = "run"
  PROVE  JobsOnce' /\ UNCHANGED <<queue, Executing, ready>>
<1>1. Queued' = Queued /\ Submitted' = Submitted /\ Executing' = Executing
  BY DEF Queued, Submitted, Executing
<1>2. QED
  BY <1>1 DEF JobsInv, JobsOnce

Quiet == \/ OwnerStep \/ Gone \/ UNCHANGED vars
         \/ \E w \in Workers : Spawn(w) \/ TestDone(w) \/ Sleep(w) \/ Refused(w) \/ SpuriousWakeup(w)
         \/ \E c \in Clients, j \in Jobs : Get(c, j)

LEMMA QuietMovesNoJob ==
  ASSUME JobsInv, Quiet
  PROVE  JobsOnce' /\ UNCHANGED <<queue, Executing, ready>>
<1>1. UNCHANGED <<queue, task, ready, sent>>
  BY DEF Quiet, OwnerStep, Gone, vars, Spawn, TestDone, Sleep, Refused, SpuriousWakeup, Get,
         Built, SpawnFails, Destroy, StartDestroy, Invalidate, Join
<1>2. \A w \in Workers : at'[w] = "run" <=> at[w] = "run"
  BY DEF JobsInv, TypeOK, Quiet, OwnerStep, Gone, vars, Spawn, TestDone, Sleep, Refused,
         SpuriousWakeup, Get, Built, SpawnFails, Destroy, StartDestroy, Invalidate, WakeAll, Join
<1>3. QED
  BY <1>1, <1>2, NoJobMoves

LEMMA NextIsOneOf ==
  [Next]_vars <=> \/ Quiet
                  \/ \E c \in Clients : Submit(c)
                  \/ \E w \in Workers : Pop(w) \/ Execute(w)
BY DEF Next, Quiet, ClientStep, WorkerStep

LEMMA NextOnce ==
  ASSUME JobsInv, [Next]_vars
  PROVE  JobsInv'
BY NextTypeOK, NextIsOneOf, QuietMovesNoJob, SubmitOnce, PopOnce, ExecuteOnce DEF JobsInv

LEMMA InitOnce == Init => JobsInv
<1> SUFFICES ASSUME Init PROVE JobsOnce
  BY InitTypeOK DEF JobsInv
<1>1. Queued = {} /\ Executing = {} /\ ready = {} /\ DOMAIN queue = {}
  BY DEF Init, Queued, Executing
<1>2. Submitted = {}
  BY PoolAssumption DEF Init, Submitted, Jobs
<1>3. \A w \in Workers : at[w] # "run"
  BY DEF Init
<1>4. QED
  BY <1>1, <1>2, <1>3 DEF JobsOnce

LEMMA JobsInvariant == Spec => []JobsInv
BY InitOnce, NextOnce, PTL DEF Spec

(* Every job is in the queue once, with one worker, or answered.            *)
THEOREM JobsKeptOnce == Spec => []JobsOnce
<1>1. JobsInv => JobsOnce
  BY DEF JobsInv
<1>2. QED
  BY <1>1, JobsInvariant, PTL

-----------------------------------------------------------------------------
(* Every step of the pool is a step of the service or none of its business. *)
LEMMA StepServes ==
  ASSUME JobsInv, [Next]_vars
  PROVE  [Service!Next]_(Service!vars)
<1>1. CASE Quiet
  BY <1>1, QuietMovesNoJob DEF Service!vars
<1>2. ASSUME NEW c \in Clients, Submit(c)
      PROVE  Service!Next
  <2> DEFINE j == <<c, sent[c] + 1>>
  <2>1. j \in Jobs /\ queue' = Append(queue, j) /\ UNCHANGED ready
    BY <1>2, JobSubmitted DEF JobsInv, Submit, Push
  <2>2. j \notin Queued \cup Executing \cup ready /\ Executing' = Executing
    BY <1>2, SubmitOnce
  <2> HIDE DEF j
  <2>3. Service!Submit(j)
    BY <2>1, <2>2 DEF Service!Submit, Service!Fresh, Queued
  <2>4. QED
    BY <2>1, <2>3 DEF Service!Next
<1>3. ASSUME NEW w \in Workers, Pop(w)
      PROVE  Service!Next
  <2>1. Executing' = Executing \cup {Head(queue)}
    BY <1>3, PopOnce
  <2>2. queue # <<>> /\ queue' = Tail(queue) /\ UNCHANGED ready
    BY <1>3 DEF Pop
  <2>3. QED
    BY <2>1, <2>2 DEF Service!Next, Service!Start
<1>4. ASSUME NEW w \in Workers, Execute(w)
      PROVE  Service!Next
  <2>1. task[w] \in Executing /\ Executing' = Executing \ {task[w]}
    BY <1>4, ExecuteOnce
  <2>2. task[w] \in Jobs /\ ready' = ready \cup {task[w]} /\ UNCHANGED queue
    BY <1>4 DEF Execute, JobsInv, TypeOK
  <2>3. Service!Finish(task[w])
    BY <2>1, <2>2 DEF Service!Finish
  <2>4. QED
    BY <2>2, <2>3 DEF Service!Next
<1>5. QED
  BY <1>1, <1>2, <1>3, <1>4, NextIsOneOf

LEMMA InitServes == Init => Service!Init
BY DEF Init, Service!Init, Executing

(* The pool implements JobService for any number of workers and clients:    *)
(* jobs are started once, in the order they were submitted.                 *)
THEOREM PoolImplementsService == Spec => ImplementsService
<1>1. JobsInv /\ [Next]_vars => [Service!Next]_(Service!vars)
  BY StepServes
<1>2. QED
  BY <1>1, InitServes, JobsInvariant, PTL DEF Spec, ImplementsService, Service!Spec
=============================================================================
