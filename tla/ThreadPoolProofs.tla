-------------------------- MODULE ThreadPoolProofs --------------------------
(***************************************************************************)
(* For any number of workers, spinners and jobs: the type invariant of     *)
(* ThreadPool, the meaning of outstanding_, the absence of lost wake-ups,  *)
(* and that the pool implements JobBarrier.                                *)
(***************************************************************************)
EXTENDS ThreadPool, FiniteSetTheorems, TLAPS

\* terminate_ is up exactly while stop() is past its early return, so workers
\* exist then.
Stopping ==
    /\ terminate <=> caller \in {"notify_all", "join"}
    /\ terminate => threads # {}

\* A worker returns from loop() only when nothing is queued, and from then on
\* nobody can enqueue.
ExitMeansDrained ==
    (\E w \in Worker : pc[w] = "exited") =>
        (jobs = <<>> /\ caller \in {"notify_all", "join"})

\* Lost wake-ups cannot happen (inductive with the facts above).
WakeInv == TypeOK /\ Stopping /\ ExitMeansDrained /\ OutstandingCounts /\ NoLostWakeup
-----------------------------------------------------------------------------
LEMMA InFlightFinite == InFlight \subseteq Worker /\ IsFiniteSet(InFlight)
  <1>1. InFlight \subseteq Worker  BY DEF InFlight
  <1> QED  BY <1>1, PoolAssumption, FS_Subset

LEMMA InitWakeInv == Init => WakeInv
  <1> SUFFICES ASSUME Init PROVE WakeInv  OBVIOUS
  <1>0. jobs \in Seq(Job)  BY DEF Init
  <1>1. TypeOK  BY <1>0 DEF Init, TypeOK, WorkerPC, CallerPC
  <1>2. InFlight = {}  BY DEF Init, InFlight
  <1>3. OutstandingCounts  BY <1>2, FS_EmptySet DEF Init, OutstandingCounts
  <1> QED  BY <1>1, <1>3
        DEF Init, WakeInv, Stopping, ExitMeansDrained, NoLostWakeup

\* Type correctness and the two structural facts, action by action.
LEMMA TypeStep ==
    ASSUME WakeInv, [Next]_vars
    PROVE  TypeOK'
  <1> USE DEF WakeInv, TypeOK, WorkerPC, CallerPC, queueVars, workerVars, keeperVars
  <1>1. ASSUME NEW ws \in SUBSET Worker, NEW p \in BOOLEAN, Start(ws, p) PROVE TypeOK'
    BY <1>1 DEF Start
  <1>2. ASSUME NEW j \in Job, Enqueue(j) PROVE TypeOK'
    BY <1>2 DEF Enqueue
  <1>3. ASSUME NEW ss \in SUBSET Spinner, StartClockKeeper(ss) PROVE TypeOK'
    BY <1>3 DEF StartClockKeeper
  <1>4. CASE BeginWait BY <1>4 DEF BeginWait
  <1>5. CASE StopClockKeeper BY <1>5 DEF StopClockKeeper, RaiseSpinnerStop
  <1>6. CASE BeginStop BY <1>6 DEF BeginStop, RaiseSpinnerStop
  <1>7. CASE NotifyOne BY <1>7 DEF NotifyOne
  <1>8. CASE WaitSleep BY <1>8 DEF WaitSleep
  <1>9. CASE WaitReturn BY <1>9 DEF WaitReturn
  <1>10. CASE KeeperStopped BY <1>10 DEF KeeperStopped, JoinSpinners
  <1>11. CASE StopKeeperJoined BY <1>11 DEF StopKeeperJoined, JoinSpinners
  <1>12. CASE SetTerminate BY <1>12 DEF SetTerminate
  <1>13. CASE NotifyAll BY <1>13 DEF NotifyAll
  <1>14. CASE JoinAll
    <2>1. jobs' \in Seq(Job)  BY <1>14 DEF JoinAll
    <2> QED  BY <1>14, <2>1 DEF JoinAll
  <1>15. CASE SpuriousDoneWake BY <1>15 DEF SpuriousDoneWake
  <1>16. ASSUME NEW w \in Worker, Sleep(w) PROVE TypeOK' BY <1>16 DEF Sleep
  <1>17. ASSUME NEW w \in Worker, Exit(w) PROVE TypeOK' BY <1>17 DEF Exit
  <1>18. ASSUME NEW w \in Worker, Pop(w) PROVE TypeOK' BY <1>18 DEF Pop
  <1>19. ASSUME NEW w \in Worker, RunJob(w) PROVE TypeOK' BY <1>19 DEF RunJob
  <1>20. ASSUME NEW w \in Worker, RecordError(w) PROVE TypeOK'
    BY <1>20 DEF RecordError
  <1>21. ASSUME NEW w \in Worker, FinishJob(w) PROVE TypeOK'
    <2>1. w \in InFlight  BY <1>21 DEF FinishJob, InFlight
    <2>2. Cardinality(InFlight) \in Nat /\ Cardinality(InFlight) # 0
      BY <2>1, InFlightFinite, FS_CardinalityType, FS_EmptySet
    <2>3. outstanding - 1 \in Nat  BY <2>2 DEF OutstandingCounts
    <2> QED  BY <1>21, <2>3 DEF FinishJob
  <1>22. ASSUME NEW w \in Worker, SpuriousJobWake(w) PROVE TypeOK'
    BY <1>22 DEF SpuriousJobWake
  <1>23. ASSUME NEW s \in Spinner, SpinnerExit(s) PROVE TypeOK'
    BY <1>23 DEF SpinnerExit
  <1>24. CASE UNCHANGED vars BY <1>24 DEF vars
  <1> QED
    BY <1>1, <1>2, <1>3, <1>4, <1>5, <1>6, <1>7, <1>8, <1>9, <1>10, <1>11, <1>12,
       <1>13, <1>14, <1>15, <1>16, <1>17, <1>18, <1>19, <1>20, <1>21, <1>22, <1>23,
       <1>24 DEF Next, Call, CallerStep, WorkerStep

LEMMA WakeStep ==
    ASSUME WakeInv, [Next]_vars
    PROVE  Stopping' /\ ExitMeansDrained' /\ NoLostWakeup'
  <1> DEFINE Goal == Stopping /\ ExitMeansDrained /\ NoLostWakeup
  <1> USE DEF WakeInv, TypeOK, WorkerPC, CallerPC, queueVars, workerVars, keeperVars,
              Stopping, ExitMeansDrained, NoLostWakeup
  <1>1. ASSUME NEW ws \in SUBSET Worker, NEW p \in BOOLEAN, Start(ws, p) PROVE Goal'
    BY <1>1 DEF Start
  <1>2. ASSUME NEW j \in Job, Enqueue(j) PROVE Goal'
    BY <1>2 DEF Enqueue
  <1>3. ASSUME NEW ss \in SUBSET Spinner, StartClockKeeper(ss) PROVE Goal'
    BY <1>3 DEF StartClockKeeper
  <1>4. CASE BeginWait
    BY <1>4 DEF BeginWait
  <1>5. CASE StopClockKeeper
    BY <1>5 DEF StopClockKeeper, RaiseSpinnerStop
  <1>6. CASE BeginStop
    BY <1>6 DEF BeginStop, RaiseSpinnerStop
  <1>7. CASE NotifyOne
    BY <1>7 DEF NotifyOne
  <1>8. CASE WaitSleep
    BY <1>8 DEF WaitSleep
  <1>9. CASE WaitReturn
    BY <1>9 DEF WaitReturn
  <1>10. CASE KeeperStopped
    BY <1>10 DEF KeeperStopped, JoinSpinners
  <1>11. CASE StopKeeperJoined
    BY <1>11 DEF StopKeeperJoined, JoinSpinners
  <1>12. CASE SetTerminate
    BY <1>12 DEF SetTerminate
  <1>13. CASE NotifyAll
    BY <1>13 DEF NotifyAll
  <1>14. CASE JoinAll
    <2>1. threads' = {} /\ jobs' = <<>> /\ caller' = "idle" /\ terminate' = FALSE
      BY <1>14 DEF JoinAll
    <2>2. \A w \in Worker : pc'[w] = "off"  BY <1>14 DEF JoinAll
    <2> QED  BY <2>1, <2>2
  <1>15. CASE SpuriousDoneWake
    BY <1>15 DEF SpuriousDoneWake
  <1>16. ASSUME NEW w \in Worker, Sleep(w) PROVE Goal'
    BY <1>16 DEF Sleep
  <1>17. ASSUME NEW w \in Worker, Exit(w) PROVE Goal'
    BY <1>17 DEF Exit
  <1>18. ASSUME NEW w \in Worker, Pop(w) PROVE Goal'
    BY <1>18 DEF Pop
  <1>19. ASSUME NEW w \in Worker, RunJob(w) PROVE Goal'
    BY <1>19 DEF RunJob
  <1>20. ASSUME NEW w \in Worker, RecordError(w) PROVE Goal'
    BY <1>20 DEF RecordError
  <1>21. ASSUME NEW w \in Worker, FinishJob(w) PROVE Goal'
    BY <1>21 DEF FinishJob
  <1>22. ASSUME NEW w \in Worker, SpuriousJobWake(w) PROVE Goal'
    BY <1>22 DEF SpuriousJobWake
  <1>23. ASSUME NEW s \in Spinner, SpinnerExit(s) PROVE Goal'
    BY <1>23 DEF SpinnerExit
  <1>24. CASE UNCHANGED vars
    BY <1>24 DEF vars
  <1> QED
    BY <1>1, <1>2, <1>3, <1>4, <1>5, <1>6, <1>7, <1>8, <1>9, <1>10, <1>11, <1>12,
       <1>13, <1>14, <1>15, <1>16, <1>17, <1>18, <1>19, <1>20, <1>21, <1>22, <1>23,
       <1>24 DEF Next, Call, CallerStep, WorkerStep

\* The actions that neither queue, take, finish nor drop a job change neither the
\* queue, nor its count, nor the set of workers that hold a job.
LEMMA SameJobs ==
    ASSUME WakeInv, [Next]_vars,
           ~ \E j \in Job : Enqueue(j),
           ~ \E w \in Worker : Pop(w) \/ FinishJob(w),
           ~ JoinAll
    PROVE  UNCHANGED <<jobs, outstanding, cur>> /\ InFlight' = InFlight
  <1> DEFINE Same == UNCHANGED <<jobs, outstanding, cur>> /\ InFlight' = InFlight
  <1> USE DEF WakeInv, TypeOK, WorkerPC, queueVars, workerVars, InFlight
  <1>1. ASSUME NEW ws \in SUBSET Worker, NEW p \in BOOLEAN, Start(ws, p) PROVE Same
    BY <1>1 DEF Start
  <1>2. ASSUME NEW ss \in SUBSET Spinner, StartClockKeeper(ss) PROVE Same
    BY <1>2 DEF StartClockKeeper
  <1>3. ASSUME BeginWait PROVE Same
    BY <1>3 DEF BeginWait
  <1>4. ASSUME StopClockKeeper PROVE Same
    BY <1>4 DEF StopClockKeeper, RaiseSpinnerStop
  <1>5. ASSUME BeginStop PROVE Same
    BY <1>5 DEF BeginStop, RaiseSpinnerStop
  <1>6. ASSUME NotifyOne PROVE Same
    BY <1>6 DEF NotifyOne
  <1>7. ASSUME WaitSleep PROVE Same
    BY <1>7 DEF WaitSleep
  <1>8. ASSUME WaitReturn PROVE Same
    BY <1>8 DEF WaitReturn
  <1>9. ASSUME KeeperStopped PROVE Same
    BY <1>9 DEF KeeperStopped, JoinSpinners
  <1>10. ASSUME StopKeeperJoined PROVE Same
    BY <1>10 DEF StopKeeperJoined, JoinSpinners
  <1>11. ASSUME SetTerminate PROVE Same
    BY <1>11 DEF SetTerminate
  <1>12. ASSUME NotifyAll PROVE Same
    BY <1>12 DEF NotifyAll
  <1>13. ASSUME SpuriousDoneWake PROVE Same
    BY <1>13 DEF SpuriousDoneWake
  <1>14. ASSUME NEW w \in Worker, Sleep(w) PROVE Same
    BY <1>14 DEF Sleep
  <1>15. ASSUME NEW w \in Worker, Exit(w) PROVE Same
    BY <1>15 DEF Exit
  <1>16. ASSUME NEW w \in Worker, RunJob(w) PROVE Same
    BY <1>16 DEF RunJob
  <1>17. ASSUME NEW w \in Worker, RecordError(w) PROVE Same
    BY <1>17 DEF RecordError
  <1>18. ASSUME NEW w \in Worker, SpuriousJobWake(w) PROVE Same
    BY <1>18 DEF SpuriousJobWake
  <1>19. ASSUME NEW s \in Spinner, SpinnerExit(s) PROVE Same
    BY <1>19 DEF SpinnerExit
  <1>20. ASSUME UNCHANGED vars PROVE Same
    BY <1>20 DEF vars
  <1> HIDE DEF Same
  <1>q. Same
    BY <1>1, <1>2, <1>3, <1>4, <1>5, <1>6, <1>7, <1>8, <1>9, <1>10, <1>11, <1>12,
       <1>13, <1>14, <1>15, <1>16, <1>17, <1>18, <1>19, <1>20
    DEF Next, Call, CallerStep, WorkerStep
  <1> QED  BY <1>q DEF Same

LEMMA CountStep ==
    ASSUME WakeInv, [Next]_vars
    PROVE  OutstandingCounts'
  <1> USE DEF WakeInv, TypeOK
  <1>c. Cardinality(InFlight) \in Nat  BY InFlightFinite, FS_CardinalityType
  <1>1. ASSUME NEW j \in Job, Enqueue(j) PROVE OutstandingCounts'
    <2>1. InFlight' = InFlight  BY <1>1 DEF Enqueue, InFlight, workerVars
    <2>2. Len(jobs') = Len(jobs) + 1  BY <1>1 DEF Enqueue
    <2> QED  BY <1>1, <1>c, <2>1, <2>2 DEF Enqueue, OutstandingCounts
  <1>2. ASSUME NEW w \in Worker, Pop(w) PROVE OutstandingCounts'
    <2>1. InFlight' = InFlight \cup {w} /\ w \notin InFlight
      BY <1>2 DEF Pop, InFlight, WorkerPC
    <2>2. Cardinality(InFlight') = Cardinality(InFlight) + 1
      BY <2>1, InFlightFinite, FS_AddElement
    <2>3. Len(jobs') = Len(jobs) - 1 /\ Len(jobs) \in Nat  BY <1>2 DEF Pop
    <2> QED  BY <1>2, <1>c, <2>2, <2>3 DEF Pop, OutstandingCounts
  <1>3. ASSUME NEW w \in Worker, FinishJob(w) PROVE OutstandingCounts'
    <2>1. InFlight' = InFlight \ {w} /\ w \in InFlight
      BY <1>3 DEF FinishJob, InFlight, WorkerPC
    <2>2. Cardinality(InFlight') = Cardinality(InFlight) - 1
      BY <2>1, InFlightFinite, FS_RemoveElement
    <2>3. jobs' = jobs /\ Len(jobs) \in Nat  BY <1>3 DEF FinishJob
    <2> QED  BY <1>3, <1>c, <2>2, <2>3 DEF FinishJob, OutstandingCounts
  <1>4. ASSUME JoinAll PROVE OutstandingCounts'
    <2>1. InFlight' = {}  BY <1>4 DEF JoinAll, InFlight
    <2> QED  BY <1>4, <2>1, FS_EmptySet DEF JoinAll, OutstandingCounts
  <1>5. ASSUME UNCHANGED <<jobs, outstanding>>, InFlight' = InFlight
        PROVE  OutstandingCounts'
    BY <1>5 DEF OutstandingCounts
  <1> QED  BY <1>1, <1>2, <1>3, <1>4, <1>5, SameJobs

LEMMA WakeInvariant == Spec => []WakeInv
  <1>1. WakeInv /\ [Next]_vars => WakeInv'
    BY TypeStep, WakeStep, CountStep DEF WakeInv
  <1> QED  BY <1>1, InitWakeInv, PTL DEF Spec

\* Every variable of the pool keeps its type, for any number of threads and jobs.
THEOREM PoolTypeCorrect == Spec => []TypeOK
  BY WakeInvariant, PTL DEF WakeInv

\* outstanding_, which wait() tests, is the number of queued and running jobs in
\* every reachable state of start, enqueue, wait, loop and stop.
THEOREM PoolCounts == Spec => []OutstandingCounts
  BY WakeInvariant, PTL DEF WakeInv

\* enqueue(), loop() and stop() never lose a wake-up.
THEOREM PoolLosesNoWakeup == Spec => []NoLostWakeup
  BY WakeInvariant, PTL DEF WakeInv
-----------------------------------------------------------------------------
(* The pool implements JobBarrier.                                         *)

\* No job is in the system twice: not queued twice, not held by two workers, not
\* both queued and held.
DistinctJobs ==
    /\ \A i, k \in DOMAIN jobs : jobs[i] = jobs[k] => i = k
    /\ \A w \in InFlight : cur[w] \in Job /\ cur[w] \notin Queued
    /\ \A w, v \in InFlight : cur[w] = cur[v] => w = v

LEMMA QueueFacts ==
    ASSUME NEW q \in Seq(Job), NEW j \in Job
    PROVE  /\ Append(q, j) \in Seq(Job) /\ Len(Append(q, j)) = Len(q) + 1
           /\ DOMAIN q = 1 .. Len(q) /\ Len(q) \in Nat
           /\ \A i \in 1 .. Len(q) : Append(q, j)[i] = q[i]
           /\ Append(q, j)[Len(q) + 1] = j
           /\ q # <<>> => /\ Len(q) > 0 /\ Head(q) = q[1] /\ Len(Tail(q)) = Len(q) - 1
                          /\ Tail(q) \in Seq(Job)
                          /\ \A i \in 1 .. Len(q) - 1 : Tail(q)[i] = q[i + 1]
  OBVIOUS

LEMMA EnqueueQueued ==
    ASSUME TypeOK, NEW j \in Job, jobs' = Append(jobs, j)
    PROVE  Queued' = Queued \cup {j}
  <1> DEFINE n == Len(jobs)
  <1>1. /\ DOMAIN jobs = 1 .. n /\ n \in Nat /\ DOMAIN jobs' = 1 .. n + 1
        /\ \A i \in 1 .. n : jobs'[i] = jobs[i]
        /\ jobs'[n + 1] = j
    BY QueueFacts DEF TypeOK
  <1> HIDE DEF n
  <1> QED  BY <1>1 DEF Queued

LEMMA PopQueued ==
    ASSUME TypeOK, jobs # <<>>, jobs' = Tail(jobs),
           \A i, k \in DOMAIN jobs : jobs[i] = jobs[k] => i = k
    PROVE  /\ Queued = Queued' \cup {Head(jobs)} /\ Head(jobs) \notin Queued'
           /\ Head(jobs) \in Job
           /\ \A i, k \in DOMAIN jobs' : jobs'[i] = jobs'[k] => i = k
  <1> DEFINE n == Len(jobs)
  <1>1. /\ DOMAIN jobs = 1 .. n /\ n \in Nat /\ n > 0 /\ DOMAIN jobs' = 1 .. n - 1
        /\ \A i \in 1 .. n - 1 : jobs'[i] = jobs[i + 1]
        /\ Head(jobs) = jobs[1] /\ Head(jobs) \in Job
    BY QueueFacts DEF TypeOK
  <1> HIDE DEF n
  <1>2. Queued' \subseteq Queued /\ Head(jobs) \in Queued  BY <1>1 DEF Queued
  <1>3. Queued \subseteq Queued' \cup {Head(jobs)}
    <2> SUFFICES ASSUME NEW i \in DOMAIN jobs PROVE jobs[i] \in Queued' \cup {Head(jobs)}
      BY DEF Queued
    <2>1. CASE i = 1  BY <2>1, <1>1
    <2>2. CASE i # 1
      <3>1. i - 1 \in DOMAIN jobs' /\ jobs'[i - 1] = jobs[i]  BY <2>2, <1>1
      <3> QED  BY <3>1 DEF Queued
    <2> QED  BY <2>1, <2>2
  <1>4. Head(jobs) \notin Queued'  BY <1>1 DEF Queued
  <1>5. \A i, k \in DOMAIN jobs' : jobs'[i] = jobs'[k] => i = k  BY <1>1
  <1> QED  BY <1>1, <1>2, <1>3, <1>4, <1>5

LEMMA DistinctStep ==
    ASSUME WakeInv, DistinctJobs, [Next]_vars
    PROVE  DistinctJobs'
  <1>t. TypeOK  BY DEF WakeInv
  <1>1. ASSUME NEW j \in Job, Enqueue(j) PROVE DistinctJobs'
    <2>1. InFlight' = InFlight /\ cur' = cur /\ jobs' = Append(jobs, j) /\ j \notin Todo
      BY <1>1 DEF Enqueue, InFlight, workerVars
    <2>2. Queued' = Queued \cup {j}  BY <1>t, <2>1, EnqueueQueued
    <2>3. \A i, k \in DOMAIN jobs' : jobs'[i] = jobs'[k] => i = k
      <3> DEFINE n == Len(jobs)
      <3>1. /\ DOMAIN jobs = 1 .. n /\ n \in Nat /\ DOMAIN jobs' = 1 .. n + 1
            /\ \A i \in 1 .. n : jobs'[i] = jobs[i]
            /\ jobs'[n + 1] = j
        BY <1>t, <2>1, QueueFacts DEF TypeOK
      <3>2. \A i \in DOMAIN jobs : jobs[i] # j  BY <2>1 DEF Todo, Queued
      <3> HIDE DEF n
      <3> QED  BY <3>1, <3>2 DEF DistinctJobs
    <2>4. \A w \in InFlight : cur[w] # j  BY <2>1 DEF Todo
    <2> QED  BY <2>1, <2>2, <2>3, <2>4 DEF DistinctJobs
  <1>2. ASSUME NEW w \in Worker, Pop(w) PROVE DistinctJobs'
    <2>1. /\ InFlight' = InFlight \cup {w} /\ w \notin InFlight
          /\ cur' = [cur EXCEPT ![w] = Head(jobs)]
          /\ jobs # <<>> /\ jobs' = Tail(jobs)
      BY <1>2, <1>t DEF Pop, InFlight, TypeOK, WorkerPC
    <2>2. /\ Queued = Queued' \cup {Head(jobs)} /\ Head(jobs) \notin Queued'
          /\ Head(jobs) \in Job
          /\ \A i, k \in DOMAIN jobs' : jobs'[i] = jobs'[k] => i = k
      BY <1>t, <2>1, PopQueued DEF DistinctJobs
    <2>3. cur'[w] = Head(jobs) /\ \A v \in InFlight : cur'[v] = cur[v]
      BY <1>t, <2>1, InFlightFinite DEF TypeOK
    <2> QED  BY <2>1, <2>2, <2>3 DEF DistinctJobs
  <1>3. ASSUME NEW w \in Worker, FinishJob(w) PROVE DistinctJobs'
    <2>1. /\ InFlight' = InFlight \ {w}
          /\ cur' = [cur EXCEPT ![w] = None] /\ jobs' = jobs
      BY <1>3, <1>t DEF FinishJob, InFlight, TypeOK, WorkerPC
    <2>2. \A v \in InFlight' : cur'[v] = cur[v]
      BY <1>t, <2>1, InFlightFinite DEF TypeOK
    <2> QED  BY <2>1, <2>2 DEF DistinctJobs, Queued
  <1>4. ASSUME JoinAll PROVE DistinctJobs'
    <2>1. jobs' = <<>> /\ InFlight' = {}  BY <1>4 DEF JoinAll, InFlight
    <2> QED  BY <2>1 DEF DistinctJobs
  <1>5. ASSUME UNCHANGED <<jobs, cur>>, InFlight' = InFlight PROVE DistinctJobs'
    BY <1>5 DEF DistinctJobs, Queued
  <1> QED  BY <1>1, <1>2, <1>3, <1>4, <1>5, SameJobs

LEMMA TodoUnchanged ==
    ASSUME UNCHANGED <<jobs, cur>>, InFlight' = InFlight
    PROVE  Todo' = Todo
  BY DEF Todo, Queued

\* Every step of the pool is a step of the barrier or leaves it alone.
LEMMA BarrierStep ==
    ASSUME WakeInv, DistinctJobs, [Next]_vars
    PROVE  [Barrier!BNext]_(Barrier!bvars)
  <1> DEFINE Goal == [Barrier!BNext]_(Barrier!bvars)
             waiting == caller \in {"wait", "done_cv"}
  <1>t. TypeOK  BY DEF WakeInv
  <1>s. ASSUME Todo' = Todo, first_error' = first_error, waiting' = waiting,
               result' = result
        PROVE  Goal
    BY <1>s DEF Barrier!bvars
  <1>1. ASSUME NEW j \in Job, Enqueue(j) PROVE Goal
    <2>1. InFlight' = InFlight /\ cur' = cur /\ jobs' = Append(jobs, j) /\ j \notin Todo
      BY <1>1 DEF Enqueue, InFlight, workerVars
    <2>2. Todo' = Todo \cup {j}  BY <1>t, <2>1, EnqueueQueued DEF Todo
    <2>3. Barrier!Submit(j)  BY <1>1, <2>1, <2>2 DEF Barrier!Submit, Enqueue
    <2> QED  BY <2>3 DEF Barrier!BNext
  <1>2. ASSUME NEW w \in Worker, Pop(w) PROVE Goal
    <2>1. /\ InFlight' = InFlight \cup {w} /\ w \notin InFlight
          /\ cur' = [cur EXCEPT ![w] = Head(jobs)]
          /\ jobs # <<>> /\ jobs' = Tail(jobs)
      BY <1>2, <1>t DEF Pop, InFlight, TypeOK, WorkerPC
    <2>2. Queued = Queued' \cup {Head(jobs)}
      BY <1>t, <2>1, PopQueued DEF DistinctJobs
    <2>3. cur'[w] = Head(jobs) /\ \A v \in InFlight : cur'[v] = cur[v]
      BY <1>t, <2>1, InFlightFinite DEF TypeOK
    <2>4. Todo' = Todo  BY <2>1, <2>2, <2>3 DEF Todo
    <2> QED  BY <1>2, <1>s, <2>4 DEF Pop
  <1>3. ASSUME NEW w \in Worker, FinishJob(w) PROVE Goal
    <2>1. /\ InFlight' = InFlight \ {w} /\ w \in InFlight
          /\ cur' = [cur EXCEPT ![w] = None] /\ jobs' = jobs
      BY <1>3, <1>t DEF FinishJob, InFlight, TypeOK, WorkerPC
    <2>2. \A v \in InFlight' : cur'[v] = cur[v]
      BY <1>t, <2>1, InFlightFinite DEF TypeOK
    <2>3. Queued' = Queued  BY <2>1 DEF Queued
    <2>4. cur[w] \in Job /\ cur[w] \in Todo /\ cur[w] \notin Queued
          /\ \A v \in InFlight' : cur[v] # cur[w]
      BY <2>1 DEF DistinctJobs, Todo
    <2>5. Todo' = Todo \ {cur[w]}  BY <2>1, <2>2, <2>3, <2>4 DEF Todo
    <2>6. waiting' = waiting  BY <1>3 DEF FinishJob
    <2>7. Barrier!Finish(cur[w])  BY <1>3, <2>4, <2>5, <2>6 DEF Barrier!Finish, FinishJob
    <2> QED  BY <2>4, <2>7 DEF Barrier!BNext
  <1>4. ASSUME NEW w \in Worker, RecordError(w) PROVE Goal
    <2>1. /\ InFlight' = InFlight /\ w \in InFlight /\ cur' = cur /\ jobs' = jobs
      BY <1>4, <1>t DEF RecordError, InFlight, TypeOK, WorkerPC, queueVars
    <2>2. Todo' = Todo  BY <2>1, TodoUnchanged
    <2>3. cur[w] \in Job /\ cur[w] \in Todo  BY <2>1 DEF DistinctJobs, Todo
    <2>4. CASE first_error = None
      <3>1. Barrier!Throw(cur[w])
        BY <1>4, <2>2, <2>3, <2>4 DEF Barrier!Throw, RecordError
      <3> QED  BY <2>3, <3>1 DEF Barrier!BNext
    <2>5. CASE first_error # None  BY <1>4, <1>s, <2>2, <2>5 DEF RecordError
    <2> QED  BY <2>4, <2>5
  <1>5. ASSUME BeginWait PROVE Goal
    <2>1. InFlight' = InFlight  BY <1>5 DEF BeginWait, InFlight, workerVars
    <2>2. Todo' = Todo  BY <1>5, <2>1, TodoUnchanged DEF BeginWait, queueVars, workerVars
    <2>3. Barrier!BeginWait  BY <1>5, <2>2 DEF Barrier!BeginWait, BeginWait
    <2> QED  BY <2>3 DEF Barrier!BNext
  <1>6. ASSUME WaitReturn PROVE Goal
    <2>1. InFlight' = InFlight  BY <1>6 DEF WaitReturn, InFlight, workerVars
    <2>2. Todo' = Todo  BY <1>6, <2>1, TodoUnchanged DEF WaitReturn, queueVars, workerVars
    <2>3. Len(jobs) = 0 /\ Cardinality(InFlight) = 0
      <3>1. Len(jobs) \in Nat /\ Cardinality(InFlight) \in Nat
        BY <1>t, InFlightFinite, FS_CardinalityType DEF TypeOK
      <3> QED  BY <1>6, <3>1 DEF WaitReturn, WakeInv, OutstandingCounts
    <2>4. InFlight = {}  BY <2>3, InFlightFinite, FS_EmptySet
    <2>5. DOMAIN jobs = {}  BY <1>t, <2>3 DEF TypeOK
    <2>6. Todo = {}  BY <2>4, <2>5 DEF Todo, Queued
    <2>7. Barrier!EndWait  BY <1>6, <2>2, <2>6 DEF Barrier!EndWait, WaitReturn
    <2> QED  BY <2>7 DEF Barrier!BNext
  <1>7. ASSUME JoinAll PROVE Goal
    <2>1. threads # {} /\ \A w \in threads : pc[w] = "exited"
      BY <1>7 DEF JoinAll, WakeInv, Stopping
    <2>2. jobs = <<>>  BY <1>t, <2>1 DEF WakeInv, ExitMeansDrained, TypeOK
    <2>3. InFlight = {}  BY <2>1 DEF WakeInv, TypeOK, InFlight
    <2>4. jobs' = <<>> /\ InFlight' = {}  BY <1>7 DEF JoinAll, InFlight
    <2>5. Todo = {} /\ Todo' = {}  BY <2>2, <2>3, <2>4 DEF Todo, Queued
    <2> QED  BY <1>7, <1>s, <2>5 DEF JoinAll
  <1>8. ASSUME UNCHANGED <<jobs, cur>>, InFlight' = InFlight, first_error' = first_error,
               waiting' = waiting, result' = result
        PROVE  Goal
    BY <1>8, <1>s, TodoUnchanged
  <1>9. ASSUME UNCHANGED <<jobs, cur>>, InFlight' = InFlight,
               ~ WaitReturn, ~ BeginWait, ~ JoinAll,
               ~ \E w \in Worker : Pop(w) \/ FinishJob(w) \/ RecordError(w),
               ~ \E j \in Job : Enqueue(j)
        PROVE  first_error' = first_error /\ waiting' = waiting /\ result' = result
    <2> DEFINE Q == first_error' = first_error /\ waiting' = waiting /\ result' = result
    <2>1. ASSUME NEW ws \in SUBSET Worker, NEW p \in BOOLEAN, Start(ws, p) PROVE Q
      BY <2>1 DEF Start
    <2>2. ASSUME NEW ss \in SUBSET Spinner, StartClockKeeper(ss) PROVE Q
      BY <2>2 DEF StartClockKeeper
    <2>3. ASSUME StopClockKeeper PROVE Q
      BY <2>3 DEF StopClockKeeper, RaiseSpinnerStop
    <2>4. ASSUME BeginStop PROVE Q
      BY <2>4 DEF BeginStop, RaiseSpinnerStop
    <2>5. ASSUME NotifyOne PROVE Q
      BY <2>5 DEF NotifyOne
    <2>6. ASSUME WaitSleep PROVE Q
      BY <2>6 DEF WaitSleep
    <2>7. ASSUME KeeperStopped PROVE Q
      BY <2>7 DEF KeeperStopped, JoinSpinners
    <2>8. ASSUME StopKeeperJoined PROVE Q
      BY <2>8 DEF StopKeeperJoined, JoinSpinners
    <2>9. ASSUME SetTerminate PROVE Q
      BY <2>9 DEF SetTerminate
    <2>10. ASSUME NotifyAll PROVE Q
      BY <2>10 DEF NotifyAll
    <2>11. ASSUME SpuriousDoneWake PROVE Q
      BY <2>11 DEF SpuriousDoneWake
    <2>12. ASSUME NEW w \in Worker, Sleep(w) PROVE Q
      BY <2>12 DEF Sleep
    <2>13. ASSUME NEW w \in Worker, Exit(w) PROVE Q
      BY <2>13 DEF Exit
    <2>14. ASSUME NEW w \in Worker, RunJob(w) PROVE Q
      BY <2>14 DEF RunJob
    <2>15. ASSUME NEW w \in Worker, SpuriousJobWake(w) PROVE Q
      BY <2>15 DEF SpuriousJobWake
    <2>16. ASSUME NEW s \in Spinner, SpinnerExit(s) PROVE Q
      BY <2>16 DEF SpinnerExit
    <2>17. ASSUME UNCHANGED vars PROVE Q
      BY <2>17 DEF vars
    <2> HIDE DEF Q
    <2>q. Q
      BY <1>9, <2>1, <2>2, <2>3, <2>4, <2>5, <2>6, <2>7, <2>8, <2>9, <2>10, <2>11, <2>12, <2>13, <2>14, <2>15, <2>16, <2>17
      DEF Next, Call, CallerStep, WorkerStep
    <2> QED  BY <2>q DEF Q
  <1> HIDE DEF Goal, waiting
  <1>q. Goal
    BY <1>1, <1>2, <1>3, <1>4, <1>5, <1>6, <1>7, <1>8, <1>9, SameJobs
  <1> QED  BY <1>q DEF Goal

\* ThreadPool implements JobBarrier, for any number of workers and jobs: wait() is
\* a barrier that reports the first exception once, and no operation, stop()
\* included, loses a job.
THEOREM PoolImplementsBarrier == Spec => ImplementsBarrier
  <1>1. Init => DistinctJobs /\ Barrier!BInit
    <2> SUFFICES ASSUME Init PROVE DistinctJobs /\ Barrier!BInit  OBVIOUS
    <2>1. jobs = <<>> /\ InFlight = {}  BY DEF Init, InFlight
    <2>2. Todo = {}  BY <2>1 DEF Todo, Queued
    <2> QED  BY <2>1, <2>2 DEF Init, DistinctJobs, Barrier!BInit
  <1>2. WakeInv /\ DistinctJobs /\ [Next]_vars => DistinctJobs'
    BY DistinctStep
  <1>3. WakeInv /\ DistinctJobs /\ [Next]_vars => [Barrier!BNext]_(Barrier!bvars)
    BY BarrierStep
  <1> QED  BY <1>1, <1>2, <1>3, WakeInvariant, PTL DEF Spec, ImplementsBarrier, Barrier!BSpec
=============================================================================
