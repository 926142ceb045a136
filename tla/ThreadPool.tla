----------------------------- MODULE ThreadPool -----------------------------
(***************************************************************************)
(* geniex::ThreadPool (core/src/threadpool.cpp): a FIFO of jobs served by  *)
(* worker threads, a barrier, and the clock-keeper spinner threads.        *)
(*                                                                         *)
(* One action is one critical section of mutex_, or one step between two   *)
(* of them.  Both condition variables are explicit: a thread whose         *)
(* predicate is false sleeps until it is notified (or wakes spuriously, as *)
(* C++ allows) and then evaluates the predicate again.  All public calls   *)
(* come from one thread, as in LLMModel: its position is `caller'.         *)
(***************************************************************************)
EXTENDS Integers, Sequences, FiniteSets

CONSTANTS
    Worker,   \* worker threads start() may create
    Spinner,  \* clock-keeper threads startClockKeeper() may create
    Job,      \* job identities; one is enqueued again only after it finished
    None

ASSUME PoolAssumption ==
    /\ IsFiniteSet(Worker) /\ IsFiniteSet(Spinner) /\ IsFiniteSet(Job)
    /\ None \notin Job

VARIABLES
    threads,        \* threads_: the workers created and not yet joined
    jobs,           \* jobs_: the queue
    outstanding,    \* outstanding_
    terminate,      \* terminate_
    poll,           \* poll_
    first_error,    \* first_error_, None = nullptr
    pc,             \* pc[w]: where worker w is in loop()
    cur,            \* cur[w]: the job worker w popped
    caller,         \* where the calling thread is
    result,         \* what the latest wait() rethrew, None = returned normally
    spinners,       \* spinners_: spinner threads created and not yet joined
    spinning,       \* those of them whose loop has not exited
    spinners_stop   \* spinners_stop_

workerVars  == <<pc, cur>>
keeperVars  == <<spinners, spinning, spinners_stop>>
queueVars   == <<jobs, outstanding>>
vars == <<threads, jobs, outstanding, terminate, poll, first_error, pc, cur,
          caller, result, spinners, spinning, spinners_stop>>

WorkerPC == {"off", "loop", "asleep", "run", "threw", "done", "exited"}
CallerPC == {"idle", "notify", "wait", "done_cv", "stop", "notify_all", "join",
             "join_keeper", "stop_keeper"}

\* The workers that hold a job they popped and have not yet accounted for.
InFlight == {w \in Worker : pc[w] \in {"run", "threw", "done"}}
Queued == {jobs[i] : i \in DOMAIN jobs}
\* Every job enqueued and not finished.
Todo == Queued \cup {cur[w] : w \in InFlight}

Init ==
    /\ threads = {}
    /\ jobs = <<>>
    /\ outstanding = 0
    /\ terminate = FALSE
    /\ poll = FALSE
    /\ first_error = None
    /\ pc = [w \in Worker |-> "off"]
    /\ cur = [w \in Worker |-> None]
    /\ caller = "idle"
    /\ result = None
    /\ spinners = {}
    /\ spinning = {}
    /\ spinners_stop = FALSE
-----------------------------------------------------------------------------
(* The calling thread.                                                     *)

\* start(n, mask, poll): creates the workers; a no-op when already started or
\* when asked for none (then the call changes nothing and is not a step).
Start(ws, p) ==
    /\ caller = "idle"
    /\ threads = {} /\ ws # {}
    /\ terminate' = FALSE
    /\ poll' = p
    /\ threads' = ws
    /\ pc' = [w \in Worker |-> IF w \in ws THEN "loop" ELSE pc[w]]
    /\ UNCHANGED <<queueVars, first_error, cur, caller, result, keeperVars>>

\* enqueue(), the critical section; job_cv_.notify_one() follows unlocked.
Enqueue(j) ==
    /\ caller = "idle"
    /\ j \notin Todo
    /\ jobs' = Append(jobs, j)
    /\ outstanding' = outstanding + 1
    /\ caller' = "notify"
    /\ UNCHANGED <<threads, terminate, poll, first_error, workerVars, result,
                   keeperVars>>

\* Mutant: enqueue() forgets to notify.
NotifyOneDropped ==
    /\ caller = "notify"
    /\ caller' = "idle"
    /\ UNCHANGED <<threads, queueVars, terminate, poll, first_error, workerVars,
                   result, keeperVars>>

\* notify_one(): wakes any one sleeping worker, and is lost when none sleeps.
NotifyOne ==
    /\ caller = "notify"
    /\ \/ \E w \in Worker :
            /\ pc[w] = "asleep"
            /\ pc' = [pc EXCEPT ![w] = "loop"]
       \/ /\ \A w \in Worker : pc[w] # "asleep"
          /\ UNCHANGED pc
    /\ caller' = "idle"
    /\ UNCHANGED <<threads, queueVars, terminate, poll, first_error, cur, result,
                   keeperVars>>

BeginWait ==
    /\ caller = "idle"
    /\ caller' = "wait"
    /\ UNCHANGED <<threads, queueVars, terminate, poll, first_error, workerVars,
                   result, keeperVars>>

\* wait() finds jobs outstanding and sleeps on done_cv_.
WaitSleep ==
    /\ caller = "wait"
    /\ outstanding # 0
    /\ caller' = "done_cv"
    /\ UNCHANGED <<threads, queueVars, terminate, poll, first_error, workerVars,
                   result, keeperVars>>

\* Mutant: wait() tests jobs_.empty() and so ignores the jobs being run.
WaitReturnQueueEmpty ==
    /\ caller = "wait"
    /\ jobs = <<>>
    /\ result' = first_error
    /\ first_error' = None
    /\ caller' = "idle"
    /\ UNCHANGED <<threads, queueVars, terminate, poll, workerVars, keeperVars>>

\* wait() passes its predicate: rethrows first_error_ and clears it, or returns.
WaitReturn ==
    /\ caller = "wait"
    /\ outstanding = 0
    /\ result' = first_error
    /\ first_error' = None
    /\ caller' = "idle"
    /\ UNCHANGED <<threads, queueVars, terminate, poll, workerVars, keeperVars>>

SpuriousDoneWake ==
    /\ caller = "done_cv"
    /\ caller' = "wait"
    /\ UNCHANGED <<threads, queueVars, terminate, poll, first_error, workerVars,
                   result, keeperVars>>

\* startClockKeeper(n): a no-op when running or when asked for none.
StartClockKeeper(ss) ==
    /\ caller = "idle"
    /\ spinners = {} /\ ss # {}
    /\ spinners_stop' = FALSE
    /\ spinners' = ss
    /\ spinning' = ss
    /\ UNCHANGED <<threads, queueVars, terminate, poll, first_error, workerVars,
                   caller, result>>

\* stopClockKeeper(), called alone or as the first statement of stop(): raises
\* the flag and starts to join; a no-op when no spinner exists.
RaiseSpinnerStop(next) ==
    /\ spinners # {}
    /\ spinners_stop' = TRUE
    /\ caller' = next
    /\ UNCHANGED <<threads, queueVars, terminate, poll, first_error, workerVars,
                   result, spinners, spinning>>

StopClockKeeper == caller = "idle" /\ RaiseSpinnerStop("stop_keeper")

\* Mutant: the spinners are dropped without being joined.
JoinSpinnersDetached(from, to) ==
    /\ caller = from
    /\ spinners' = {}
    /\ caller' = to
    /\ UNCHANGED <<threads, queueVars, terminate, poll, first_error, workerVars,
                   result, spinning, spinners_stop>>

\* All spinners have exited: the joins return and the vector is cleared.
JoinSpinners(from, to) ==
    /\ caller = from
    /\ spinning \cap spinners = {}
    /\ spinners' = {}
    /\ caller' = to
    /\ UNCHANGED <<threads, queueVars, terminate, poll, first_error, workerVars,
                   result, spinning, spinners_stop>>

KeeperStopped == JoinSpinners("stop_keeper", "idle")

\* stop(): the clock keeper first.
BeginStop ==
    /\ caller = "idle"
    /\ \/ RaiseSpinnerStop("join_keeper")
       \/ /\ spinners = {}
          /\ caller' = "stop"
          /\ UNCHANGED <<threads, queueVars, terminate, poll, first_error,
                         workerVars, result, keeperVars>>

StopKeeperJoined == JoinSpinners("join_keeper", "stop")

\* stop(): returns early when there are no workers (the queue is left alone),
\* otherwise raises terminate_ under the lock.
SetTerminate ==
    /\ caller = "stop"
    /\ IF threads = {}
         THEN caller' = "idle" /\ UNCHANGED terminate
         ELSE caller' = "notify_all" /\ terminate' = TRUE
    /\ UNCHANGED <<threads, queueVars, poll, first_error, workerVars, result,
                   keeperVars>>

\* Mutant: stop() wakes one worker only.
NotifyAllOnlyOne ==
    /\ caller = "notify_all"
    /\ \/ \E w \in Worker : pc[w] = "asleep" /\ pc' = [pc EXCEPT ![w] = "loop"]
       \/ (\A w \in Worker : pc[w] # "asleep") /\ UNCHANGED pc
    /\ caller' = "join"
    /\ UNCHANGED <<threads, queueVars, terminate, poll, first_error, cur, result,
                   keeperVars>>

NotifyAll ==
    /\ caller = "notify_all"
    /\ pc' = [w \in Worker |-> IF pc[w] = "asleep" THEN "loop" ELSE pc[w]]
    /\ caller' = "join"
    /\ UNCHANGED <<threads, queueVars, terminate, poll, first_error, cur, result,
                   keeperVars>>

\* Every worker has returned from loop(): join, drop the queue, reset.
JoinAll ==
    /\ caller = "join"
    /\ \A w \in threads : pc[w] = "exited"
    /\ threads' = {}
    /\ pc' = [w \in Worker |-> "off"]
    /\ jobs' = <<>>
    /\ outstanding' = 0
    /\ terminate' = FALSE
    /\ caller' = "idle"
    /\ UNCHANGED <<poll, first_error, cur, result, keeperVars>>
-----------------------------------------------------------------------------
(* The worker threads, loop().                                             *)

\* The predicate is false and the worker blocks on job_cv_.  A polling worker
\* unlocks, yields and looks again instead, which changes nothing.
Sleep(w) ==
    /\ pc[w] = "loop"
    /\ ~terminate /\ jobs = <<>> /\ ~poll
    /\ pc' = [pc EXCEPT ![w] = "asleep"]
    /\ UNCHANGED <<threads, queueVars, terminate, poll, first_error, cur, caller,
                   result, keeperVars>>

SpuriousJobWake(w) ==
    /\ pc[w] = "asleep"
    /\ pc' = [pc EXCEPT ![w] = "loop"]
    /\ UNCHANGED <<threads, queueVars, terminate, poll, first_error, cur, caller,
                   result, keeperVars>>

Exit(w) ==
    /\ pc[w] = "loop"
    /\ terminate /\ jobs = <<>>
    /\ pc' = [pc EXCEPT ![w] = "exited"]
    /\ UNCHANGED <<threads, queueVars, terminate, poll, first_error, cur, caller,
                   result, keeperVars>>

\* Mutant: the job is counted down when it is taken instead of when it is done.
PopCountsDown(w) ==
    /\ pc[w] = "loop"
    /\ jobs # <<>>
    /\ cur' = [cur EXCEPT ![w] = Head(jobs)]
    /\ jobs' = Tail(jobs)
    /\ outstanding' = outstanding - 1
    /\ pc' = [pc EXCEPT ![w] = "run"]
    /\ UNCHANGED <<threads, terminate, poll, first_error, caller, result, keeperVars>>

\* Pop the front; a raised terminate_ does not keep a worker from doing so.
Pop(w) ==
    /\ pc[w] = "loop"
    /\ jobs # <<>>
    /\ cur' = [cur EXCEPT ![w] = Head(jobs)]
    /\ jobs' = Tail(jobs)
    /\ pc' = [pc EXCEPT ![w] = "run"]
    /\ UNCHANGED <<threads, outstanding, terminate, poll, first_error, caller,
                   result, keeperVars>>

\* job() runs outside the lock and returns or throws.
RunJob(w) ==
    /\ pc[w] = "run"
    /\ \E out \in {"done", "threw"} : pc' = [pc EXCEPT ![w] = out]
    /\ UNCHANGED <<threads, queueVars, terminate, poll, first_error, cur, caller,
                   result, keeperVars>>

\* catch (...): keep the exception only if it is the first.
RecordError(w) ==
    /\ pc[w] = "threw"
    /\ first_error' = IF first_error = None THEN cur[w] ELSE first_error
    /\ pc' = [pc EXCEPT ![w] = "done"]
    /\ UNCHANGED <<threads, queueVars, terminate, poll, cur, caller, result,
                   keeperVars>>

\* Mutant: the last count-down does not notify done_cv_.
FinishJobSilent(w) ==
    /\ pc[w] = "done"
    /\ outstanding' = outstanding - 1
    /\ cur' = [cur EXCEPT ![w] = None]
    /\ pc' = [pc EXCEPT ![w] = "loop"]
    /\ UNCHANGED <<threads, jobs, terminate, poll, first_error, caller, result,
                   keeperVars>>

\* The closing critical section: count down, wake the barrier on zero.
FinishJob(w) ==
    /\ pc[w] = "done"
    /\ outstanding' = outstanding - 1
    /\ caller' = IF outstanding' = 0 /\ caller = "done_cv" THEN "wait" ELSE caller
    /\ cur' = [cur EXCEPT ![w] = None]
    /\ pc' = [pc EXCEPT ![w] = "loop"]
    /\ UNCHANGED <<threads, jobs, terminate, poll, first_error, result,
                   keeperVars>>

\* A spinner sees the flag and leaves its busy loop.
SpinnerExit(s) ==
    /\ s \in spinning
    /\ spinners_stop
    /\ spinning' = spinning \ {s}
    /\ UNCHANGED <<threads, queueVars, terminate, poll, first_error, workerVars,
                   caller, result, spinners, spinners_stop>>
-----------------------------------------------------------------------------
\* Steps the calling thread takes only because somebody called the pool.
Call ==
    \/ \E ws \in SUBSET Worker, p \in BOOLEAN : Start(ws, p)
    \/ \E j \in Job : Enqueue(j)
    \/ \E ss \in SUBSET Spinner : StartClockKeeper(ss)
    \/ BeginWait
    \/ StopClockKeeper
    \/ BeginStop

\* Steps that carry a call to its end.
CallerStep ==
    \/ NotifyOne \/ WaitSleep \/ WaitReturn
    \/ KeeperStopped \/ StopKeeperJoined
    \/ SetTerminate \/ NotifyAll \/ JoinAll

WorkerStep(w) ==
    \/ Sleep(w) \/ Exit(w) \/ Pop(w) \/ RunJob(w) \/ RecordError(w) \/ FinishJob(w)

Next ==
    \/ Call
    \/ CallerStep
    \/ SpuriousDoneWake
    \/ \E w \in Worker : WorkerStep(w) \/ SpuriousJobWake(w)
    \/ \E s \in Spinner : SpinnerExit(s)

Spec == Init /\ [][Next]_vars

\* Threads that can run are scheduled and mutex_ is granted eventually; a job
\* body terminates (KV copies do).  Nothing is assumed of who calls the pool, nor
\* that a spurious wake-up ever happens.
Fairness ==
    /\ WF_vars(CallerStep)
    /\ \A w \in Worker : WF_vars(WorkerStep(w))
    /\ \A s \in Spinner : WF_vars(SpinnerExit(s))

FairSpec == Spec /\ Fairness
-----------------------------------------------------------------------------
(* Properties.                                                             *)

\* Every variable keeps the shape its C++ member has, and start(), loop() and stop()
\* keep threads_ in step with the workers: one is in it exactly from its creation to
\* its join.
TypeOK ==
    /\ threads \in SUBSET Worker
    /\ \A w \in Worker : w \in threads <=> pc[w] # "off"
    /\ jobs \in Seq(Job)
    /\ outstanding \in Nat
    /\ terminate \in BOOLEAN
    /\ poll \in BOOLEAN
    /\ first_error \in Job \cup {None}
    /\ pc \in [Worker -> WorkerPC]
    /\ cur \in [Worker -> Job \cup {None}]
    /\ caller \in CallerPC
    /\ result \in Job \cup {None}
    /\ spinners \in SUBSET Spinner
    /\ spinning \in SUBSET spinners
    /\ spinners_stop \in BOOLEAN

\* outstanding_ is at every instant the number of queued jobs plus the number of
\* jobs a worker holds (threadpool.h: "queued + in-flight jobs"), across
\* enqueues, pops, exceptions, stops and restarts.  wait() tests nothing else.
OutstandingCounts == outstanding = Len(jobs) + Cardinality(InFlight)

\* loop() and enqueue() cannot lose a wake-up: while a job is queued in a started
\* pool, some worker is awake or the notify_one() that will wake one is on its
\* way, and once stop() has notified, no worker is left asleep.
NoLostWakeup ==
    /\ (jobs # <<>> /\ threads # {}) =>
          \/ caller = "notify"
          \/ \E w \in threads : pc[w] # "asleep"
    /\ caller = "join" => \A w \in threads : pc[w] # "asleep"

\* The pool implements the barrier LLMModel::generate relies on: wait() returns
\* only with no job queued or running, reports the first exception once, and
\* neither stop() nor a restart ever discards a job.
Barrier == INSTANCE JobBarrier
             WITH todo <- Todo, err <- first_error,
                  waiting <- caller \in {"wait", "done_cv"}
ImplementsBarrier == Barrier!BSpec

\* A wait() on a started pool returns: no interleaving of sleeping, spurious
\* wake-ups, failing jobs and the last count-down strands the caller.
WaitReturns ==
    (caller \in {"wait", "done_cv"} /\ threads # {}) ~> caller = "idle"

\* stop() returns, whatever the workers and spinners were doing when it began.
StopReturns ==
    caller \in {"join_keeper", "stop", "notify_all", "join", "stop_keeper"}
        ~> caller = "idle"
=============================================================================
