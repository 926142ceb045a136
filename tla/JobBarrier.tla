----------------------------- MODULE JobBarrier -----------------------------
(***************************************************************************)
(* What geniex::ThreadPool promises its single caller, the dispatch thread *)
(* of LLMModel::generate: jobs are handed over, complete in any order at   *)
(* any later time, and wait() is a barrier.  wait() returns only when no   *)
(* job is unfinished; it reports the first exception a job threw since the *)
(* last report, exactly once.  Nothing here mentions threads, a queue, a   *)
(* counter or condition variables, and no operation loses a job.           *)
(***************************************************************************)
CONSTANTS
    Job,    \* identities of jobs; one may be submitted again once finished
    None    \* "no exception"

VARIABLES
    todo,     \* jobs handed over and not finished
    err,      \* the exception the next wait() will report, or None
    waiting,  \* TRUE while the caller is inside wait()
    result    \* what the latest completed wait() reported

bvars == <<todo, err, waiting, result>>

BInit ==
    /\ todo = {}
    /\ err = None
    /\ waiting = FALSE
    /\ result = None

\* The caller hands over a job.
Submit(j) ==
    /\ ~waiting
    /\ j \notin todo
    /\ todo' = todo \cup {j}
    /\ UNCHANGED <<err, waiting, result>>

\* An unfinished job throws; only the first exception is kept.
Throw(j) ==
    /\ j \in todo
    /\ err = None
    /\ err' = j
    /\ UNCHANGED <<todo, waiting, result>>

Finish(j) ==
    /\ j \in todo
    /\ todo' = todo \ {j}
    /\ UNCHANGED <<err, waiting, result>>

BeginWait ==
    /\ ~waiting
    /\ waiting' = TRUE
    /\ UNCHANGED <<todo, err, result>>

EndWait ==
    /\ waiting
    /\ todo = {}
    /\ waiting' = FALSE
    /\ result' = err
    /\ err' = None
    /\ UNCHANGED todo

BNext ==
    \/ \E j \in Job : Submit(j) \/ Throw(j) \/ Finish(j)
    \/ BeginWait
    \/ EndWait

BSpec == BInit /\ [][BNext]_bvars
=============================================================================
