----------------------------- MODULE TaskWorker -----------------------------
(***************************************************************************)
(* ADTaskWorker: the asynchronous-task engine of every brbox service.      *)
(*                                                                         *)
(* Two threads share it.  The service's request thread (the mapper's       *)
(* ReqThread, the only caller of push_task, get_task_status and            *)
(* reset_task_id_and_chain) queues work and answers polls.  The worker     *)
(* thread (an ADThread of type MONOSHOT) waits on a counting semaphore and *)
(* runs one queued task per token.                                         *)
(*                                                                         *)
(* Every push is given a number, its "job", that the program does not      *)
(* have: it tells apart two tasks that carry the same taskID.  An entry of *)
(* work_inprog_chain keeps the job it was made for and, as "result", the   *)
(* job whose run_work result its taskSts holds (InProg while the task is   *)
(* in progress).                                                           *)
(***************************************************************************)
EXTENDS GenericChain

CONSTANTS
    MaxJobs,    \* bound on the number of calls of push_task
    MaxResets   \* bound on the number of calls of reset_task_id_and_chain

ASSUME BoundsAssumption == MaxJobs \in Nat /\ MaxResets \in Nat

VARIABLES
    work_chain,         \* tasks waiting for the worker, oldest first
    work_inprog_chain,  \* one entry per task whose status can be asked for
    ident_generator,    \* work_inprog_chain's counter: the last taskID given
    one_shot_sema,      \* tokens of the worker's semaphore
    req_pc, req_obj,    \* where the request thread is, and the task it handles
    wrk_pc, work_obj,   \* where the worker is, and the task it has taken
    jobs,               \* calls of push_task so far
    failed,             \* jobs whose push_task returned -1
    resets,             \* calls of reset_task_id_and_chain so far
    resetInFlight       \* some reset found a task queued or running

chains  == <<work_chain, work_inprog_chain, ident_generator, one_shot_sema>>
reqVars == <<req_pc, req_obj, jobs, failed, resets, resetInFlight>>
wrkVars == <<wrk_pc, work_obj>>
vars    == <<chains, reqVars, wrkVars>>

Job     == 1..MaxJobs
InProg  == 0
DoneAction == {"PRESERVE", "DELETE"}
Task    == [job : Job, ident : Job, done_action : DoneAction]
Entry   == [job : Job, ident : Job, result : Job \cup {InProg}]
NoTask  == [job |-> 0, ident |-> 0, done_action |-> "DELETE"]

\* A task is in flight from its chain_put until its completion was notified.
InFlight == work_chain # <<>> \/ wrk_pc \in {"run", "complete", "notify"}

TypeOK ==
    /\ work_chain \in Seq(Task)
    /\ work_inprog_chain \in Seq(Entry)
    /\ ident_generator \in 0..MaxJobs
    /\ one_shot_sema \in Nat
    /\ req_pc \in {"idle", "put_inprog", "wakeup", "remove"}
    /\ req_obj \in [job : Job \cup {0}, ident : Job \cup {0},
                    done_action : DoneAction]
    /\ wrk_pc \in {"wait", "get", "run", "complete", "notify"}
    /\ work_obj \in Task \cup {NoTask}
    /\ jobs \in 0..MaxJobs
    /\ failed \in SUBSET Job
    /\ resets \in 0..MaxResets
    /\ resetInFlight \in BOOLEAN

Init ==
    /\ work_chain = <<>>
    /\ work_inprog_chain = <<>>
    /\ ident_generator = 0
    /\ one_shot_sema = 0
    /\ req_pc = "idle" /\ req_obj = NoTask
    /\ wrk_pc = "wait" /\ work_obj = NoTask
    /\ jobs = 0
    /\ failed = {}
    /\ resets = 0
    /\ resetInFlight = FALSE
-----------------------------------------------------------------------------
(* Plausible mistakes in the code below.  No specification uses them: each *)
(* is put in the place of one action to see that a property notices.       *)

\* Tokens only when the queue was empty before: later tasks get none.
WakeupThreadIfIdle ==
    /\ req_pc = "wakeup"
    /\ one_shot_sema' = IF Len(work_chain) = 1 THEN one_shot_sema + 1
                        ELSE one_shot_sema
    /\ req_pc' = "idle"
    /\ req_obj' = NoTask
    /\ UNCHANGED <<work_chain, work_inprog_chain, ident_generator, jobs,
                   failed, resets, resetInFlight, wrkVars>>

\* The worker is woken as soon as the work is queued, before the entry.
PutWorkAndWake(done) ==
    LET task == [job |-> jobs + 1, ident |-> ident_generator + 1,
                 done_action |-> done]
    IN  /\ req_pc = "idle"
        /\ jobs < MaxJobs
        /\ jobs' = jobs + 1
        /\ ident_generator' = ident_generator + 1
        /\ work_chain' = chain_put(work_chain, task)
        /\ one_shot_sema' = one_shot_sema + 1
        /\ req_obj' = task
        /\ req_pc' = "put_inprog"
        /\ UNCHANGED <<work_inprog_chain, failed, resets, resetInFlight,
                       wrkVars>>

\* The failed push forgets to take its work back.
PutInprogFailsKeepsWork ==
    /\ req_pc = "put_inprog"
    /\ failed' = failed \cup {req_obj.job}
    /\ req_pc' = "idle"
    /\ req_obj' = NoTask
    /\ UNCHANGED <<chains, jobs, resets, resetInFlight, wrkVars>>

\* The result goes to the oldest entry, not to the one with the taskID.
CompletePreserveHead ==
    /\ wrk_pc = "complete"
    /\ work_obj.done_action = "PRESERVE"
    /\ work_inprog_chain' =
          IF work_inprog_chain = <<>> THEN work_inprog_chain
          ELSE [work_inprog_chain EXCEPT ![1].result = work_obj.job]
    /\ wrk_pc' = "notify"
    /\ UNCHANGED <<work_chain, ident_generator, one_shot_sema, work_obj,
                   reqVars>>

\* The event is sent and the status never stored.
CompletePreserveNoStore ==
    /\ wrk_pc = "complete"
    /\ work_obj.done_action = "PRESERVE"
    /\ wrk_pc' = "notify"
    /\ UNCHANGED <<chains, work_obj, reqVars>>

\* The oldest entry is dropped instead of the task's own (chain_get).
CompleteDeleteHead ==
    /\ wrk_pc = "complete"
    /\ work_obj.done_action = "DELETE"
    /\ work_inprog_chain' = IF work_inprog_chain = <<>> THEN <<>>
                            ELSE chain_rest(work_inprog_chain)
    /\ wrk_pc' = "wait"
    /\ work_obj' = NoTask
    /\ UNCHANGED <<work_chain, ident_generator, one_shot_sema, reqVars>>

\* The entry is left in progress by a task that wants no result kept.
CompleteDeleteKeepsEntry ==
    /\ wrk_pc = "complete"
    /\ work_obj.done_action = "DELETE"
    /\ wrk_pc' = "wait"
    /\ work_obj' = NoTask
    /\ UNCHANGED <<chains, reqVars>>

-----------------------------------------------------------------------------
(* The request thread                                                      *)

\* push_task up to its first chain_put.  The ident generator is used by this
\* thread only, so taking an ident and queueing the work are one step.
PutWork(done) ==
    LET task == [job |-> jobs + 1, ident |-> ident_generator + 1,
                 done_action |-> done]
    IN  /\ req_pc = "idle"
        /\ jobs < MaxJobs
        /\ jobs' = jobs + 1
        /\ ident_generator' = ident_generator + 1
        /\ work_chain' = chain_put(work_chain, task)
        /\ req_obj' = task
        /\ req_pc' = "put_inprog"
        /\ UNCHANGED <<work_inprog_chain, one_shot_sema, failed, resets,
                       resetInFlight, wrkVars>>

\* The same call when chain_put cannot allocate its holder: -1, ident spent.
PutWorkFails ==
    /\ req_pc = "idle"
    /\ jobs < MaxJobs
    /\ jobs' = jobs + 1
    /\ ident_generator' = ident_generator + 1
    /\ failed' = failed \cup {jobs + 1}
    /\ UNCHANGED <<work_chain, work_inprog_chain, one_shot_sema, req_pc,
                   req_obj, resets, resetInFlight, wrkVars>>

\* push_task's second chain_put: the entry that get_task_status will find.
PutInprog ==
    /\ req_pc = "put_inprog"
    /\ work_inprog_chain' =
          chain_put(work_inprog_chain,
                    [job |-> req_obj.job, ident |-> req_obj.ident,
                     result |-> InProg])
    /\ req_pc' = "wakeup"
    /\ UNCHANGED <<work_chain, ident_generator, one_shot_sema, req_obj, jobs,
                   failed, resets, resetInFlight, wrkVars>>

\* That chain_put fails: the work is taken back by its ident, push_task is -1.
PutInprogFails ==
    /\ req_pc = "put_inprog"
    /\ work_chain' = chain_remove_by_ident(work_chain, req_obj.ident)
    /\ failed' = failed \cup {req_obj.job}
    /\ req_pc' = "idle"
    /\ req_obj' = NoTask
    /\ UNCHANGED <<work_inprog_chain, ident_generator, one_shot_sema, jobs,
                   resets, resetInFlight, wrkVars>>

\* push_task's last call, wakeup_thread: one token for the task just queued.
WakeupThread ==
    /\ req_pc = "wakeup"
    /\ one_shot_sema' = one_shot_sema + 1
    /\ req_pc' = "idle"
    /\ req_obj' = NoTask
    /\ UNCHANGED <<work_chain, work_inprog_chain, ident_generator, jobs,
                   failed, resets, resetInFlight, wrkVars>>

\* get_task_status up to its unlock.  An unknown task (TASK_ID_NOT_FOUND) and
\* one in progress (IN_PROG) are answered at once and change nothing; a
\* finished one is looked up again, the lock released, to be removed.
GetTaskStatus(taskID) ==
    LET i == chain_get_by_ident(work_inprog_chain, taskID)
    IN  /\ req_pc = "idle"
        /\ IF i # 0 /\ work_inprog_chain[i].result # InProg
           THEN req_pc' = "remove" /\ req_obj' = [NoTask EXCEPT !.ident = taskID]
           ELSE UNCHANGED <<req_pc, req_obj>>
        /\ UNCHANGED <<chains, jobs, failed, resets, resetInFlight, wrkVars>>

\* get_task_status's chain_remove_by_ident; finding nothing is MEM_ERROR.
RemoveStatus ==
    /\ req_pc = "remove"
    /\ work_inprog_chain' =
          chain_remove_by_ident(work_inprog_chain, req_obj.ident)
    /\ req_pc' = "idle"
    /\ req_obj' = NoTask
    /\ UNCHANGED <<work_chain, ident_generator, one_shot_sema, jobs, failed,
                   resets, resetInFlight, wrkVars>>

\* reset_task_id_and_chain: chain_empty drops the entries and restarts the
\* taskIDs; work_chain and the running task are left as they are.
ResetTaskIdAndChain ==
    /\ req_pc = "idle"
    /\ resets < MaxResets
    /\ resets' = resets + 1
    /\ work_inprog_chain' = <<>>
    /\ ident_generator' = 0
    /\ resetInFlight' = (resetInFlight \/ InFlight)
    /\ UNCHANGED <<work_chain, one_shot_sema, req_pc, req_obj, jobs, failed,
                   wrkVars>>
-----------------------------------------------------------------------------
(* The worker thread: my_thread_func and monoshot_callback_function        *)

SemWait ==
    /\ wrk_pc = "wait"
    /\ one_shot_sema > 0
    /\ one_shot_sema' = one_shot_sema - 1
    /\ wrk_pc' = "get"
    /\ UNCHANGED <<work_chain, work_inprog_chain, ident_generator, work_obj,
                   reqVars>>

\* chain_get; a callback that finds the chain empty returns at once.
GetWork ==
    /\ wrk_pc = "get"
    /\ IF work_chain = <<>>
       THEN wrk_pc' = "wait" /\ UNCHANGED <<work_chain, work_obj>>
       ELSE /\ work_obj' = chain_get(work_chain)
            /\ work_chain' = chain_rest(work_chain)
            /\ wrk_pc' = "run"
    /\ UNCHANGED <<work_inprog_chain, ident_generator, one_shot_sema, reqVars>>

\* run_work, the consumer's function, returns.
RunWork ==
    /\ wrk_pc = "run"
    /\ wrk_pc' = "complete"
    /\ UNCHANGED <<chains, work_obj, reqVars>>

\* PRESERVE: under the chain's lock the result is stored in the entry found
\* by taskID, if there is one; the event follows after the unlock.
CompletePreserve ==
    LET i == chain_get_by_ident(work_inprog_chain, work_obj.ident)
    IN  /\ wrk_pc = "complete"
        /\ work_obj.done_action = "PRESERVE"
        /\ work_inprog_chain' =
              IF i = 0 THEN work_inprog_chain
              ELSE [work_inprog_chain EXCEPT ![i].result = work_obj.job]
        /\ wrk_pc' = "notify"
        /\ UNCHANGED <<work_chain, ident_generator, one_shot_sema, work_obj,
                       reqVars>>

\* NOTIFY_EVENT(INPROG_DONE, taskID): the event leaves, the task is freed.
NotifyEvent ==
    /\ wrk_pc = "notify"
    /\ wrk_pc' = "wait"
    /\ work_obj' = NoTask
    /\ UNCHANGED <<chains, reqVars>>

\* DELETE: nobody will ask, so the entry goes; no event.
CompleteDelete ==
    /\ wrk_pc = "complete"
    /\ work_obj.done_action = "DELETE"
    /\ work_inprog_chain' =
          chain_remove_by_ident(work_inprog_chain, work_obj.ident)
    /\ wrk_pc' = "wait"
    /\ work_obj' = NoTask
    /\ UNCHANGED <<work_chain, ident_generator, one_shot_sema, reqVars>>
-----------------------------------------------------------------------------
PushTask == PutInprog \/ PutInprogFails \/ WakeupThread

Worker == SemWait \/ GetWork \/ RunWork \/ CompletePreserve \/ NotifyEvent
             \/ CompleteDelete

Next ==
    \/ \E done \in DoneAction : PutWork(done)
    \/ PutWorkFails
    \/ PutInprog
    \/ PutInprogFails
    \/ WakeupThread
    \/ \E taskID \in Job : GetTaskStatus(taskID)
    \/ RemoveStatus
    \/ ResetTaskIdAndChain
    \/ SemWait
    \/ GetWork
    \/ RunWork
    \/ CompletePreserve
    \/ NotifyEvent
    \/ CompleteDelete

Spec == Init /\ [][Next]_vars

\* Neither thread stops between two steps of a call, and run_work returns;
\* whether a client ever calls is left open.
FairSpec == Spec /\ WF_vars(Worker) /\ WF_vars(PushTask)
-----------------------------------------------------------------------------
(* Properties.  Those that speak of taskIDs hold as long as no reset found *)
(* a task in flight: the reset restarts the numbering while work_chain and *)
(* the worker still hold tasks with the old numbers.                       *)

\* Every queued task has exactly one wake-up coming: a token, a worker that
\* has taken a token and not yet its task, or a push_task about to post.  So
\* chain_get never finds the chain empty and no task waits without a token.
WakeupPerTask ==
    Len(work_chain) = one_shot_sema
                    + (IF wrk_pc = "get" THEN 1 ELSE 0)
                    + (IF req_pc \in {"put_inprog", "wakeup"} THEN 1 ELSE 0)

\* The entry for task t says it is in progress.
HasOpenEntry(t) ==
    \E k \in 1..Len(work_inprog_chain) :
        /\ work_inprog_chain[k].ident = t.ident
        /\ work_inprog_chain[k].job = t.job
        /\ work_inprog_chain[k].result = InProg

\* push_task queues the work before the entry, yet a task that is queued or
\* running always has its entry, in progress, except the one being pushed:
\* get_task_status never answers TASK_ID_NOT_FOUND for it, and its result is
\* never computed before there is a place to store it.
InFlightHasEntry ==
    ~resetInFlight =>
        /\ \A i \in 1..Len(work_chain) :
              \/ HasOpenEntry(work_chain[i])
              \/ req_pc = "put_inprog" /\ i = Len(work_chain)
        /\ wrk_pc \in {"run", "complete"} => HasOpenEntry(work_obj)

\* A status read by taskID is the status of the task that was given that ID:
\* an entry holds no result but that of its own job.
OwnResult ==
    ~resetInFlight =>
        \A k \in 1..Len(work_inprog_chain) :
            work_inprog_chain[k].result \in {InProg, work_inprog_chain[k].job}

\* get_task_status releases the lock between finding a finished entry and
\* removing it; the entry is still there, finished, at the removal, so the
\* MEM_ERROR answer ("dont know why this happened") is never given.
StatusStaysUntilRead ==
    ~resetInFlight /\ req_pc = "remove" =>
        \E k \in 1..Len(work_inprog_chain) :
            /\ work_inprog_chain[k].ident = req_obj.ident
            /\ work_inprog_chain[k].result # InProg

\* When INPROG_DONE is sent for a taskID, a poll for that taskID no longer
\* answers IN_PROG: subscribers poll once, when the event arrives.
EventAfterStatus ==
    ~resetInFlight /\ wrk_pc = "notify" =>
        \A k \in 1..Len(work_inprog_chain) :
            work_inprog_chain[k].ident = work_obj.ident =>
                work_inprog_chain[k].result = work_obj.job

\* A task whose push_task returned -1 (the caller then frees its data) is
\* neither queued nor run.
FailedNeverRuns ==
    ~resetInFlight =>
        /\ \A i \in 1..Len(work_chain) : work_chain[i].job \notin failed
        /\ work_obj.job \notin failed

\* Whatever is reset and whenever, no status stays IN_PROG for ever.
NoTaskStuckInProgress ==
    \A j \in Job :
        (\E k \in 1..Len(work_inprog_chain) :
            work_inprog_chain[k].job = j /\ work_inprog_chain[k].result = InProg)
        ~> ~(\E k \in 1..Len(work_inprog_chain) :
            work_inprog_chain[k].job = j /\ work_inprog_chain[k].result = InProg)
-----------------------------------------------------------------------------
(* The inductive invariant behind the properties above.                    *)

\* A thread that is inside a call has the object that call works on.
ThreadObjects ==
    /\ ident_generator <= jobs
    /\ req_pc \in {"put_inprog", "wakeup"} => req_obj \in Task
    /\ req_pc = "remove" => req_obj.ident \in Job
    /\ wrk_pc \in {"run", "complete", "notify"} => work_obj \in Task
    /\ wrk_pc \in {"wait", "get"} => work_obj = NoTask

\* The task being pushed stays at the tail of work_chain until it has its
\* token: the worker never takes a task push_task is still busy with.
PushedIsLast ==
    req_pc \in {"put_inprog", "wakeup"} =>
        /\ work_chain # <<>>
        /\ work_chain[Len(work_chain)] = req_obj
        /\ req_obj.ident = ident_generator

\* Tasks are queued and taken in the order they were pushed.
JobsOrdered ==
    /\ \A i, j \in 1..Len(work_chain) :
          i < j => work_chain[i].job < work_chain[j].job
    /\ \A i \in 1..Len(work_chain) :
          work_obj.job < work_chain[i].job /\ work_chain[i].job <= jobs
    /\ work_obj.job <= jobs
    /\ \A j \in failed : j <= jobs

\* No two entries of work_inprog_chain have the same taskID.
EntriesOrdered ==
    /\ \A k, l \in 1..Len(work_inprog_chain) :
          k < l => work_inprog_chain[k].ident < work_inprog_chain[l].ident
    /\ \A k \in 1..Len(work_inprog_chain) :
          /\ work_inprog_chain[k].ident <= ident_generator
          /\ req_pc = "put_inprog" => work_inprog_chain[k].ident < ident_generator

\* No two tasks in flight have the same taskID.
TasksOrdered ==
    ~resetInFlight =>
        /\ \A i, j \in 1..Len(work_chain) :
              i < j => work_chain[i].ident < work_chain[j].ident
        /\ \A i \in 1..Len(work_chain) :
              /\ work_obj.ident < work_chain[i].ident
              /\ work_chain[i].ident <= ident_generator
        /\ work_obj.ident <= ident_generator

IInv ==
    /\ TypeOK
    /\ ThreadObjects
    /\ WakeupPerTask
    /\ PushedIsLast
    /\ JobsOrdered
    /\ EntriesOrdered
    /\ TasksOrdered
    /\ InFlightHasEntry
    /\ OwnResult
    /\ StatusStaysUntilRead
    /\ EventAfterStatus
    /\ FailedNeverRuns
=============================================================================
