--------------------------- MODULE LibraryProofs ----------------------------
(***************************************************************************)
(* Two classes of the library that every service links.  TaskWorker's      *)
(* properties hold for any number of tasks and resets: the type invariant  *)
(* is proved first; the rest of IInv then goes action by action, each from *)
(* the facts about the chains that its step establishes.  A call of        *)
(* RpcClient gets its own answer although ids are not compared, for every  *)
(* number of calls and connections: ClientIInv is inductive.               *)
(***************************************************************************)
EXTENDS TaskWorker, RpcClient, ContainerProofs

\* The provers that every leaf is given to.
USE ZenonT(1), SMTT(20), Zenon
-----------------------------------------------------------------------------
(* Task worker                                                             *)

\* The positions of a chain after one more element was added.
LEMMA LastPosition ==
    ASSUME NEW n \in Nat
    PROVE  /\ \A i \in 1..(n + 1) : i \in 1..n \/ i = n + 1
           /\ \A i, j \in 1..(n + 1) : i < j => i \in 1..n
OBVIOUS

\* The elements of the two chains are typed, position by position.
LEMMA TaskChain ==
    ASSUME NEW c \in Seq(Task)
    PROVE  /\ Len(c) \in Nat
           /\ \A i \in 1..Len(c) : /\ c[i] \in Task
                                   /\ c[i].job \in Nat \ {0}
                                   /\ c[i].ident \in Nat \ {0}
<1>1. Len(c) \in Nat
  OBVIOUS
<1>2. \A i \in 1..Len(c) : c[i] \in Task
  BY ElementOfSeq
<1> QED  BY <1>1, <1>2, BoundsAssumption DEF Task, Job

\* The same for the entries.
LEMMA EntryChain ==
    ASSUME NEW c \in Seq(Entry)
    PROVE  /\ Len(c) \in Nat
           /\ \A k \in 1..Len(c) : /\ c[k] \in Entry
                                   /\ c[k].job \in Nat \ {0}
                                   /\ c[k].ident \in Nat \ {0}
                                   /\ c[k].result \in Nat
<1>1. Len(c) \in Nat
  OBVIOUS
<1>2. \A k \in 1..Len(c) : c[k] \in Entry
  BY ElementOfSeq
<1> QED  BY <1>1, <1>2, BoundsAssumption DEF Entry, Job, InProg

\* An entry of a chain gets its result without any other change to the chain.
LEMMA StoreResult ==
    ASSUME NEW c \in Seq(Entry), NEW i \in 1..Len(c), NEW j \in Job
    PROVE  LET d == [c EXCEPT ![i].result = j]
           IN  /\ d \in Seq(Entry)
               /\ Len(d) = Len(c)
               /\ \A k \in 1..Len(c) : k # i => d[k] = c[k]
               /\ d[i].job = c[i].job
               /\ d[i].ident = c[i].ident
               /\ d[i].result = j
<1> DEFINE e == [c[i] EXCEPT !.result = j]
           d == [c EXCEPT ![i] = e]
<1>1. c[i] \in Entry /\ Len(c) \in Nat
  BY EntryChain
<1>2. e \in Entry /\ e.job = c[i].job /\ e.ident = c[i].ident /\ e.result = j
  BY <1>1 DEF Entry
<1>3. /\ d \in Seq(Entry)
      /\ Len(d) = Len(c)
      /\ \A k \in 1..Len(c) : d[k] = IF k = i THEN e ELSE c[k]
  <2> HIDE DEF e
  <2> QED  BY <1>2
<1> QED  BY <1>2, <1>3
-----------------------------------------------------------------------------
(* Types *)

TypeInv == TypeOK /\ ThreadObjects

\* The constructor's state is typed.
LEMMA TypeInit == Init => TypeInv
<1> SUFFICES ASSUME Init PROVE TypeInv
  OBVIOUS
<1>1. /\ work_chain \in Seq(Task)
      /\ work_inprog_chain \in Seq(Entry)
  BY DEF Init
<1>2. NoTask \in [job : Job \cup {0}, ident : Job \cup {0}, done_action : DoneAction]
  BY DEF NoTask, DoneAction
<1>3. /\ ident_generator \in 0..MaxJobs /\ jobs \in 0..MaxJobs
      /\ resets \in 0..MaxResets
      /\ failed \in SUBSET Job
  BY BoundsAssumption DEF Init
<1>4. TypeOK
  BY <1>1, <1>2, <1>3 DEF Init, TypeOK
<1>5. ThreadObjects
  BY DEF Init, ThreadObjects
<1> QED  BY <1>4, <1>5 DEF TypeInv

\* The whole step of a thread through the chains keeps everything typed.
LEMMA TypeStep == TypeInv /\ [Next]_vars => TypeInv'
<1> SUFFICES ASSUME TypeInv, [Next]_vars PROVE TypeInv'
  OBVIOUS
<1> USE BoundsAssumption
<1> DEFINE ReqObj == [job : Job \cup {0}, ident : Job \cup {0},
                      done_action : DoneAction]
<1>0. /\ NoTask \in ReqObj /\ Task \subseteq ReqObj
      /\ \A id \in Job : /\ [NoTask EXCEPT !.ident = id] \in ReqObj
                         /\ [NoTask EXCEPT !.ident = id].ident = id
  BY DEF NoTask, DoneAction, Task
<1>1. ASSUME NEW done \in DoneAction, PutWork(done) PROVE TypeInv'
  <2> DEFINE task == [job |-> jobs + 1, ident |-> ident_generator + 1,
                      done_action |-> done]
  <2>1. task \in Task /\ task \in ReqObj
    BY <1>1 DEF TypeInv, TypeOK, ThreadObjects, PutWork, Task, Job
  <2>2. work_chain' \in Seq(Task)
    BY <1>1, <2>1, Put DEF TypeInv, TypeOK, PutWork
  <2> QED
    BY <1>1, <2>1, <2>2
    DEF TypeInv, TypeOK, ThreadObjects, PutWork, wrkVars
<1>2. ASSUME PutWorkFails PROVE TypeInv'
  BY <1>2 DEF TypeInv, TypeOK, ThreadObjects, PutWorkFails, wrkVars, Job
<1>3. ASSUME PutInprog PROVE TypeInv'
  <2> DEFINE e == [job |-> req_obj.job, ident |-> req_obj.ident,
                   result |-> InProg]
  <2>1. e \in Entry
    BY <1>3 DEF TypeInv, ThreadObjects, PutInprog, Task, Entry
  <2>2. work_inprog_chain' \in Seq(Entry)
    BY <1>3, <2>1, Put DEF TypeInv, TypeOK, PutInprog
  <2> QED
    BY <1>3, <2>2 DEF TypeInv, TypeOK, ThreadObjects, PutInprog, wrkVars
<1>4. ASSUME PutInprogFails PROVE TypeInv'
  <2>1. work_chain' \in Seq(Task)
    BY <1>4, RemoveByIdent DEF TypeInv, TypeOK, PutInprogFails
  <2>2. req_obj.job \in Job
    BY <1>4 DEF TypeInv, ThreadObjects, PutInprogFails, Task
  <2> QED
    BY <1>0, <1>4, <2>1, <2>2
    DEF TypeInv, TypeOK, ThreadObjects, PutInprogFails, wrkVars
<1>5. ASSUME WakeupThread PROVE TypeInv'
  BY <1>0, <1>5 DEF TypeInv, TypeOK, ThreadObjects, WakeupThread, wrkVars
<1>6. ASSUME NEW taskID \in Job, GetTaskStatus(taskID) PROVE TypeInv'
  BY <1>0, <1>6
  DEF TypeInv, TypeOK, ThreadObjects, GetTaskStatus, chains, wrkVars
<1>7. ASSUME RemoveStatus PROVE TypeInv'
  <2>1. work_inprog_chain' \in Seq(Entry)
    BY <1>7, RemoveByIdent DEF TypeInv, TypeOK, RemoveStatus
  <2> QED
    BY <1>0, <1>7, <2>1
    DEF TypeInv, TypeOK, ThreadObjects, RemoveStatus, wrkVars
<1>8. ASSUME ResetTaskIdAndChain PROVE TypeInv'
  <2>1. InFlight \in BOOLEAN /\ <<>> \in Seq(Entry)
    BY DEF InFlight
  <2> QED
    BY <1>8, <2>1
    DEF TypeInv, TypeOK, ThreadObjects, ResetTaskIdAndChain, wrkVars
<1>9. ASSUME SemWait PROVE TypeInv'
  BY <1>9 DEF TypeInv, TypeOK, ThreadObjects, SemWait, reqVars
<1>10. ASSUME GetWork PROVE TypeInv'
  <2>1. CASE work_chain = <<>>
    BY <1>10, <2>1 DEF TypeInv, TypeOK, ThreadObjects, GetWork, reqVars
  <2>2. CASE work_chain # <<>>
    <3>1. work_obj' \in Task /\ work_chain' \in Seq(Task)
      BY <1>10, <2>2, Get DEF TypeInv, TypeOK, GetWork
    <3> QED
      BY <1>10, <2>2, <3>1
      DEF TypeInv, TypeOK, ThreadObjects, GetWork, reqVars
  <2> QED  BY <2>1, <2>2
<1>11. ASSUME RunWork PROVE TypeInv'
  BY <1>11 DEF TypeInv, TypeOK, ThreadObjects, RunWork, chains, reqVars
<1>12. ASSUME CompletePreserve PROVE TypeInv'
  <2> DEFINE i == chain_get_by_ident(work_inprog_chain, work_obj.ident)
  <2>1. work_obj.job \in Job
    BY <1>12 DEF TypeInv, ThreadObjects, CompletePreserve, Task
  <2>2. i = 0 \/ i \in 1..Len(work_inprog_chain)
    BY GetByIdent DEF TypeInv, TypeOK
  <2>3. work_inprog_chain' \in Seq(Entry)
    BY <1>12, <2>1, <2>2, StoreResult DEF TypeInv, TypeOK, CompletePreserve
  <2> QED
    BY <1>12, <2>3
    DEF TypeInv, TypeOK, ThreadObjects, CompletePreserve, reqVars
<1>13. ASSUME NotifyEvent PROVE TypeInv'
  BY <1>13 DEF TypeInv, TypeOK, ThreadObjects, NotifyEvent, chains, reqVars
<1>14. ASSUME CompleteDelete PROVE TypeInv'
  <2>1. work_inprog_chain' \in Seq(Entry)
    BY <1>14, RemoveByIdent DEF TypeInv, TypeOK, CompleteDelete
  <2> QED
    BY <1>14, <2>1
    DEF TypeInv, TypeOK, ThreadObjects, CompleteDelete, reqVars
<1>15. CASE UNCHANGED vars
  BY <1>15
  DEF TypeInv, TypeOK, ThreadObjects, vars, chains, reqVars, wrkVars
<1> QED
  BY <1>1, <1>2, <1>3, <1>4, <1>5, <1>6, <1>7, <1>8, <1>9, <1>10, <1>11,
     <1>12, <1>13, <1>14, <1>15 DEF Next

\* The chains, the two threads' objects and the counters of ADTaskWorker keep
\* their types for every number of tasks and resets.
THEOREM TypeCorrect == Spec => []TypeOK
<1>1. Spec => []TypeInv
  BY TypeInit, TypeStep, PTL DEF Spec
<1>2. TypeInv => TypeOK
  BY DEF TypeInv
<1> QED  BY <1>1, <1>2, PTL
-----------------------------------------------------------------------------
(* The rest of the inductive invariant, action by action                   *)

\* The numbers an invariant compares are naturals.
LEMMA Numbers ==
    ASSUME TypeOK
    PROVE  /\ jobs \in Nat /\ ident_generator \in Nat /\ one_shot_sema \in Nat
           /\ req_obj.job \in Nat /\ req_obj.ident \in Nat
           /\ work_obj.job \in Nat /\ work_obj.ident \in Nat
           /\ NoTask.job = 0 /\ NoTask.ident = 0
BY BoundsAssumption DEF TypeOK, Task, NoTask, Job

\* push_task's first chain_put, with the new ident and the new tail.
LEMMA PutWorkStep ==
    ASSUME IInv, NEW done \in DoneAction, PutWork(done), TypeInv'
    PROVE  IInv'
<1> DEFINE n == Len(work_chain)
<1>1. /\ req_pc = "idle" /\ req_pc' = "put_inprog"
      /\ jobs' = jobs + 1
      /\ ident_generator' = ident_generator + 1
      /\ req_obj'.job = jobs + 1 /\ req_obj'.ident = ident_generator + 1
      /\ UNCHANGED <<work_inprog_chain, one_shot_sema, failed, resetInFlight,
                     wrk_pc, work_obj>>
  BY DEF PutWork, wrkVars
<1>2. /\ Len(work_chain') = n + 1
      /\ work_chain' # <<>>
      /\ \A i \in 1..n : work_chain'[i] = work_chain[i]
      /\ work_chain'[n + 1] = req_obj'
  <2>1. PICK e \in Task : req_obj' = e
    BY <1>1 DEF TypeInv, ThreadObjects
  <2>2. work_chain' = chain_put(work_chain, e)
    BY <2>1 DEF PutWork
  <2>3. work_chain \in Seq(Task)
    BY DEF IInv, TypeOK
  <2>4. /\ Len(chain_put(work_chain, e)) = n + 1
        /\ chain_put(work_chain, e) # <<>>
        /\ \A i \in 1..n : chain_put(work_chain, e)[i] = work_chain[i]
        /\ chain_put(work_chain, e)[n + 1] = e
    BY <2>3, Put
  <2> QED  BY <2>1, <2>2, <2>4
<1>3. n \in Nat /\ \A i \in 1..n : work_chain[i].job \in Nat
                                  /\ work_chain[i].ident \in Nat
  BY TaskChain DEF IInv, TypeOK
<1>4. Len(work_inprog_chain) \in Nat
      /\ \A k \in 1..Len(work_inprog_chain) : work_inprog_chain[k].ident \in Nat
  BY EntryChain DEF IInv, TypeOK
<1>5. jobs \in Nat /\ ident_generator \in Nat /\ work_obj.job \in Nat
      /\ work_obj.ident \in Nat /\ one_shot_sema \in Nat
  BY Numbers DEF IInv
<1>6. WakeupPerTask'
  BY <1>1, <1>2, <1>3, <1>5 DEF IInv, WakeupPerTask
<1>7. PushedIsLast'
  BY <1>1, <1>2 DEF PushedIsLast
<1>8. JobsOrdered'
  <2>1. \A i \in 1..n : work_obj.job < work_chain[i].job
                        /\ work_chain[i].job <= jobs
    BY DEF IInv, JobsOrdered
  <2>2. ASSUME NEW i \in 1..(n + 1), NEW j \in 1..(n + 1), i < j
        PROVE  work_chain'[i].job < work_chain'[j].job
    <3>1. i \in 1..n /\ (j \in 1..n \/ j = n + 1)
      BY <1>3, <2>2, LastPosition
    <3>2. CASE j \in 1..n
      BY <1>2, <2>2, <3>1, <3>2 DEF IInv, JobsOrdered
    <3>3. CASE j = n + 1
      <4>1. work_chain[i].job <= jobs /\ work_chain[i].job \in Nat
        BY <1>3, <2>1, <3>1
      <4>2. work_chain'[i] = work_chain[i] /\ work_chain'[j].job = jobs + 1
        BY <1>1, <1>2, <3>1, <3>3
      <4> QED  BY <1>5, <4>1, <4>2
    <3> QED  BY <3>1, <3>2, <3>3
  <2>3. ASSUME NEW i \in 1..(n + 1)
        PROVE  work_obj.job < work_chain'[i].job /\ work_chain'[i].job <= jobs + 1
    <3>1. i \in 1..n \/ i = n + 1
      BY <1>3
    <3> QED  BY <1>1, <1>2, <1>3, <1>5, <2>1, <3>1 DEF IInv, JobsOrdered
  <2>4. work_obj.job <= jobs + 1 /\ \A j \in failed : j <= jobs + 1
    BY <1>5, BoundsAssumption DEF IInv, TypeOK, Job, JobsOrdered
  <2> QED  BY <1>1, <1>2, <2>2, <2>3, <2>4 DEF JobsOrdered
<1>9. EntriesOrdered'
  BY <1>1, <1>4, <1>5 DEF IInv, EntriesOrdered
<1>10. TasksOrdered'
  <2> SUFFICES ASSUME ~resetInFlight PROVE TasksOrdered'
    BY <1>1 DEF TasksOrdered
  <2>1. \A i \in 1..n : work_obj.ident < work_chain[i].ident
                        /\ work_chain[i].ident <= ident_generator
    BY DEF IInv, TasksOrdered
  <2>2. ASSUME NEW i \in 1..(n + 1), NEW j \in 1..(n + 1), i < j
        PROVE  work_chain'[i].ident < work_chain'[j].ident
    <3>1. i \in 1..n /\ (j \in 1..n \/ j = n + 1)
      BY <1>3, <2>2, LastPosition
    <3>2. CASE j \in 1..n
      BY <1>2, <2>2, <3>1, <3>2 DEF IInv, TasksOrdered
    <3>3. CASE j = n + 1
      <4>1. work_chain[i].ident <= ident_generator /\ work_chain[i].ident \in Nat
        BY <1>3, <2>1, <3>1
      <4>2. /\ work_chain'[i] = work_chain[i]
            /\ work_chain'[j].ident = ident_generator + 1
        BY <1>1, <1>2, <3>1, <3>3
      <4> QED  BY <1>5, <4>1, <4>2
    <3> QED  BY <3>1, <3>2, <3>3
  <2>3. work_obj.ident <= ident_generator
    BY DEF IInv, TasksOrdered
  <2>4. ASSUME NEW i \in 1..(n + 1)
        PROVE  /\ work_obj.ident < work_chain'[i].ident
               /\ work_chain'[i].ident <= ident_generator + 1
    <3>1. CASE i \in 1..n
      <4>1. work_chain'[i] = work_chain[i] /\ work_chain[i].ident \in Nat
        BY <1>2, <1>3, <3>1
      <4> QED  BY <1>5, <2>1, <3>1, <4>1
    <3>2. CASE i = n + 1
      BY <1>1, <1>2, <1>5, <2>3, <3>2
    <3> QED  BY <1>3, <3>1, <3>2, LastPosition
  <2> QED  BY <1>1, <1>2, <1>5, <2>2, <2>3, <2>4 DEF TasksOrdered
<1>11. InFlightHasEntry'
  <2>1. ASSUME ~resetInFlight, NEW i \in 1..n PROVE HasOpenEntry(work_chain[i])'
    BY <1>1, <1>2, <2>1 DEF IInv, InFlightHasEntry, HasOpenEntry
  <2>2. ~resetInFlight /\ wrk_pc \in {"run", "complete"} => HasOpenEntry(work_obj)'
    BY <1>1 DEF IInv, InFlightHasEntry, HasOpenEntry
  <2>3. \A i \in 1..Len(work_chain') : i \in 1..n \/ i = Len(work_chain')
    BY <1>2, <1>3
  <2> QED  BY <1>1, <2>1, <2>2, <2>3 DEF InFlightHasEntry
<1>12. OwnResult' /\ EventAfterStatus' /\ StatusStaysUntilRead'
  BY <1>1 DEF IInv, OwnResult, EventAfterStatus, StatusStaysUntilRead
<1>13. FailedNeverRuns'
  BY <1>1, <1>2, <1>3, <1>5 DEF IInv, FailedNeverRuns, JobsOrdered
<1> QED
  BY <1>6, <1>7, <1>8, <1>9, <1>10, <1>11, <1>12, <1>13 DEF IInv, TypeInv

\* push_task failing at once: an ident is spent, nothing is queued.
LEMMA PutWorkFailsStep ==
    ASSUME IInv, PutWorkFails, TypeInv'
    PROVE  IInv'
<1>1. /\ req_pc = "idle" /\ req_pc' = "idle"
      /\ jobs' = jobs + 1
      /\ ident_generator' = ident_generator + 1
      /\ failed' = failed \cup {jobs + 1}
      /\ UNCHANGED <<work_chain, work_inprog_chain, one_shot_sema, req_obj,
                     resetInFlight, wrk_pc, work_obj>>
  BY DEF PutWorkFails, wrkVars
<1>2. /\ \A i \in 1..Len(work_chain) : work_chain[i].job \in Nat
                                      /\ work_chain[i].ident \in Nat
      /\ \A k \in 1..Len(work_inprog_chain) : work_inprog_chain[k].ident \in Nat
  BY TaskChain, EntryChain DEF IInv, TypeOK
<1>3. jobs \in Nat /\ ident_generator \in Nat /\ work_obj.job \in Nat
      /\ work_obj.ident \in Nat
  BY Numbers DEF IInv
<1>4. \A j \in failed : j \in Nat
  BY BoundsAssumption DEF IInv, TypeOK, Job
<1>5. WakeupPerTask' /\ PushedIsLast'
  BY <1>1 DEF IInv, WakeupPerTask, PushedIsLast
<1>6. JobsOrdered'
  BY <1>1, <1>2, <1>3, <1>4 DEF IInv, JobsOrdered
<1>7. EntriesOrdered'
  BY <1>1, <1>2, <1>3 DEF IInv, EntriesOrdered
<1>8. TasksOrdered'
  BY <1>1, <1>2, <1>3 DEF IInv, TasksOrdered
<1>9. InFlightHasEntry' /\ OwnResult' /\ EventAfterStatus' /\ StatusStaysUntilRead'
  BY <1>1 DEF IInv, InFlightHasEntry, HasOpenEntry, OwnResult,
              EventAfterStatus, StatusStaysUntilRead
<1>10. FailedNeverRuns'
  BY <1>1, <1>2, <1>3 DEF IInv, FailedNeverRuns, JobsOrdered
<1> QED
  BY <1>5, <1>6, <1>7, <1>8, <1>9, <1>10 DEF IInv, TypeInv

\* push_task's second chain_put: the tail of work_chain gets its entry.
LEMMA PutInprogStep ==
    ASSUME IInv, PutInprog, TypeInv'
    PROVE  IInv'
<1> DEFINE n == Len(work_inprog_chain)
<1>1. /\ req_pc = "put_inprog" /\ req_pc' = "wakeup"
      /\ UNCHANGED <<work_chain, ident_generator, one_shot_sema, req_obj, jobs,
                     failed, resetInFlight, wrk_pc, work_obj>>
  BY DEF PutInprog, wrkVars
<1>2. /\ Len(work_inprog_chain') = n + 1
      /\ \A k \in 1..n : work_inprog_chain'[k] = work_inprog_chain[k]
      /\ work_inprog_chain'[n + 1].job = req_obj.job
      /\ work_inprog_chain'[n + 1].ident = req_obj.ident
      /\ work_inprog_chain'[n + 1].result = InProg
  <2>1. PICK e \in Entry :
           /\ work_inprog_chain' = chain_put(work_inprog_chain, e)
           /\ e.job = req_obj.job
           /\ e.ident = req_obj.ident
           /\ e.result = InProg
    <3>1. [job |-> req_obj.job, ident |-> req_obj.ident, result |-> InProg]
             \in Entry
      BY <1>1 DEF IInv, ThreadObjects, Task, Entry
    <3> QED  BY <3>1 DEF PutInprog
  <2>2. work_inprog_chain \in Seq(Entry)
    BY DEF IInv, TypeOK
  <2>3. /\ Len(chain_put(work_inprog_chain, e)) = n + 1
        /\ \A k \in 1..n :
              chain_put(work_inprog_chain, e)[k] = work_inprog_chain[k]
        /\ chain_put(work_inprog_chain, e)[n + 1] = e
    BY <2>2, Put
  <2> QED  BY <2>1, <2>3
<1>3. /\ n \in Nat
      /\ \A k \in 1..n : work_inprog_chain[k].ident \in Nat
  BY EntryChain DEF IInv, TypeOK
<1>4. ident_generator \in Nat
  BY Numbers DEF IInv
<1>5. /\ work_chain[Len(work_chain)] = req_obj
      /\ req_obj.ident = ident_generator
      /\ \A k \in 1..n : work_inprog_chain[k].ident < ident_generator
  BY <1>1 DEF IInv, PushedIsLast, EntriesOrdered
<1>6. WakeupPerTask' /\ PushedIsLast' /\ JobsOrdered' /\ TasksOrdered'
  BY <1>1 DEF IInv, WakeupPerTask, PushedIsLast, JobsOrdered, TasksOrdered
<1>7. EntriesOrdered'
  <2>1. ASSUME NEW k \in 1..(n + 1), NEW l \in 1..(n + 1), k < l
        PROVE  work_inprog_chain'[k].ident < work_inprog_chain'[l].ident
    <3>1. k \in 1..n /\ (l \in 1..n \/ l = n + 1)
      BY <1>3, <2>1
    <3> QED  BY <1>2, <1>5, <2>1, <3>1 DEF IInv, EntriesOrdered
  <2>2. ASSUME NEW k \in 1..(n + 1)
        PROVE  work_inprog_chain'[k].ident <= ident_generator
    <3>1. k \in 1..n \/ k = n + 1
      BY <1>3
    <3> QED  BY <1>2, <1>3, <1>4, <1>5, <3>1
  <2> QED  BY <1>1, <1>2, <2>1, <2>2 DEF EntriesOrdered
<1>8. InFlightHasEntry'
  <2>1. ASSUME NEW t, HasOpenEntry(t) PROVE HasOpenEntry(t)'
    BY <1>2, <1>3, <2>1 DEF HasOpenEntry
  <2>2. HasOpenEntry(req_obj)'
    BY <1>1, <1>2, <1>3 DEF HasOpenEntry
  <2> QED
    BY <1>1, <1>5, <2>1, <2>2 DEF IInv, InFlightHasEntry
<1>9. OwnResult'
  BY <1>1, <1>2, <1>3 DEF IInv, OwnResult
<1>10. StatusStaysUntilRead' /\ FailedNeverRuns'
  BY <1>1 DEF IInv, StatusStaysUntilRead, FailedNeverRuns
<1>11. EventAfterStatus'
  <2>1. ~resetInFlight /\ wrk_pc = "notify" => work_obj.ident # ident_generator
    <3>1. 1 \in 1..Len(work_chain) \/ Len(work_chain) = 0
      BY TaskChain DEF IInv, TypeOK
    <3>2. ~resetInFlight =>
            \A i \in 1..Len(work_chain) : work_obj.ident < work_chain[i].ident
      BY DEF IInv, TasksOrdered
    <3>3. Len(work_chain) \in 1..Len(work_chain)
      BY <1>1, TaskChain DEF IInv, TypeOK, PushedIsLast
    <3> QED  BY <1>4, <1>5, <3>2, <3>3, Numbers DEF IInv
  <2> QED
    BY <1>1, <1>2, <1>3, <1>5, <2>1 DEF IInv, EventAfterStatus
<1> QED
  BY <1>6, <1>7, <1>8, <1>9, <1>10, <1>11 DEF IInv, TypeInv

\* A taskID names at most one entry.
LEMMA EntryUnique ==
    ASSUME TypeOK, EntriesOrdered,
           NEW k \in 1..Len(work_inprog_chain),
           NEW l \in 1..Len(work_inprog_chain),
           work_inprog_chain[k].ident = work_inprog_chain[l].ident
    PROVE  k = l
<1>1. /\ Len(work_inprog_chain) \in Nat
      /\ work_inprog_chain[k].ident \in Nat
      /\ work_inprog_chain[l].ident \in Nat
  BY EntryChain DEF TypeOK
<1>2. ~(k < l) /\ ~(l < k)
  BY <1>1 DEF EntriesOrdered
<1> QED  BY <1>1, <1>2

\* Removing an entry by its taskID leaves the others, in order.
LEMMA EntriesKept ==
    ASSUME TypeOK, EntriesOrdered, NEW id,
           work_inprog_chain' = chain_remove_by_ident(work_inprog_chain, id),
           ident_generator' = ident_generator,
           req_pc' = req_pc \/ req_pc' # "put_inprog"
    PROVE  /\ EntriesOrdered'
           /\ \A j \in 1..Len(work_inprog_chain') :
                 \E k \in 1..Len(work_inprog_chain) :
                    work_inprog_chain'[j] = work_inprog_chain[k]
           /\ \A k \in 1..Len(work_inprog_chain) :
                 work_inprog_chain[k].ident # id =>
                    \E j \in 1..Len(work_inprog_chain') :
                       work_inprog_chain'[j] = work_inprog_chain[k]
<1> DEFINE c == chain_remove_by_ident(work_inprog_chain, id)
<1>1. work_inprog_chain \in Seq(Entry)
  BY DEF TypeOK
<1>2. PICK f \in [1..Len(c) -> 1..Len(work_inprog_chain)] :
         /\ \A j \in 1..Len(c) : c[j] = work_inprog_chain[f[j]]
         /\ \A j, k \in 1..Len(c) : j < k => f[j] < f[k]
  BY <1>1, RemoveByIdent
<1>3. \A k \in 1..Len(work_inprog_chain) : work_inprog_chain[k].ident # id =>
         \E j \in 1..Len(c) : c[j] = work_inprog_chain[k]
  BY <1>1, RemoveByIdent
<1>4. work_inprog_chain' = c
  OBVIOUS
<1> HIDE DEF c
<1>5. \A j \in 1..Len(c) : f[j] \in 1..Len(work_inprog_chain)
  BY <1>2
<1>6. ASSUME NEW j \in 1..Len(c), NEW k \in 1..Len(c), j < k
      PROVE  c[j].ident < c[k].ident
  <2>1. f[j] < f[k] /\ c[j] = work_inprog_chain[f[j]] /\ c[k] = work_inprog_chain[f[k]]
    BY <1>2, <1>6
  <2> QED  BY <1>5, <2>1 DEF EntriesOrdered
<1>7. ASSUME NEW j \in 1..Len(c)
      PROVE  /\ c[j].ident <= ident_generator
             /\ req_pc = "put_inprog" => c[j].ident < ident_generator
  <2>1. c[j] = work_inprog_chain[f[j]]
    BY <1>2
  <2> QED  BY <1>5, <2>1 DEF EntriesOrdered
<1>8. EntriesOrdered'
  BY <1>4, <1>6, <1>7 DEF EntriesOrdered
<1> QED  BY <1>2, <1>3, <1>4, <1>5, <1>8

\* push_task taking its work back: the tail of work_chain goes.
LEMMA PutInprogFailsStep ==
    ASSUME IInv, PutInprogFails, TypeInv'
    PROVE  IInv'
<1> DEFINE n == Len(work_chain)
<1>1. /\ req_pc = "put_inprog" /\ req_pc' = "idle"
      /\ failed' = failed \cup {req_obj.job}
      /\ UNCHANGED <<work_inprog_chain, ident_generator, one_shot_sema, jobs,
                     resetInFlight, wrk_pc, work_obj>>
  BY DEF PutInprogFails, wrkVars
<1>2. /\ n \in Nat /\ work_chain \in Seq(Task)
      /\ \A i \in 1..n : work_chain[i].job \in Nat /\ work_chain[i].ident \in Nat
  BY TaskChain DEF IInv, TypeOK
<1>3. /\ n \in 1..n
      /\ work_chain[n] = req_obj
      /\ req_obj.ident = ident_generator
  BY <1>1, <1>2 DEF IInv, PushedIsLast
<1>4. PICK i \in 1..n :
         /\ work_chain[i].ident = req_obj.ident
         /\ Len(work_chain') = n - 1
         /\ \A j \in 1..(n - 1) :
               work_chain'[j] = IF j < i THEN work_chain[j] ELSE work_chain[j + 1]
  <2>1. work_chain' = chain_remove_by_ident(work_chain, req_obj.ident)
    BY DEF PutInprogFails
  <2> DEFINE c == chain_remove_by_ident(work_chain, req_obj.ident)
  <2>2. \/ c = work_chain /\ \A j \in 1..n : work_chain[j].ident # req_obj.ident
        \/ \E k \in 1..n :
             /\ work_chain[k].ident = req_obj.ident
             /\ \A j \in 1..n : work_chain[j].ident = req_obj.ident => k <= j
             /\ c \in Seq(Task)
             /\ Len(c) = n - 1
             /\ \A j \in 1..(n - 1) :
                   c[j] = IF j < k THEN work_chain[j] ELSE work_chain[j + 1]
    BY <1>2, RemoveByIdentShape, Zenon
  <2> HIDE DEF c
  <2>3. work_chain[n].ident = req_obj.ident
    BY <1>3
  <2> QED  BY <1>3, <2>1, <2>2, <2>3 DEF c
<1>5. /\ jobs \in Nat /\ one_shot_sema \in Nat /\ work_obj.job \in Nat
      /\ work_obj.ident \in Nat /\ ident_generator \in Nat
  BY Numbers DEF IInv
<1>6. PICK f \in [1..(n - 1) -> 1..n] :
         /\ \A j \in 1..(n - 1) : work_chain'[j] = work_chain[f[j]]
         /\ \A j, k \in 1..(n - 1) : j < k => f[j] < f[k]
  <2> DEFINE g == [j \in 1..(n - 1) |-> IF j < i THEN j ELSE j + 1]
  <2>1. g \in [1..(n - 1) -> 1..n]
    BY <1>2
  <2>2. \A j \in 1..(n - 1) : work_chain'[j] = work_chain[g[j]]
    BY <1>2, <1>4
  <2>3. \A j, k \in 1..(n - 1) : j < k => g[j] < g[k]
    BY <1>2
  <2> HIDE DEF g
  <2> QED  BY <2>1, <2>2, <2>3
<1>7. ASSUME ~resetInFlight
      PROVE  i = n /\ \A j \in 1..(n - 1) : j \in 1..n /\ j < n /\ work_chain'[j] = work_chain[j]
  <2>1. ~(i < n)
    <3>1. i < n => work_chain[i].ident < work_chain[n].ident
      BY <1>3, <1>7 DEF IInv, TasksOrdered
    <3> QED  BY <1>2, <1>3, <1>4, <3>1
  <2>2. i = n
    BY <1>2, <2>1
  <2> QED  BY <1>2, <1>4, <2>2
<1>8. WakeupPerTask' /\ PushedIsLast'
  BY <1>1, <1>2, <1>4, <1>5 DEF IInv, WakeupPerTask, PushedIsLast
<1>9. JobsOrdered'
  <2>1. req_obj.job <= jobs
    BY <1>3 DEF IInv, JobsOrdered
  <2>2. ASSUME NEW j \in 1..(n - 1)
        PROVE  work_obj.job < work_chain'[j].job /\ work_chain'[j].job <= jobs
    BY <1>6 DEF IInv, JobsOrdered
  <2>3. ASSUME NEW j \in 1..(n - 1), NEW k \in 1..(n - 1), j < k
        PROVE  work_chain'[j].job < work_chain'[k].job
    <3>1. f[j] < f[k] /\ f[j] \in 1..n /\ f[k] \in 1..n
      BY <1>6, <2>3
    <3> QED  BY <1>6, <3>1 DEF IInv, JobsOrdered
  <2>4. work_obj.job <= jobs /\ \A j \in failed : j <= jobs
    BY DEF IInv, JobsOrdered
  <2> QED  BY <1>1, <1>4, <2>1, <2>2, <2>3, <2>4 DEF JobsOrdered
<1>10. TasksOrdered'
  <2> SUFFICES ASSUME ~resetInFlight PROVE TasksOrdered'
    BY <1>1 DEF TasksOrdered
  <2>1. ASSUME NEW j \in 1..(n - 1)
        PROVE  /\ work_obj.ident < work_chain'[j].ident
               /\ work_chain'[j].ident <= ident_generator
    BY <1>6 DEF IInv, TasksOrdered
  <2>2. ASSUME NEW j \in 1..(n - 1), NEW k \in 1..(n - 1), j < k
        PROVE  work_chain'[j].ident < work_chain'[k].ident
    <3>1. f[j] < f[k] /\ f[j] \in 1..n /\ f[k] \in 1..n
      BY <1>6, <2>2
    <3> QED  BY <1>6, <3>1 DEF IInv, TasksOrdered
  <2>3. work_obj.ident <= ident_generator
    BY DEF IInv, TasksOrdered
  <2> QED  BY <1>1, <1>4, <2>1, <2>2, <2>3 DEF TasksOrdered
<1>11. EntriesOrdered' /\ OwnResult' /\ EventAfterStatus' /\ StatusStaysUntilRead'
  BY <1>1 DEF IInv, EntriesOrdered, OwnResult, EventAfterStatus,
              StatusStaysUntilRead
<1>12. InFlightHasEntry'
  <2> SUFFICES ASSUME ~resetInFlight PROVE InFlightHasEntry'
    BY <1>1 DEF InFlightHasEntry
  <2>1. ASSUME NEW j \in 1..(n - 1) PROVE HasOpenEntry(work_chain'[j])
    BY <1>2, <1>7, <2>1 DEF IInv, InFlightHasEntry
  <2> QED  BY <1>1, <1>4, <2>1 DEF IInv, InFlightHasEntry, HasOpenEntry
<1>13. FailedNeverRuns'
  <2> SUFFICES ASSUME ~resetInFlight PROVE FailedNeverRuns'
    BY <1>1 DEF FailedNeverRuns
  <2>1. work_obj.job < req_obj.job /\ req_obj.job \in Nat
    BY <1>2, <1>3 DEF IInv, JobsOrdered
  <2>2. ASSUME NEW j \in 1..(n - 1)
        PROVE  work_chain'[j].job \notin failed /\ work_chain'[j].job # req_obj.job
    <3>1. work_chain[j].job < work_chain[n].job
      BY <1>3, <1>7 DEF IInv, JobsOrdered
    <3> QED  BY <1>2, <1>3, <1>7, <3>1 DEF IInv, FailedNeverRuns
  <2>3. work_obj.job \notin failed /\ work_obj.job # req_obj.job
    BY <1>5, <2>1 DEF IInv, FailedNeverRuns
  <2> QED  BY <1>1, <1>4, <2>2, <2>3 DEF FailedNeverRuns
<1> QED
  BY <1>8, <1>9, <1>10, <1>11, <1>12, <1>13 DEF IInv, TypeInv

\* push_task's token.
LEMMA WakeupThreadStep ==
    ASSUME IInv, WakeupThread, TypeInv'
    PROVE  IInv'
<1>1. /\ req_pc = "wakeup" /\ req_pc' = "idle"
      /\ one_shot_sema' = one_shot_sema + 1
      /\ UNCHANGED <<work_chain, work_inprog_chain, ident_generator, jobs,
                     failed, resetInFlight, wrk_pc, work_obj>>
  BY DEF WakeupThread, wrkVars
<1>2. one_shot_sema \in Nat
  BY Numbers DEF IInv
<1>3. WakeupPerTask'
  BY <1>1, <1>2 DEF IInv, WakeupPerTask
<1>4. PushedIsLast' /\ JobsOrdered' /\ EntriesOrdered' /\ TasksOrdered'
  BY <1>1 DEF IInv, PushedIsLast, JobsOrdered, EntriesOrdered, TasksOrdered
<1>5. InFlightHasEntry' /\ OwnResult' /\ StatusStaysUntilRead'
  BY <1>1 DEF IInv, InFlightHasEntry, HasOpenEntry, OwnResult,
              StatusStaysUntilRead
<1>6. EventAfterStatus' /\ FailedNeverRuns'
  BY <1>1 DEF IInv, EventAfterStatus, FailedNeverRuns
<1> QED  BY <1>3, <1>4, <1>5, <1>6 DEF IInv, TypeInv

\* get_task_status's look-up: it goes on to remove only what it found done.
LEMMA GetTaskStatusStep ==
    ASSUME IInv, NEW taskID \in Job, GetTaskStatus(taskID), TypeInv'
    PROVE  IInv'
<1> DEFINE i == chain_get_by_ident(work_inprog_chain, taskID)
<1>1. /\ req_pc = "idle" /\ req_pc' \in {"idle", "remove"}
      /\ UNCHANGED <<work_chain, work_inprog_chain, ident_generator,
                     one_shot_sema, jobs, failed, resetInFlight, wrk_pc,
                     work_obj>>
  BY DEF GetTaskStatus, chains, wrkVars
<1>2. WakeupPerTask' /\ PushedIsLast' /\ JobsOrdered' /\ EntriesOrdered'
  BY <1>1 DEF IInv, WakeupPerTask, PushedIsLast, JobsOrdered, EntriesOrdered
<1>3. TasksOrdered' /\ InFlightHasEntry' /\ OwnResult'
  BY <1>1 DEF IInv, TasksOrdered, InFlightHasEntry, HasOpenEntry, OwnResult
<1>4. EventAfterStatus' /\ FailedNeverRuns'
  BY <1>1 DEF IInv, EventAfterStatus, FailedNeverRuns
<1>5. StatusStaysUntilRead'
  <2> SUFFICES ASSUME req_pc' = "remove" PROVE StatusStaysUntilRead'
    BY DEF StatusStaysUntilRead
  <2>1. /\ i # 0 /\ work_inprog_chain[i].result # InProg
        /\ req_obj' = [NoTask EXCEPT !.ident = taskID]
    BY <1>1 DEF GetTaskStatus
  <2>2. req_obj'.ident = taskID
    BY <2>1 DEF NoTask
  <2>3. work_inprog_chain \in Seq(Entry)
    BY DEF IInv, TypeOK
  <2>4. i \in 1..Len(work_inprog_chain) /\ work_inprog_chain[i].ident = taskID
    BY <2>1, <2>3, GetByIdent
  <2> HIDE DEF i
  <2> QED  BY <1>1, <2>1, <2>2, <2>4 DEF StatusStaysUntilRead
<1> QED  BY <1>2, <1>3, <1>4, <1>5 DEF IInv, TypeInv

\* get_task_status's removal takes a finished entry, never an open one.
LEMMA RemoveStatusStep ==
    ASSUME IInv, RemoveStatus, TypeInv'
    PROVE  IInv'
<1>1. /\ req_pc = "remove" /\ req_pc' = "idle"
      /\ work_inprog_chain' =
            chain_remove_by_ident(work_inprog_chain, req_obj.ident)
      /\ UNCHANGED <<work_chain, ident_generator, one_shot_sema, jobs, failed,
                     resetInFlight, wrk_pc, work_obj>>
  BY DEF RemoveStatus, wrkVars
<1>2. TypeOK /\ EntriesOrdered
  BY DEF IInv
<1>3. /\ EntriesOrdered'
      /\ \A j \in 1..Len(work_inprog_chain') :
            \E k \in 1..Len(work_inprog_chain) :
               work_inprog_chain'[j] = work_inprog_chain[k]
      /\ \A k \in 1..Len(work_inprog_chain) :
            work_inprog_chain[k].ident # req_obj.ident =>
               \E j \in 1..Len(work_inprog_chain') :
                  work_inprog_chain'[j] = work_inprog_chain[k]
  BY <1>1, <1>2, EntriesKept
<1>4. WakeupPerTask' /\ PushedIsLast' /\ JobsOrdered' /\ TasksOrdered'
  BY <1>1 DEF IInv, WakeupPerTask, PushedIsLast, JobsOrdered, TasksOrdered
<1>5. OwnResult' /\ EventAfterStatus'
  BY <1>1, <1>3 DEF IInv, OwnResult, EventAfterStatus
<1>6. StatusStaysUntilRead' /\ FailedNeverRuns'
  BY <1>1 DEF IInv, StatusStaysUntilRead, FailedNeverRuns
<1>7. InFlightHasEntry'
  <2> SUFFICES ASSUME ~resetInFlight PROVE InFlightHasEntry'
    BY <1>1 DEF InFlightHasEntry
  <2>1. ASSUME NEW t, HasOpenEntry(t)
        PROVE  \E j \in 1..Len(work_inprog_chain') :
                  /\ work_inprog_chain'[j].ident = t.ident
                  /\ work_inprog_chain'[j].job = t.job
                  /\ work_inprog_chain'[j].result = InProg
    <3>1. PICK k \in 1..Len(work_inprog_chain) :
             /\ work_inprog_chain[k].ident = t.ident
             /\ work_inprog_chain[k].job = t.job
             /\ work_inprog_chain[k].result = InProg
      BY <2>1 DEF HasOpenEntry
    <3>2. PICK l \in 1..Len(work_inprog_chain) :
             /\ work_inprog_chain[l].ident = req_obj.ident
             /\ work_inprog_chain[l].result # InProg
      BY <1>1 DEF IInv, StatusStaysUntilRead
    <3>3. work_inprog_chain[k].ident # req_obj.ident
      BY <1>2, <3>1, <3>2, EntryUnique
    <3> QED  BY <1>3, <3>1, <3>3
  <2> QED  BY <1>1, <2>1 DEF IInv, InFlightHasEntry, HasOpenEntry
<1> QED  BY <1>3, <1>4, <1>5, <1>6, <1>7 DEF IInv, TypeInv

\* A reset on an idle worker starts afresh; any other sets resetInFlight.
LEMMA ResetTaskIdAndChainStep ==
    ASSUME IInv, ResetTaskIdAndChain, TypeInv'
    PROVE  IInv'
<1>1. /\ req_pc = "idle" /\ req_pc' = "idle"
      /\ work_inprog_chain' = <<>>
      /\ ident_generator' = 0
      /\ resetInFlight' = (resetInFlight \/ InFlight)
      /\ UNCHANGED <<work_chain, one_shot_sema, req_obj, jobs, failed, wrk_pc,
                     work_obj>>
  BY DEF ResetTaskIdAndChain, wrkVars
<1>2. Len(<<>>) = 0 /\ 1..0 = {}
  OBVIOUS
<1>3. ~resetInFlight' =>
         /\ ~resetInFlight
         /\ work_chain = <<>>
         /\ wrk_pc \in {"wait", "get"}
         /\ work_obj = NoTask
  BY <1>1 DEF InFlight, IInv, TypeOK, ThreadObjects
<1>4. WakeupPerTask' /\ PushedIsLast' /\ JobsOrdered'
  BY <1>1 DEF IInv, WakeupPerTask, PushedIsLast, JobsOrdered
<1>5. EntriesOrdered' /\ OwnResult' /\ EventAfterStatus'
  BY <1>1, <1>2 DEF EntriesOrdered, OwnResult, EventAfterStatus
<1>6. TasksOrdered'
  BY <1>1, <1>2, <1>3, Numbers DEF TasksOrdered, IInv
<1>7. InFlightHasEntry'
  BY <1>1, <1>2, <1>3 DEF InFlightHasEntry
<1>8. StatusStaysUntilRead' /\ FailedNeverRuns'
  BY <1>1, <1>3 DEF IInv, StatusStaysUntilRead, FailedNeverRuns
<1> QED  BY <1>4, <1>5, <1>6, <1>7, <1>8 DEF IInv, TypeInv

\* The worker takes a token.
LEMMA SemWaitStep ==
    ASSUME IInv, SemWait, TypeInv'
    PROVE  IInv'
<1>1. /\ wrk_pc = "wait" /\ wrk_pc' = "get"
      /\ one_shot_sema > 0 /\ one_shot_sema' = one_shot_sema - 1
      /\ UNCHANGED <<work_chain, work_inprog_chain, ident_generator, work_obj,
                     req_pc, req_obj, jobs, failed, resetInFlight>>
  BY DEF SemWait, reqVars
<1>2. one_shot_sema \in Nat
  BY Numbers DEF IInv
<1>3. WakeupPerTask'
  BY <1>1, <1>2 DEF IInv, WakeupPerTask
<1>4. PushedIsLast' /\ JobsOrdered' /\ EntriesOrdered' /\ TasksOrdered'
  BY <1>1 DEF IInv, PushedIsLast, JobsOrdered, EntriesOrdered, TasksOrdered
<1>5. InFlightHasEntry' /\ OwnResult' /\ StatusStaysUntilRead'
  BY <1>1 DEF IInv, InFlightHasEntry, HasOpenEntry, OwnResult,
              StatusStaysUntilRead
<1>6. EventAfterStatus' /\ FailedNeverRuns'
  BY <1>1 DEF IInv, EventAfterStatus, FailedNeverRuns
<1> QED  BY <1>3, <1>4, <1>5, <1>6 DEF IInv, TypeInv

\* chain_get: there is a task to take, and it is not the one being pushed.
LEMMA GetWorkStep ==
    ASSUME IInv, GetWork, TypeInv'
    PROVE  IInv'
<1> DEFINE n == Len(work_chain)
<1>1. /\ wrk_pc = "get"
      /\ UNCHANGED <<work_inprog_chain, ident_generator, one_shot_sema, req_pc,
                     req_obj, jobs, failed, resetInFlight>>
  BY DEF GetWork, reqVars
<1>2. /\ n \in Nat /\ work_chain \in Seq(Task)
      /\ \A i \in 1..n : work_chain[i].job \in Nat /\ work_chain[i].ident \in Nat
  BY TaskChain DEF IInv, TypeOK
<1>3. one_shot_sema \in Nat
  BY Numbers DEF IInv
<1>4. n >= 1 /\ (req_pc \in {"put_inprog", "wakeup"} => n >= 2)
  BY <1>1, <1>2, <1>3 DEF IInv, WakeupPerTask
<1>5. work_chain # <<>>
  BY <1>2, <1>4
<1>6. /\ work_obj' = work_chain[1]
      /\ wrk_pc' = "run"
      /\ Len(work_chain') = n - 1
      /\ \A i \in 1..(n - 1) : work_chain'[i] = work_chain[i + 1]
  <2>1. /\ work_obj' = chain_get(work_chain)
        /\ work_chain' = chain_rest(work_chain)
        /\ wrk_pc' = "run"
    BY <1>5 DEF GetWork
  <2> QED  BY <1>2, <1>5, <2>1, Get
<1>7. /\ 1 \in 1..n
      /\ \A i \in 1..(n - 1) : i + 1 \in 1..n /\ 1 < i + 1
      /\ \A i, j \in 1..(n - 1) : i < j => i + 1 < j + 1
      /\ \A i \in 1..(n - 1) : i + 1 = n => i = n - 1
  BY <1>2, <1>4
<1>8. WakeupPerTask'
  BY <1>1, <1>2, <1>3, <1>6 DEF IInv, WakeupPerTask
<1>9. PushedIsLast'
  <2> SUFFICES ASSUME req_pc \in {"put_inprog", "wakeup"} PROVE PushedIsLast'
    BY <1>1 DEF PushedIsLast
  <2>1. n - 1 \in 1..(n - 1) /\ (n - 1) + 1 = n /\ n - 1 # 0
    BY <1>2, <1>4
  <2>2. work_chain'[n - 1] = work_chain[n]
    BY <1>6, <2>1
  <2>3. work_chain' # <<>>
    BY <1>6, <2>1 DEF TypeInv, TypeOK
  <2> QED  BY <1>1, <1>6, <2>2, <2>3 DEF IInv, PushedIsLast
<1>10. JobsOrdered'
  <2>1. ASSUME NEW i \in 1..(n - 1), NEW j \in 1..(n - 1), i < j
        PROVE  work_chain'[i].job < work_chain'[j].job
    BY <1>6, <1>7, <2>1 DEF IInv, JobsOrdered
  <2>2. ASSUME NEW i \in 1..(n - 1)
        PROVE  work_chain[1].job < work_chain'[i].job /\ work_chain'[i].job <= jobs
    BY <1>6, <1>7 DEF IInv, JobsOrdered
  <2>3. work_chain[1].job <= jobs /\ \A j \in failed : j <= jobs
    BY <1>7 DEF IInv, JobsOrdered
  <2> QED  BY <1>1, <1>6, <2>1, <2>2, <2>3 DEF JobsOrdered
<1>11. TasksOrdered'
  <2> SUFFICES ASSUME ~resetInFlight PROVE TasksOrdered'
    BY <1>1 DEF TasksOrdered
  <2>1. ASSUME NEW i \in 1..(n - 1), NEW j \in 1..(n - 1), i < j
        PROVE  work_chain'[i].ident < work_chain'[j].ident
    BY <1>6, <1>7, <2>1 DEF IInv, TasksOrdered
  <2>2. ASSUME NEW i \in 1..(n - 1)
        PROVE  /\ work_chain[1].ident < work_chain'[i].ident
               /\ work_chain'[i].ident <= ident_generator
    BY <1>6, <1>7 DEF IInv, TasksOrdered
  <2>3. work_chain[1].ident <= ident_generator
    BY <1>7 DEF IInv, TasksOrdered
  <2> QED  BY <1>1, <1>6, <2>1, <2>2, <2>3 DEF TasksOrdered
<1>12. EntriesOrdered' /\ OwnResult' /\ EventAfterStatus' /\ StatusStaysUntilRead'
  BY <1>1, <1>6 DEF IInv, EntriesOrdered, OwnResult, EventAfterStatus,
                    StatusStaysUntilRead
<1>13. InFlightHasEntry'
  <2> SUFFICES ASSUME ~resetInFlight PROVE InFlightHasEntry'
    BY <1>1 DEF InFlightHasEntry
  <2>1. HasOpenEntry(work_chain[1])
    <3>1. req_pc = "put_inprog" => 1 # n
      BY <1>2, <1>4
    <3> QED  BY <1>7, <3>1 DEF IInv, InFlightHasEntry
  <2>2. ASSUME NEW i \in 1..(n - 1)
        PROVE  \/ HasOpenEntry(work_chain'[i])
               \/ req_pc = "put_inprog" /\ i = n - 1
    BY <1>6, <1>7 DEF IInv, InFlightHasEntry
  <2> QED  BY <1>1, <1>6, <2>1, <2>2 DEF InFlightHasEntry, HasOpenEntry
<1>14. FailedNeverRuns'
  BY <1>1, <1>6, <1>7 DEF IInv, FailedNeverRuns
<1> QED
  BY <1>8, <1>9, <1>10, <1>11, <1>12, <1>13, <1>14 DEF IInv, TypeInv

\* run_work returns: only the worker's place changes.
LEMMA RunWorkStep ==
    ASSUME IInv, RunWork, TypeInv'
    PROVE  IInv'
<1>1. /\ wrk_pc = "run" /\ wrk_pc' = "complete"
      /\ UNCHANGED <<work_chain, work_inprog_chain, ident_generator,
                     one_shot_sema, work_obj, req_pc, req_obj, jobs, failed,
                     resetInFlight>>
  BY DEF RunWork, chains, reqVars
<1>2. WakeupPerTask' /\ PushedIsLast' /\ JobsOrdered' /\ EntriesOrdered'
  BY <1>1 DEF IInv, WakeupPerTask, PushedIsLast, JobsOrdered, EntriesOrdered
<1>3. TasksOrdered' /\ InFlightHasEntry' /\ OwnResult'
  BY <1>1 DEF IInv, TasksOrdered, InFlightHasEntry, HasOpenEntry, OwnResult
<1>4. StatusStaysUntilRead' /\ EventAfterStatus' /\ FailedNeverRuns'
  BY <1>1 DEF IInv, StatusStaysUntilRead, EventAfterStatus, FailedNeverRuns
<1> QED  BY <1>2, <1>3, <1>4 DEF IInv, TypeInv

\* The worker forgets a task it is done with.
LEMMA TaskForgotten ==
    ASSUME IInv, TypeInv', work_obj' = NoTask,
           UNCHANGED <<work_chain, ident_generator, jobs, failed, resetInFlight>>
    PROVE  JobsOrdered' /\ TasksOrdered' /\ FailedNeverRuns'
<1>1. /\ \A i \in 1..Len(work_chain) : /\ work_chain[i].job \in Nat \ {0}
                                        /\ work_chain[i].ident \in Nat \ {0}
  BY TaskChain DEF IInv, TypeOK
<1>2. /\ work_obj'.job = 0 /\ work_obj'.ident = 0
      /\ jobs \in Nat /\ ident_generator \in Nat
  BY Numbers DEF IInv
<1>3. 0 \notin failed
  BY BoundsAssumption DEF IInv, TypeOK, Job
<1>4. JobsOrdered'
  BY <1>1, <1>2 DEF IInv, JobsOrdered
<1>5. TasksOrdered'
  BY <1>1, <1>2 DEF IInv, TasksOrdered
<1>6. FailedNeverRuns'
  BY <1>2, <1>3 DEF IInv, FailedNeverRuns
<1> QED  BY <1>4, <1>5, <1>6

\* The result is stored in the entry of the task that was run.
LEMMA CompletePreserveStep ==
    ASSUME IInv, CompletePreserve, TypeInv'
    PROVE  IInv'
<1> DEFINE i == chain_get_by_ident(work_inprog_chain, work_obj.ident)
           n == Len(work_inprog_chain)
<1>1. /\ wrk_pc = "complete" /\ wrk_pc' = "notify"
      /\ UNCHANGED <<work_chain, ident_generator, one_shot_sema, work_obj,
                     req_pc, req_obj, jobs, failed, resetInFlight>>
  BY DEF CompletePreserve, reqVars
<1>2. work_obj \in Task /\ work_obj.job \in Job /\ work_obj.job # InProg
  BY <1>1, BoundsAssumption DEF IInv, ThreadObjects, Task, Job, InProg
<1>3. work_inprog_chain \in Seq(Entry) /\ TypeOK /\ EntriesOrdered
  BY DEF IInv, TypeOK
<1>4. \/ i = 0 /\ \A k \in 1..n : work_inprog_chain[k].ident # work_obj.ident
      \/ i \in 1..n /\ work_inprog_chain[i].ident = work_obj.ident
  BY <1>3, GetByIdent
<1>5. IF i = 0 THEN work_inprog_chain' = work_inprog_chain
      ELSE /\ Len(work_inprog_chain') = n
           /\ \A k \in 1..n : k # i => work_inprog_chain'[k] = work_inprog_chain[k]
           /\ work_inprog_chain'[i].job = work_inprog_chain[i].job
           /\ work_inprog_chain'[i].ident = work_inprog_chain[i].ident
           /\ work_inprog_chain'[i].result = work_obj.job
  <2> DEFINE d == [work_inprog_chain EXCEPT ![i].result = work_obj.job]
  <2>1. work_inprog_chain' = IF i = 0 THEN work_inprog_chain ELSE d
    BY DEF CompletePreserve
  <2>2. CASE i = 0
    BY <2>1, <2>2
  <2>3. CASE i # 0
    <3>1. i \in 1..n
      BY <1>4, <2>3
    <3>2. /\ Len(d) = n
          /\ \A k \in 1..n : k # i => d[k] = work_inprog_chain[k]
          /\ d[i].job = work_inprog_chain[i].job
          /\ d[i].ident = work_inprog_chain[i].ident
          /\ d[i].result = work_obj.job
      <4> HIDE DEF i
      <4> QED  BY <1>2, <1>3, <3>1, StoreResult
    <3> HIDE DEF d, i
    <3> QED  BY <2>1, <2>3, <3>2
  <2> QED  BY <2>2, <2>3
<1> HIDE DEF i
<1>6. /\ Len(work_inprog_chain') = n
      /\ \A k \in 1..n :
            /\ work_inprog_chain'[k].job = work_inprog_chain[k].job
            /\ work_inprog_chain'[k].ident = work_inprog_chain[k].ident
            /\ \/ work_inprog_chain'[k].result = work_inprog_chain[k].result
               \/ k = i /\ work_inprog_chain'[k].result = work_obj.job
  <2>1. CASE i = 0
    BY <1>5, <2>1
  <2>2. CASE i # 0
    <3>1. ASSUME NEW k \in 1..n, k # i
          PROVE  work_inprog_chain'[k] = work_inprog_chain[k]
      BY <1>5, <2>2, <3>1
    <3> QED  BY <1>5, <2>2, <3>1
  <2> QED  BY <2>1, <2>2
<1>7. WakeupPerTask' /\ PushedIsLast' /\ JobsOrdered' /\ TasksOrdered'
  BY <1>1 DEF IInv, WakeupPerTask, PushedIsLast, JobsOrdered, TasksOrdered
<1>8. EntriesOrdered'
  BY <1>1, <1>6 DEF IInv, EntriesOrdered
<1>9. FailedNeverRuns'
  BY <1>1 DEF IInv, FailedNeverRuns
<1>10. ASSUME ~resetInFlight
       PROVE  i \in 1..n /\ work_inprog_chain[i].job = work_obj.job
  <2>1. PICK k \in 1..n : /\ work_inprog_chain[k].ident = work_obj.ident
                          /\ work_inprog_chain[k].job = work_obj.job
    BY <1>1, <1>10 DEF IInv, InFlightHasEntry, HasOpenEntry
  <2>2. i \in 1..n /\ work_inprog_chain[i].ident = work_obj.ident
    BY <1>4, <2>1
  <2> QED  BY <1>3, <2>1, <2>2, EntryUnique
<1>11. OwnResult'
  BY <1>1, <1>6, <1>10 DEF IInv, OwnResult
<1>12. StatusStaysUntilRead'
  BY <1>1, <1>2, <1>6 DEF IInv, StatusStaysUntilRead
<1>13. EventAfterStatus'
  <2> SUFFICES ASSUME ~resetInFlight, NEW k \in 1..n,
                      work_inprog_chain[k].ident = work_obj.ident
               PROVE  work_inprog_chain'[k].result = work_obj.job
    BY <1>1, <1>6 DEF EventAfterStatus
  <2>1. i \in 1..n /\ work_inprog_chain[i].ident = work_obj.ident
    BY <1>4
  <2>2. k = i
    BY <1>3, <2>1, EntryUnique
  <2>3. i # 0
    BY <2>1
  <2> QED  BY <1>5, <2>2, <2>3
<1>14. InFlightHasEntry'
  <2> SUFFICES ASSUME ~resetInFlight PROVE InFlightHasEntry'
    BY <1>1 DEF InFlightHasEntry
  <2>1. ASSUME NEW t, HasOpenEntry(t), t.ident # work_obj.ident
        PROVE  \E k \in 1..Len(work_inprog_chain') :
                  /\ work_inprog_chain'[k].ident = t.ident
                  /\ work_inprog_chain'[k].job = t.job
                  /\ work_inprog_chain'[k].result = InProg
    <3>1. PICK k \in 1..n : /\ work_inprog_chain[k].ident = t.ident
                            /\ work_inprog_chain[k].job = t.job
                            /\ work_inprog_chain[k].result = InProg
      BY <2>1 DEF HasOpenEntry
    <3>2. k # i
      BY <1>4, <2>1, <3>1
    <3> QED  BY <1>6, <3>1, <3>2
  <2>2. ASSUME NEW j \in 1..Len(work_chain)
        PROVE  work_chain[j].ident # work_obj.ident
    <3>1. work_obj.ident < work_chain[j].ident
      BY DEF IInv, TasksOrdered
    <3>2. work_chain[j].ident \in Nat /\ work_obj.ident \in Nat
      BY TaskChain, Numbers DEF IInv, TypeOK
    <3> QED  BY <3>1, <3>2
  <2> QED  BY <1>1, <2>1, <2>2 DEF IInv, InFlightHasEntry, HasOpenEntry
<1> QED
  BY <1>7, <1>8, <1>9, <1>11, <1>12, <1>13, <1>14 DEF IInv, TypeInv

\* The event has left.
LEMMA NotifyEventStep ==
    ASSUME IInv, NotifyEvent, TypeInv'
    PROVE  IInv'
<1>1. /\ wrk_pc = "notify" /\ wrk_pc' = "wait" /\ work_obj' = NoTask
      /\ UNCHANGED <<work_chain, work_inprog_chain, ident_generator,
                     one_shot_sema, req_pc, req_obj, jobs, failed,
                     resetInFlight>>
  BY DEF NotifyEvent, chains, reqVars
<1>2. JobsOrdered' /\ TasksOrdered' /\ FailedNeverRuns'
  BY <1>1, TaskForgotten
<1>3. WakeupPerTask' /\ PushedIsLast' /\ EntriesOrdered'
  BY <1>1 DEF IInv, WakeupPerTask, PushedIsLast, EntriesOrdered
<1>4. InFlightHasEntry' /\ OwnResult' /\ StatusStaysUntilRead' /\ EventAfterStatus'
  BY <1>1 DEF IInv, InFlightHasEntry, HasOpenEntry, OwnResult,
              StatusStaysUntilRead, EventAfterStatus
<1> QED  BY <1>2, <1>3, <1>4 DEF IInv, TypeInv

\* The entry that goes is the one of the task that was run, and is open: no
\* other task's entry and no status being read is touched.
LEMMA CompleteDeleteStep ==
    ASSUME IInv, CompleteDelete, TypeInv'
    PROVE  IInv'
<1>1. /\ wrk_pc = "complete" /\ wrk_pc' = "wait" /\ work_obj' = NoTask
      /\ work_inprog_chain' =
            chain_remove_by_ident(work_inprog_chain, work_obj.ident)
      /\ UNCHANGED <<work_chain, ident_generator, one_shot_sema, req_pc,
                     req_obj, jobs, failed, resetInFlight>>
  BY DEF CompleteDelete, reqVars
<1>2. TypeOK /\ EntriesOrdered
  BY DEF IInv
<1>3. /\ EntriesOrdered'
      /\ \A j \in 1..Len(work_inprog_chain') :
            \E k \in 1..Len(work_inprog_chain) :
               work_inprog_chain'[j] = work_inprog_chain[k]
      /\ \A k \in 1..Len(work_inprog_chain) :
            work_inprog_chain[k].ident # work_obj.ident =>
               \E j \in 1..Len(work_inprog_chain') :
                  work_inprog_chain'[j] = work_inprog_chain[k]
  BY <1>1, <1>2, EntriesKept
<1>4. JobsOrdered' /\ TasksOrdered' /\ FailedNeverRuns'
  BY <1>1, TaskForgotten
<1>5. WakeupPerTask' /\ PushedIsLast' /\ EventAfterStatus'
  BY <1>1 DEF IInv, WakeupPerTask, PushedIsLast, EventAfterStatus
<1>6. OwnResult'
  BY <1>1, <1>3 DEF IInv, OwnResult
<1>7. StatusStaysUntilRead'
  <2> SUFFICES ASSUME ~resetInFlight, req_pc = "remove"
               PROVE  StatusStaysUntilRead'
    BY <1>1 DEF StatusStaysUntilRead
  <2>1. PICK k \in 1..Len(work_inprog_chain) :
           /\ work_inprog_chain[k].ident = req_obj.ident
           /\ work_inprog_chain[k].result # InProg
    BY DEF IInv, StatusStaysUntilRead
  <2>2. PICK l \in 1..Len(work_inprog_chain) :
           /\ work_inprog_chain[l].ident = work_obj.ident
           /\ work_inprog_chain[l].result = InProg
    BY <1>1 DEF IInv, InFlightHasEntry, HasOpenEntry
  <2>3. work_inprog_chain[k].ident # work_obj.ident
    BY <1>2, <2>1, <2>2, EntryUnique
  <2> QED  BY <1>1, <1>3, <2>1, <2>3 DEF StatusStaysUntilRead
<1>8. InFlightHasEntry'
  <2> SUFFICES ASSUME ~resetInFlight PROVE InFlightHasEntry'
    BY <1>1 DEF InFlightHasEntry
  <2>1. ASSUME NEW t, HasOpenEntry(t), t.ident # work_obj.ident
        PROVE  \E j \in 1..Len(work_inprog_chain') :
                  /\ work_inprog_chain'[j].ident = t.ident
                  /\ work_inprog_chain'[j].job = t.job
                  /\ work_inprog_chain'[j].result = InProg
    <3>1. PICK k \in 1..Len(work_inprog_chain) :
             /\ work_inprog_chain[k].ident = t.ident
             /\ work_inprog_chain[k].job = t.job
             /\ work_inprog_chain[k].result = InProg
      BY <2>1 DEF HasOpenEntry
    <3>2. PICK j \in 1..Len(work_inprog_chain') :
             work_inprog_chain'[j] = work_inprog_chain[k]
      BY <1>3, <2>1, <3>1
    <3> QED  BY <3>1, <3>2
  <2>2. ASSUME NEW j \in 1..Len(work_chain)
        PROVE  work_chain[j].ident # work_obj.ident
    <3>1. work_obj.ident < work_chain[j].ident
      BY DEF IInv, TasksOrdered
    <3>2. work_chain[j].ident \in Nat /\ work_obj.ident \in Nat
      BY TaskChain, Numbers DEF IInv, TypeOK
    <3> QED  BY <3>1, <3>2
  <2> QED  BY <1>1, <2>1, <2>2 DEF IInv, InFlightHasEntry, HasOpenEntry
<1> QED  BY <1>3, <1>4, <1>5, <1>6, <1>7, <1>8 DEF IInv, TypeInv

\* The constructor's state: nothing queued, nothing running.
LEMMA IInvInit == Init => IInv
<1> SUFFICES ASSUME Init PROVE IInv
  OBVIOUS
<1>1. TypeOK /\ ThreadObjects
  BY TypeInit DEF TypeInv
<1>2. /\ Len(work_chain) = 0 /\ Len(work_inprog_chain) = 0 /\ 1..0 = {}
      /\ 0 \notin failed
  BY DEF Init
<1>3. WakeupPerTask /\ PushedIsLast /\ EntriesOrdered
  BY <1>2 DEF Init, WakeupPerTask, PushedIsLast, EntriesOrdered
<1>4. JobsOrdered /\ TasksOrdered
  BY <1>2 DEF Init, NoTask, JobsOrdered, TasksOrdered
<1>5. /\ InFlightHasEntry /\ OwnResult /\ StatusStaysUntilRead
      /\ EventAfterStatus /\ FailedNeverRuns
  BY <1>2 DEF Init, NoTask, InFlightHasEntry, OwnResult, StatusStaysUntilRead,
              EventAfterStatus, FailedNeverRuns
<1> QED  BY <1>1, <1>3, <1>4, <1>5 DEF IInv

\* Every step of either thread preserves IInv.
LEMMA IInvStep == IInv /\ [Next]_vars => IInv'
<1> SUFFICES ASSUME IInv, [Next]_vars PROVE IInv'
  OBVIOUS
<1>1. TypeInv'
  BY TypeStep DEF IInv, TypeInv
<1>2. CASE Next
  BY <1>1, <1>2, PutWorkStep, PutWorkFailsStep, PutInprogStep,
     PutInprogFailsStep, WakeupThreadStep, GetTaskStatusStep,
     RemoveStatusStep, ResetTaskIdAndChainStep, SemWaitStep, GetWorkStep,
     RunWorkStep, CompletePreserveStep, NotifyEventStep, CompleteDeleteStep
  DEF Next
<1>3. CASE UNCHANGED vars
  <2>1. UNCHANGED <<work_chain, work_inprog_chain, ident_generator,
                    one_shot_sema, req_pc, req_obj, jobs, failed,
                    resetInFlight, wrk_pc, work_obj>>
    BY <1>3 DEF vars, chains, reqVars, wrkVars
  <2>2. WakeupPerTask' /\ PushedIsLast' /\ JobsOrdered' /\ EntriesOrdered'
    BY <2>1 DEF IInv, WakeupPerTask, PushedIsLast, JobsOrdered, EntriesOrdered
  <2>3. TasksOrdered' /\ InFlightHasEntry' /\ OwnResult'
    BY <2>1 DEF IInv, TasksOrdered, InFlightHasEntry, HasOpenEntry, OwnResult
  <2>4. StatusStaysUntilRead' /\ EventAfterStatus' /\ FailedNeverRuns'
    BY <2>1 DEF IInv, StatusStaysUntilRead, EventAfterStatus, FailedNeverRuns
  <2> QED  BY <1>1, <2>2, <2>3, <2>4 DEF IInv, TypeInv
<1> QED  BY <1>2, <1>3

\* The inductive invariant holds in every reachable state.
THEOREM Invariance == Spec => []IInv
BY IInvInit, IInvStep, PTL DEF Spec

\* For any number of tasks and resets: one token is coming for each queued
\* task, so ADThread's counting semaphore and work_chain never disagree.
THEOREM WakeupPerTaskHolds == Spec => []WakeupPerTask
<1>1. IInv => WakeupPerTask
  BY DEF IInv
<1> QED  BY <1>1, Invariance, PTL

\* A task that is queued or running has its open entry in work_inprog_chain.
THEOREM InFlightHasEntryHolds == Spec => []InFlightHasEntry
<1>1. IInv => InFlightHasEntry
  BY DEF IInv
<1> QED  BY <1>1, Invariance, PTL

\* get_task_status answers with the result of the task that has the taskID.
THEOREM OwnResultHolds == Spec => []OwnResult
<1>1. IInv => OwnResult
  BY DEF IInv
<1> QED  BY <1>1, Invariance, PTL

\* get_task_status's second look-up finds what the first one found.
THEOREM StatusStaysUntilReadHolds == Spec => []StatusStaysUntilRead
<1>1. IInv => StatusStaysUntilRead
  BY DEF IInv
<1> QED  BY <1>1, Invariance, PTL

\* monoshot_callback_function stores a status before it sends the event.
THEOREM EventAfterStatusHolds == Spec => []EventAfterStatus
<1>1. IInv => EventAfterStatus
  BY DEF IInv
<1> QED  BY <1>1, Invariance, PTL

\* A task whose push_task returned -1 is neither queued nor run.
THEOREM FailedNeverRunsHolds == Spec => []FailedNeverRuns
<1>1. IInv => FailedNeverRuns
  BY DEF IInv
<1> QED  BY <1>1, Invariance, PTL
-----------------------------------------------------------------------------
(* RPC client                                                              *)

USE RpcClientAssumption DEF RESULT_UNKNOWN

\* A half of an answer, and the request it answers.
LEMMA Halves ==
    /\ \A h \in Half : h.id \in Call
    /\ \A r \in Call, k \in {"result", "error"}, x \in {"head", "tail"} :
          [id |-> r, kind |-> k, half |-> x] \in Half
  BY DEF Half

\* The two halves of the answer to request r.
LEMMA WholeHalves ==
    ASSUME NEW r \in Call, NEW k \in {"result", "error"}
    PROVE  /\ Whole(r, k) \in Seq(Half)
           /\ Len(Whole(r, k)) = 2
           /\ Whole(r, k)[1].half = "head" /\ Whole(r, k)[1].id = r
           /\ Whole(r, k)[1].kind = k
           /\ Whole(r, k)[2].half = "tail"
<1>1. /\ [id |-> r, kind |-> k, half |-> "head"] \in Half
      /\ [id |-> r, kind |-> k, half |-> "tail"] \in Half
  BY Halves
<1>2. /\ Whole(r, k) \in Seq(Half)
      /\ Len(Whole(r, k)) = 2
      /\ Whole(r, k)[1] = [id |-> r, kind |-> k, half |-> "head"]
      /\ Whole(r, k)[2] = [id |-> r, kind |-> k, half |-> "tail"]
  BY <1>1 DEF Whole
<1> QED
  BY <1>2

\* What an answer does to the stream it is sent on.
LEMMA AnswerStream ==
    ASSUME NEW s \in Seq(Half), NEW r \in Call, NEW k \in {"result", "error"}
    PROVE  /\ s \o Whole(r, k) \in Seq(Half)
           /\ s = <<>> => s \o Whole(r, k) = Whole(r, k)
           /\ s # <<>> => (s \o Whole(r, k))[1] = s[1]
           /\ s = <<>> => (s \o Whole(r, k))[1].kind = k
<1>1. /\ Whole(r, k) \in Seq(Half) /\ Len(Whole(r, k)) = 2
      /\ Whole(r, k)[1].kind = k
  BY WholeHalves
<1>2. s \o Whole(r, k) \in Seq(Half)
  BY <1>1
<1>3. s = <<>> => s \o Whole(r, k) = Whole(r, k)
  BY <1>1
<1>4. s # <<>> => (s \o Whole(r, k))[1] = s[1]
  BY <1>1
<1> QED
  BY <1>1, <1>2, <1>3, <1>4

\* The request the service receives next, and the others.
LEMMA RequestTaken ==
    ASSUME ClientTypeOK, requests # <<>>
    PROVE  /\ Head(requests) \in Request /\ Head(requests).id \in Call
           /\ Tail(requests) \in Seq(Request)
           /\ Head(requests) = requests[1]
           /\ \A i \in 1..Len(Tail(requests)) : Tail(requests)[i] = requests[i + 1]
           /\ Len(requests) \in Nat \ {0} /\ Len(Tail(requests)) = Len(requests) - 1
           /\ \A x : requests = <<x>> => Head(requests) = x /\ Tail(requests) = <<>>
<1>1. requests \in Seq(Request)
  BY DEF ClientTypeOK
<1>2. Head(requests) \in Request /\ Tail(requests) \in Seq(Request)
  BY <1>1
<1>3. Head(requests).id \in Call
  BY <1>2 DEF Request
<1>4. /\ Len(requests) \in Nat \ {0} /\ Len(Tail(requests)) = Len(requests) - 1
      /\ Head(requests) = requests[1]
      /\ \A i \in 1..Len(Tail(requests)) : Tail(requests)[i] = requests[i + 1]
  BY <1>1
<1>5. \A x : requests = <<x>> => Head(requests) = x /\ Tail(requests) = <<>>
  OBVIOUS
<1> QED
  BY <1>2, <1>3, <1>4, <1>5

\* A client that has not connected satisfies the invariant.
LEMMA ClientIInvInit == ClientInit => ClientIInv
<1> SUFFICES ASSUME ClientInit PROVE ClientIInv
  OBVIOUS
<1>1. <<>> \in Seq(Call) /\ <<>> \in Seq(Request) /\ <<>> \in Seq(Half)
  OBVIOUS
<1>2. ClientTypeOK
  <2>1. 0 \in 0..MaxCalls /\ 0 \in 0..MaxConnects
    OBVIOUS
  <2> QED
    BY <1>1, <2>1 DEF ClientInit, ClientTypeOK
<1>3. Clean /\ Alive
  BY DEF ClientInit, Clean, Alive
<1> QED
  BY <1>2, <1>3 DEF ClientIInv

\* Return and what recv takes from the stream keep the types.
LEMMA ReceiveTypes == ClientTypeOK /\ receive_data_blocking => ClientTypeOK'
<1> SUFFICES ASSUME ClientTypeOK, receive_data_blocking PROVE ClientTypeOK'
  OBVIOUS
<1>1. PICK n \in 1..Len(stream) :
          /\ Return(find_json_result(n))
          /\ stream' = SubSeq(stream, n + 1, Len(stream))
          /\ cut' = (cut \/ stream[n].half = "head")
  BY DEF receive_data_blocking
<1>2. stream \in Seq(Half) /\ n + 1 \in 1..(Len(stream) + 1)
  BY DEF ClientTypeOK
<1>3. stream' \in Seq(Half)
  <2>1. \A i \in (n + 1)..Len(stream) : stream[i] \in Half
    BY <1>2
  <2> QED
    BY <1>1, <1>2, <2>1
<1>4. find_json_result(n) \in Call \cup {RESULT_UNKNOWN}
  <2>1. stream[1] \in Half
    BY <1>2
  <2> QED
    BY <2>1, Halves DEF find_json_result
<1>5. cut' \in BOOLEAN
  BY <1>1
<1>6. gotUnknown' \in BOOLEAN
  BY <1>1 DEF Return
<1> QED
  BY <1>1, <1>3, <1>4, <1>5, <1>6 DEF ClientTypeOK, Return, receive_data_blocking

\* What recv gives a call while no answer was cut and no request split: its own
\* answer, whole, or a part of it, which counts as cut.
LEMMA ReceiveOwn ==
    ClientIInv /\ receive_data_blocking /\ Sound =>
        /\ requests = <<>> /\ queue = <<>>
        /\ \/ /\ answer' = req_id \/ (answer' = RESULT_UNKNOWN /\ refused)
              /\ stream' = <<>> /\ ~cut'
           \/ answer' = RESULT_UNKNOWN /\ cut'
<1> SUFFICES ASSUME ClientIInv, receive_data_blocking, Sound
             PROVE  /\ requests = <<>> /\ queue = <<>>
                    /\ \/ /\ answer' = req_id \/ (answer' = RESULT_UNKNOWN /\ refused)
                          /\ stream' = <<>> /\ ~cut'
                       \/ answer' = RESULT_UNKNOWN /\ cut'
  OBVIOUS
<1>1. PICK n \in 1..Len(stream) :
          /\ Return(find_json_result(n))
          /\ stream' = SubSeq(stream, n + 1, Len(stream))
          /\ cut' = (cut \/ stream[n].half = "head")
  BY DEF receive_data_blocking
<1>2. stream # <<>> /\ pc = "recv"
  BY <1>1 DEF receive_data_blocking
<1>3. req_id \in Call
  BY <1>2 DEF ClientIInv, Clean, ClientTypeOK, Call
<1>4. requests = <<>> /\ queue = <<>>
  BY <1>2 DEF ClientIInv, Clean
<1>5. PICK k \in {"result", "error"} :
          stream = Whole(req_id, k) /\ (k = "error" => refused)
  BY <1>2 DEF ClientIInv, Clean
<1>6. /\ stream \in Seq(Half) /\ Len(stream) = 2
      /\ stream[1].half = "head" /\ stream[1].id = req_id /\ stream[1].kind = k
      /\ stream[2].half = "tail"
  BY ONLY <1>3, <1>5, WholeHalves
<1>7. CASE n = 1
  <2>1. cut'
    BY <1>1, <1>6, <1>7
  <2>2. answer' = RESULT_UNKNOWN
    BY <1>1, <1>7 DEF Return, find_json_result
  <2> QED
    BY <1>4, <2>1, <2>2
<1>8. CASE n = 2
  <2>1. stream' = SubSeq(stream, 3, 2)
    BY <1>1, <1>6, <1>8
  <2>2. stream' = <<>>
    BY <1>6, <2>1
  <2>3. ~cut'
    BY <1>1, <1>6, <1>8 DEF Sound
  <2>4. answer' = IF k = "result" THEN req_id ELSE RESULT_UNKNOWN
    BY <1>1, <1>6, <1>8 DEF Return, find_json_result
  <2> QED
    BY <1>4, <1>5, <2>2, <2>3, <2>4
<1>9. n = 1 \/ n = 2
  BY <1>6
<1> QED
  BY <1>7, <1>8, <1>9

\* Until a call has failed, a split request has drawn only errors: recv gives
\* RESULT_UNKNOWN.
LEMMA ReceiveSplit ==
    ClientIInv /\ receive_data_blocking /\ split => gotUnknown'
<1> SUFFICES ASSUME ClientIInv, receive_data_blocking, split, ~gotUnknown
             PROVE  gotUnknown'
  BY DEF receive_data_blocking, Return
<1>1. PICK n \in 1..Len(stream) : Return(find_json_result(n))
  BY DEF receive_data_blocking
<1>2. stream # <<>>
  BY <1>1
<1>3. stream[1].kind = "error"
  BY <1>2 DEF ClientIInv, Alive
<1>4. find_json_result(n) = RESULT_UNKNOWN
  BY <1>3 DEF find_json_result
<1> QED
  BY <1>1, <1>4 DEF Return

\* A step of the service on a connection without cut or split finds the one
\* request that is out where it takes it from.
LEMMA OneOut ==
    ASSUME ClientIInv, Sound, peer = "open", requests # <<>> \/ queue # <<>>
    PROVE  /\ pc = "recv" /\ req_id \in Call /\ stream = <<>>
           /\ requests # <<>> =>
                 queue = <<>> /\ requests = <<[id |-> req_id, part |-> "whole"]>>
           /\ queue # <<>> => requests = <<>> /\ queue = <<req_id>>
<1>1. connected
  BY DEF ClientIInv, Clean
<1>2. pc = "recv"
  BY <1>1 DEF ClientIInv, Clean, Alive, ClientTypeOK
<1>3. req_id \in Call
  BY <1>2 DEF ClientIInv, Clean, ClientTypeOK, Call
<1> QED
  BY <1>2, <1>3 DEF ClientIInv, Clean

\* Each step of the client keeps the invariant.
LEMMA ClientStep ==
    ClientIInv /\ (\/ sock_connect \/ sock_connectFails \/ send_data
                   \/ receive_data_blocking \/ recvEof \/ sock_disconnect)
        => ClientIInv'
<1> SUFFICES ASSUME ClientIInv,
                    \/ sock_connect \/ sock_connectFails \/ send_data
                    \/ receive_data_blocking \/ recvEof \/ sock_disconnect
             PROVE  ClientIInv'
  OBVIOUS
<1> USE DEF ClientIInv
<1>1. CASE sock_connect
  <2>1. <<>> \in Seq(Call) /\ <<>> \in Seq(Request) /\ <<>> \in Seq(Half)
    OBVIOUS
  <2>2. connects' \in 0..MaxConnects
    BY <1>1 DEF sock_connect, ClientTypeOK
  <2>3. ClientTypeOK'
    BY <1>1, <2>1, <2>2 DEF sock_connect, ClientTypeOK
  <2>4. Clean' /\ Alive'
    BY <1>1 DEF sock_connect, Clean, Alive, Sound
  <2> QED
    BY <2>3, <2>4
<1>2. CASE sock_connectFails
  <2>1. connects' \in 0..MaxConnects
    BY <1>2 DEF sock_connectFails, ClientTypeOK
  <2> QED
    BY <1>2, <2>1 DEF sock_connectFails, cltVars, netVars, history, ClientTypeOK, Clean,
                      Alive, Sound
<1>3. CASE send_data
  <2> DEFINE new == [id |-> req_id', part |-> "whole"]
  <2>1. req_id' \in Call /\ Append(requests, new) \in Seq(Request)
    <3>1. req_id' \in Call
      BY <1>3 DEF send_data, ClientTypeOK, Call
    <3>2. requests \in Seq(Request) /\ new \in Request
      BY <3>1 DEF ClientTypeOK, Request
    <3> QED
      BY <3>1, <3>2
  <2>2. ClientTypeOK'
    <3>1. req_id' \in 0..MaxCalls
      BY <2>1 DEF Call
    <3>2. pc' \in {"idle", "recv", "killed"} /\ requests' \in Seq(Request)
      BY <1>3, <2>1 DEF send_data, ClientTypeOK
    <3>3. peer' \in {"open", "closed", "reset", "gone"}
      BY <1>3 DEF send_data, ClientTypeOK
    <3> QED
      BY <1>3, <3>1, <3>2, <3>3 DEF send_data, ClientTypeOK
  <2>3. /\ connected /\ connected' /\ pc = "idle" /\ pc' # "idle"
        /\ UNCHANGED <<queue, stream, cut, split, gotUnknown>>
    BY <1>3 DEF send_data
  <2>4. Clean'
    <3>1. req_id' > 0
      BY <2>1 DEF Call
    <3>2. Sound => requests = <<>> /\ queue = <<>> /\ stream = <<>>
      BY <2>3 DEF Clean
    <3>3. requests' = requests \/ requests' = Append(requests, new)
      BY <1>3 DEF send_data
    <3>4. Sound => requests' = <<>> \/ requests' = <<new>>
      BY <3>2, <3>3
    <3>5. peer' # "open" => requests' = <<>> /\ queue' = <<>>
      BY <1>3, <2>3 DEF send_data, Clean
    <3> QED
      BY <2>3, <3>1, <3>2, <3>4, <3>5 DEF Clean, Sound
  <2>5. Alive'
    <3>1. split => gotUnknown
      BY <2>3 DEF Alive
    <3>2. peer' \in {"reset", "gone"} /\ pc' = "recv" =>
              gotUnknown' \/ split' \/ stream' = <<>>
      BY <1>3, <2>3, <3>1 DEF send_data, Alive, Clean, Sound
    <3>3. pc' = "killed" => carriedOn' /\ peer' = "gone"
      BY <1>3, <2>3 DEF send_data, Alive
    <3> QED
      BY <2>3, <3>1, <3>2, <3>3 DEF Alive
  <2> QED
    BY <2>2, <2>4, <2>5
<1>4. CASE receive_data_blocking
  <2>1. ClientTypeOK'
    BY <1>4, ReceiveTypes
  <2>2. /\ peer' = peer /\ pc = "recv" /\ pc' = "idle" /\ stream # <<>>
        /\ UNCHANGED <<connected, req_id, requests, queue, carriedOn, split>>
        /\ gotUnknown' = (gotUnknown \/ answer' = RESULT_UNKNOWN)
        /\ cut => cut'
    BY <1>4 DEF receive_data_blocking, Return, ClientTypeOK
  <2>3. Clean'
    <3>1. CASE Sound
      BY <1>4, <2>2, <3>1, ReceiveOwn DEF Clean, Sound
    <3>2. CASE ~Sound
      BY <2>2, <3>2 DEF Clean, Sound
    <3> QED
      BY <3>1, <3>2
  <2>4. Alive'
    <3>1. split => gotUnknown'
      BY <1>4, ReceiveSplit
    <3>2. cut' => gotUnknown'
      BY <1>4, <2>2, <3>1, ReceiveOwn DEF Alive, Sound
    <3>3. peer \in {"reset", "gone"} => gotUnknown'
      BY <2>2, <3>1 DEF Alive
    <3> QED
      BY <2>2, <3>1, <3>2, <3>3 DEF Alive
  <2> QED
    BY <2>1, <2>3, <2>4
<1>5. CASE recvEof
  <2>1. ClientTypeOK'
    BY <1>5 DEF recvEof, Return, ClientTypeOK
  <2>2. Clean' /\ Alive'
    BY <1>5 DEF recvEof, Return, Clean, Alive, ClientTypeOK, Sound
  <2> QED
    BY <2>1, <2>2
<1>6. CASE sock_disconnect
  BY <1>6 DEF sock_disconnect, history, ClientTypeOK, Clean, Alive, Sound
<1> QED
  BY <1>1, <1>2, <1>3, <1>4, <1>5, <1>6

\* The service takes a request from the connection: each of the four ways in which
\* it may keeps the invariant.
LEMMA ListenStep == ClientIInv /\ Listen => ClientIInv'
<1> SUFFICES ASSUME ClientIInv, Listen PROVE ClientIInv'
  OBVIOUS
<1> USE DEF ClientIInv
<1>1. /\ requests # <<>> /\ peer = "open"
      /\ UNCHANGED <<connected, pc, req_id, answer, peer, connects, cut, gotUnknown, carriedOn>>
  BY DEF Listen, Accept, Refuse, Split, DropRequest, ServiceStep, cltVars
<1>2. Sound => /\ pc = "recv" /\ req_id \in Call /\ stream = <<>> /\ queue = <<>>
               /\ requests = <<[id |-> req_id, part |-> "whole"]>>
  BY <1>1, OneOut
<1>3. Sound => Head(requests) = [id |-> req_id, part |-> "whole"] /\ Tail(requests) = <<>>
  BY <1>1, <1>2, RequestTaken
<1>4. split /\ ~gotUnknown => /\ Head(requests).part = "rest"
                              /\ \A i \in 1..Len(Tail(requests)) :
                                    Tail(requests)[i].part = "rest"
  BY <1>1, RequestTaken DEF Alive
<1>5. \A k \in {"result", "error"} :
          /\ stream \o Whole(Head(requests).id, k) \in Seq(Half)
          /\ Sound => stream \o Whole(Head(requests).id, k) = Whole(req_id, k)
          /\ stream # <<>> => (stream \o Whole(Head(requests).id, k))[1] = stream[1]
          /\ stream = <<>> => (stream \o Whole(Head(requests).id, k))[1].kind = k
  <2>1. Head(requests).id \in Call /\ stream \in Seq(Half)
    BY <1>1, RequestTaken DEF ClientTypeOK
  <2>2. Sound => Head(requests).id = req_id /\ stream = <<>>
    BY <1>2, <1>3
  <2> SUFFICES ASSUME NEW k \in {"result", "error"}
               PROVE  /\ stream \o Whole(Head(requests).id, k) \in Seq(Half)
                      /\ Sound => stream \o Whole(Head(requests).id, k) = Whole(req_id, k)
                      /\ stream # <<>> =>
                            (stream \o Whole(Head(requests).id, k))[1] = stream[1]
                      /\ stream = <<>> =>
                            (stream \o Whole(Head(requests).id, k))[1].kind = k
    OBVIOUS
  <2> DEFINE new == stream \o Whole(Head(requests).id, k)
  <2>3. /\ new \in Seq(Half)
        /\ stream = <<>> => new = Whole(Head(requests).id, k)
        /\ stream # <<>> => new[1] = stream[1]
        /\ stream = <<>> => new[1].kind = k
    BY ONLY <2>1, AnswerStream, k \in {"result", "error"}
  <2>4. Sound => Whole(Head(requests).id, k) = Whole(req_id, k)
    BY ONLY <2>2
  <2>5. Sound => new = Whole(req_id, k)
    BY ONLY <2>2, <2>3, <2>4
  <2> QED
    BY ONLY <2>3, <2>5
<1>6. CASE Accept
  <2>1. Append(queue, Head(requests).id) \in Seq(Call)
    BY <1>1, RequestTaken DEF ClientTypeOK
  <2>2. ClientTypeOK'
    BY <1>1, <1>6, <2>1, RequestTaken DEF Accept, ClientTypeOK
  <2>3. Sound => Append(queue, Head(requests).id) = <<req_id>>
    BY <1>2, <1>3
  <2>4. Clean'
    BY <1>1, <1>2, <1>3, <1>6, <2>3 DEF Accept, Clean, Sound
  <2>5. Alive'
    BY <1>1, <1>4, <1>6 DEF Accept, Alive
  <2> QED
    BY <2>2, <2>4, <2>5
<1>7. CASE Refuse
  <2>1. ClientTypeOK'
    BY <1>1, <1>5, <1>7, RequestTaken DEF Refuse, ClientTypeOK
  <2>2. Clean'
    <3>1. Sound => /\ stream' = Whole(req_id, "error") /\ refused'
                   /\ requests' = <<>> /\ queue' = <<>>
      <4>1. /\ requests' = Tail(requests) /\ queue' = queue
            /\ stream' = stream \o Whole(Head(requests).id, "error")
            /\ Head(requests).id = req_id => refused'
        BY <1>7 DEF Refuse
      <4> QED
        BY <1>2, <1>3, <1>5, <4>1
    <3>2. split' = split
      BY <1>7 DEF Refuse
    <3> QED
      BY <1>1, <1>2, <3>1, <3>2 DEF Clean, Sound
  <2>3. Alive'
    BY <1>1, <1>4, <1>5, <1>7 DEF Refuse, Alive
  <2> QED
    BY <2>1, <2>2, <2>3
<1>8. CASE Split
  <2> DEFINE rest == [Head(requests) EXCEPT !.part = "rest"]
  <2>1. rest \in Request /\ rest.part = "rest" /\ <<rest>> \o Tail(requests) \in Seq(Request)
    <3>1. Head(requests) \in Request /\ Tail(requests) \in Seq(Request)
      BY <1>1, RequestTaken
    <3>2. rest \in Request /\ rest.part = "rest"
      BY <3>1 DEF Request
    <3> QED
      BY <3>1, <3>2
  <2>2. ClientTypeOK'
    BY <1>1, <1>5, <1>8, <2>1 DEF Split, ClientTypeOK
  <2>3. Clean'
    BY <1>1, <1>8 DEF Split, Clean, Sound, Alive
  <2>4. ~gotUnknown => /\ pc = "recv" /\ queue = <<>> /\ stream = <<>>
                       /\ requests' = <<rest>>
    <3>1. ~gotUnknown => Sound
      BY <1>4, <1>8 DEF Split, Alive, Sound
    <3>2. <<rest>> \o <<>> = <<rest>>
      OBVIOUS
    <3> QED
      BY <1>2, <1>3, <1>8, <3>1, <3>2 DEF Split
  <2>5. ~gotUnknown => \A i \in 1..Len(requests') : requests'[i].part = "rest"
    <3>1. Len(<<rest>>) = 1 /\ <<rest>>[1] = rest
      OBVIOUS
    <3> HIDE DEF rest
    <3>2. \A i \in 1..1 : <<rest>>[i].part = "rest"
      BY ONLY <2>1, <3>1
    <3>3. requests' = <<rest>> => \A i \in 1..Len(requests') : requests'[i].part = "rest"
      BY ONLY <3>1, <3>2
    <3> QED
      BY <2>4, <3>3
  <2>6. Alive'
    BY <1>1, <1>5, <1>8, <2>4, <2>5 DEF Split, Alive
  <2> QED
    BY <2>2, <2>3, <2>6
<1>9. CASE DropRequest
  <2>1. ClientTypeOK'
    BY <1>1, <1>9, RequestTaken DEF DropRequest, ClientTypeOK
  <2>2. Clean'
    BY <1>1, <1>2, <1>3, <1>9 DEF DropRequest, Clean, Sound
  <2>3. Alive'
    BY <1>1, <1>4, <1>9 DEF DropRequest, Alive
  <2> QED
    BY <2>1, <2>2, <2>3
<1> QED
  BY <1>6, <1>7, <1>8, <1>9 DEF Listen

\* So does serving what was accepted, or losing its result.
LEMMA ServeStep == ClientIInv /\ (Serve \/ DropResult) => ClientIInv'
<1> SUFFICES ASSUME ClientIInv, Serve \/ DropResult PROVE ClientIInv'
  OBVIOUS
<1> USE DEF ClientIInv
<1>1. /\ queue # <<>> /\ peer = "open" /\ queue' = Tail(queue)
      /\ UNCHANGED <<connected, pc, req_id, answer, peer, requests, connects, cut,
                     gotUnknown, carriedOn, split, refused>>
  BY DEF Serve, DropResult, ServiceStep, cltVars
<1>2. Head(queue) \in Call /\ Tail(queue) \in Seq(Call)
  BY <1>1 DEF ClientTypeOK
<1>3. Sound => /\ pc = "recv" /\ req_id \in Call /\ stream = <<>> /\ requests = <<>>
               /\ queue = <<req_id>>
  BY <1>1, OneOut
<1>4. Sound => Head(queue) = req_id /\ Tail(queue) = <<>>
  <2>1. queue = <<req_id>> => Head(queue) = req_id /\ Tail(queue) = <<>>
    BY ONLY TRUE
  <2> QED
    BY <1>3, <2>1
<1>5. ~split \/ gotUnknown
  BY <1>1 DEF Alive
<1>6. CASE Serve
  <2>1. /\ stream' = stream \o Whole(Head(queue), "result") /\ stream' \in Seq(Half)
        /\ Sound => stream' = Whole(req_id, "result")
    <3>1. stream \in Seq(Half) /\ stream' = stream \o Whole(Head(queue), "result")
      BY <1>6 DEF Serve, ClientTypeOK
    <3> QED
      BY <1>2, <1>3, <1>4, <3>1, AnswerStream
  <2>2. ClientTypeOK'
    BY <1>1, <1>2, <1>6, <2>1 DEF Serve, ClientTypeOK
  <2>3. Clean'
    BY <1>1, <1>3, <1>4, <2>1 DEF Clean, Sound
  <2>4. Alive'
    BY <1>1, <1>5 DEF Alive
  <2> QED
    BY <2>2, <2>3, <2>4
<1>7. CASE DropResult
  <2>1. UNCHANGED stream /\ lost' \in BOOLEAN
    BY <1>7 DEF DropResult, ClientTypeOK
  <2>2. ClientTypeOK'
    BY <1>1, <1>2, <2>1 DEF ClientTypeOK
  <2>3. Clean'
    BY <1>1, <1>3, <1>4, <2>1 DEF Clean, Sound
  <2>4. Alive'
    BY <1>1, <1>5, <2>1 DEF Alive
  <2> QED
    BY <2>2, <2>3, <2>4
<1> QED
  BY <1>6, <1>7

\* Every step keeps the invariant.
LEMMA ClientIInvStep == ClientIInv /\ [ClientNext]_clientVars => ClientIInv'
<1> SUFFICES ASSUME ClientIInv, [ClientNext]_clientVars PROVE ClientIInv'
  OBVIOUS
<1>1. CASE Stop
  <2>1. <<>> \in Seq(Call) /\ <<>> \in Seq(Request)
    OBVIOUS
  <2>2. ClientTypeOK'
    BY <1>1, <2>1 DEF Stop, cltVars, history, ClientIInv, ClientTypeOK
  <2>3. Clean'
    BY <1>1 DEF Stop, cltVars, history, ClientIInv, Clean, Sound
  <2>4. Alive'
    <3>1. /\ UNCHANGED <<connected, pc, req_id, stream, cut, gotUnknown, carriedOn, split>>
          /\ peer = "open" /\ queue' = <<>> /\ requests' = <<>>
          /\ peer' \in {"closed", "reset"} /\ (peer' = "reset" => requests # <<>>)
      BY <1>1 DEF Stop, cltVars, history
    <3>2. peer' = "reset" /\ Sound => pc = "recv" /\ stream = <<>>
      BY <3>1, OneOut
    <3>3. Len(requests') = 0
      BY <3>1
    <3> QED
      BY <3>1, <3>2, <3>3 DEF ClientIInv, Clean, Alive, Sound
  <2> QED
    BY <2>2, <2>3, <2>4 DEF ClientIInv
<1>2. CASE UNCHANGED clientVars
  BY <1>2 DEF clientVars, cltVars, netVars, history, ClientIInv, ClientTypeOK, Clean, Alive,
              Sound
<1> QED
  BY <1>1, <1>2, ClientStep, ListenStep, ServeStep DEF ClientNext

\* The invariant holds in every state of every client.
THEOREM ClientInvariance == ClientSpec => []ClientIInv
<1> QED
  BY ClientIInvInit, ClientIInvStep, PTL DEF ClientSpec

\* The client's variables keep their types: what recv cut is still a sequence
\* of halves of answers.
THEOREM ClientTypeCorrect == ClientSpec => []ClientTypeOK
<1>1. ClientIInv => ClientTypeOK
  BY DEF ClientIInv
<1> QED
  BY <1>1, ClientInvariance, PTL

\* Until recv cuts an answer or the service receives a request in two pieces, a
\* call returns the result of its own request, or RESULT_UNKNOWN because that
\* request was refused or the service has gone.
THEOREM OwnAnswerHolds == ClientSpec => OwnAnswer
<1>1. ClientIInv /\ [ClientNext]_clientVars =>
        [pc = "recv" /\ pc' = "idle" /\ ~cut' /\ ~split =>
          \/ answer' = req_id
          \/ answer' = RESULT_UNKNOWN /\ (refused \/ peer # "open")]_clientVars
  <2> SUFFICES ASSUME ClientIInv, ClientNext, pc = "recv", pc' = "idle", ~cut', ~split
               PROVE  \/ answer' = req_id
                      \/ answer' = RESULT_UNKNOWN /\ (refused \/ peer # "open")
    OBVIOUS
  <2>1. CASE receive_data_blocking
    <3>1. Sound
      BY <2>1 DEF receive_data_blocking, Sound
    <3> QED
      BY <2>1, <3>1, ReceiveOwn
  <2>2. CASE recvEof
    BY <2>2 DEF recvEof, Return
  <2>3. receive_data_blocking \/ recvEof
    BY DEF ClientNext, sock_connect, sock_connectFails, send_data, sock_disconnect,
           Listen, Accept, Refuse, Split, DropRequest, Serve, DropResult, ServiceStep,
           Stop, cltVars
  <2> QED
    BY <2>1, <2>2, <2>3
<1> QED
  BY <1>1, ClientInvariance, PTL DEF ClientSpec, OwnAnswer

\* SIGPIPE kills a client only if it goes on calling after a failed call.
THEOREM KilledOnlyIfCarriedOnHolds == ClientSpec => []KilledOnlyIfCarriedOn
<1>1. ClientIInv => KilledOnlyIfCarriedOn
  BY DEF ClientIInv, Alive, KilledOnlyIfCarriedOn
<1> QED
  BY <1>1, ClientInvariance, PTL
=============================================================================
