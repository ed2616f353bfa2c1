-------------------------- MODULE XmppAsyncProofs --------------------------
(***************************************************************************)
(* Proofs about xmproxy's asynchronous tasks, for any users, services,     *)
(* messages and bounds.  The inductive invariants:                         *)
(*   TypeInv    types, what is set in each place, and the counters: every  *)
(*              number given out is one of a task that was started;        *)
(*   PostInv    the posts that a queued message can count on;              *)
(*   TicketInv  the number told to a user is in one place: in the list, in *)
(*              the event thread's hand, or in one reply;                  *)
(*   NumberInv  without a reset of numbers in use, the task numbers of a   *)
(*              service that are not yet looked up grow, events first;     *)
(*   OwedInv    with every task filed before its event, what is owed to a  *)
(*              user is the result of the task that user started.          *)
(***************************************************************************)
EXTENDS XmppAsync, ContainerProofs

\* The provers that every leaf is given to.
USE ZenonT(1), SMTT(20), Zenon

Command == [cmdMsg : Message, sender : User]
Work == [taskID : Task, task : Task]
Acceptance == [task : Task, to : User]
FinalReply == [xmppTID : Task, to : User, res : {NotFound, InProg, Unknown} \cup Task]

TypeInv ==
    /\ processCmd \in Seq(Command)
    /\ cmdSem \in 0..sent
    /\ pc \in {"wait", "loop", "cmd", "insert"}
    /\ result \in Seq(Port \cup {Sync})
    /\ call \in [port : Port, taskID : Task] \cup {Free}
    /\ AsyncTaskList \in Seq(Entry)
    /\ XmppTaskIDCounter \in Nat
    /\ ident \in [Port -> 0..tasks]
    /\ work \in [Port -> Seq(Work)]
    /\ taskSts \in [Port -> [Task -> {NotFound, InProg} \cup Task]]
    /\ events \in [Port -> Seq(Task)]
    /\ epc \in {"wait", "status"}
    /\ found \in Entry \cup {Nobody}
    /\ sent \in 0..MaxMsg /\ tasks \in 0..MaxTask /\ resets \in 0..MaxReset
    /\ accepted \in Seq(Acceptance)
    /\ replies \in Seq(FinalReply)
    /\ unread \subseteq Task
    /\ early \in BOOLEAN /\ reused \in BOOLEAN
    /\ pc \in {"cmd", "insert"} => processCmd # <<>>
    /\ pc = "insert" => /\ call \in [port : Port, taskID : Task]
                        /\ result # <<>> /\ XmppTaskIDCounter < tasks
    /\ pc # "insert" => call = Free
    /\ XmppTaskIDCounter <= tasks
    /\ Len(accepted) = XmppTaskIDCounter
    /\ epc = "status" => found \in Entry

PostInv ==
    IF pc = "wait" THEN Len(processCmd) <= cmdSem ELSE Len(processCmd) <= cmdSem + 1

TicketInv ==
    /\ \A j \in 1..Len(AsyncTaskList) : AsyncTaskList[j].xmppTID <= XmppTaskIDCounter
    /\ \A j, k \in 1..Len(AsyncTaskList) :
         AsyncTaskList[j].xmppTID = AsyncTaskList[k].xmppTID => j = k
    /\ \A j \in 1..Len(replies) : replies[j].xmppTID <= XmppTaskIDCounter
    /\ \A j, k \in 1..Len(replies) : replies[j].xmppTID = replies[k].xmppTID => j = k
    /\ \A j \in 1..Len(AsyncTaskList), k \in 1..Len(replies) :
         AsyncTaskList[j].xmppTID # replies[k].xmppTID
    /\ epc = "status" =>
         /\ found.xmppTID <= XmppTaskIDCounter
         /\ \A j \in 1..Len(AsyncTaskList) : AsyncTaskList[j].xmppTID # found.xmppTID
         /\ \A k \in 1..Len(replies) : replies[k].xmppTID # found.xmppTID

\* Number t of service p is at work, or announced.
AtWork(p, t) == \E j \in 1..Len(work[p]) : work[p][j].taskID = t
Announced(p, t) == \E j \in 1..Len(events[p]) : events[p][j] = t

\* The numbers of service p grow, first those announced, then those at work.
Ordered(p) ==
    /\ \A k \in 1..Len(work[p]) : work[p][k].taskID <= ident[p]
    /\ \A j \in 1..Len(events[p]) : events[p][j] <= ident[p]
    /\ \A j, k \in 1..Len(work[p]) : j < k => work[p][j].taskID < work[p][k].taskID
    /\ \A j, k \in 1..Len(events[p]) : j < k => events[p][j] < events[p][k]
    /\ \A j \in 1..Len(events[p]), k \in 1..Len(work[p]) :
         events[p][j] < work[p][k].taskID

NumberInv == ~reused => \A p \in Port : Ordered(p)

\* Task x, number t of service p, will be announced, and its result is or will
\* be there to read.
Pending(p, t, x) ==
    \/ /\ \E j \in 1..Len(work[p]) : work[p][j].taskID = t /\ work[p][j].task = x
       /\ taskSts[p][t] # NotFound
    \/ Announced(p, t) /\ taskSts[p][t] = x

\* Entry or reply e has the name of the user who was told its number.
Owned(e) == e.xmppTID <= Len(accepted) /\ e.to = accepted[e.xmppTID].to

ListOwed ==
    \A j \in 1..Len(AsyncTaskList) :
        LET e == AsyncTaskList[j] IN
        Owned(e) /\ Pending(e.srvPort, e.taskID, accepted[e.xmppTID].task)

CallOwed ==
    pc = "insert" =>
        /\ Pending(call.port, call.taskID, tasks)
        /\ \A j \in 1..Len(AsyncTaskList) :
             ~FindAsyncEventEntry(AsyncTaskList[j], call.taskID, call.port)

FoundOwed ==
    epc = "status" =>
        /\ Owned(found)
        /\ found.taskID <= ident[found.srvPort]
        /\ taskSts[found.srvPort][found.taskID] = accepted[found.xmppTID].task
        /\ ~AtWork(found.srvPort, found.taskID)
        /\ ~Announced(found.srvPort, found.taskID)

ReplyOwed ==
    \A j \in 1..Len(replies) :
        LET r == replies[j] IN
        Owned(r) /\ r.res \in {accepted[r.xmppTID].task, Unknown}

OwedInv == ~early /\ ~reused => ListOwed /\ CallOwed /\ FoundOwed /\ ReplyOwed
-----------------------------------------------------------------------------
(* Types and counters                                                      *)

\* What PushTask does in the service: one more task, with the next number.
LEMMA Pushed ==
    ASSUME TypeInv, NEW p \in Port, PushTask(p)
    PROVE  /\ tasks' = tasks + 1 /\ tasks' \in 0..MaxTask
           /\ ident[p] + 1 \in Task /\ tasks + 1 \in Task
           /\ ident' \in [Port -> 0..tasks']
           /\ work' \in [Port -> Seq(Work)]
           /\ taskSts' \in [Port -> [Task -> {NotFound, InProg} \cup Task]]
<1> USE BoundAssumption DEF TypeInv, PushTask, Task
<1>1. tasks' = tasks + 1 /\ tasks' \in 0..MaxTask /\ tasks \in Nat /\ ident[p] \in 0..tasks
  OBVIOUS
<1>2. ident[p] + 1 \in Task /\ tasks + 1 \in Task
  BY <1>1
<1>3. ident' \in [Port -> 0..tasks']
  <2>1. ident' = [ident EXCEPT ![p] = ident[p] + 1]
    OBVIOUS
  <2>2. \A q \in Port : ident[q] \in 0..tasks' /\ ident[p] + 1 \in 0..tasks'
    BY <1>1
  <2> QED  BY <2>1, <2>2
<1>4. work' \in [Port -> Seq(Work)]
  <2> DEFINE w == [taskID |-> ident[p] + 1, task |-> tasks + 1]
  <2>1. w \in Work
    BY <1>2 DEF Work
  <2>2. work' = [work EXCEPT ![p] = Append(work[p], w)]
    OBVIOUS
  <2> HIDE DEF w
  <2>3. Append(work[p], w) \in Seq(Work)
    BY <2>1, PushBack
  <2> QED  BY <2>2, <2>3
<1>5. taskSts' \in [Port -> [Task -> {NotFound, InProg} \cup Task]]
  <2>1. taskSts' = [taskSts EXCEPT ![p] = [taskSts[p] EXCEPT ![ident[p] + 1] = InProg]]
    OBVIOUS
  <2>2. [taskSts[p] EXCEPT ![ident[p] + 1] = InProg] \in [Task -> {NotFound, InProg} \cup Task]
    BY <1>2
  <2> QED  BY <2>1, <2>2
<1> QED  BY <1>1, <1>2, <1>3, <1>4, <1>5

\* Every thread keeps every variable in its type, and its locals are set where
\* it reads them.
LEMMA TypeNext == TypeInv /\ [Next]_vars => TypeInv'
<1> SUFFICES ASSUME TypeInv, [Next]_vars PROVE TypeInv'
  OBVIOUS
<1> USE BoundAssumption DEF TypeInv
<1>1. ASSUME NEW u \in User, NEW m \in Message, onXmppMessage(u, m)
      PROVE  TypeInv'
  <2> DEFINE c == [cmdMsg |-> m, sender |-> u]
  <2>1. c \in Command /\ processCmd' = Append(processCmd, c)
    BY <1>1 DEF onXmppMessage, Command
  <2> HIDE DEF c
  <2>2. processCmd' \in Seq(Command) /\ processCmd' # <<>>
    <3>1. processCmd \in Seq(Command)
      OBVIOUS
    <3> HIDE DEF TypeInv
    <3> QED  BY <2>1, <3>1, PushBack
  <2> QED  BY <1>1, <2>2 DEF onXmppMessage, service, evthread
<1>2. CASE SemWait
  BY <1>2 DEF SemWait, service, evthread
<1>3. CASE NextMessage
  <2>1. CASE processCmd = <<>>
    BY <1>3, <2>1 DEF NextMessage, service, evthread
  <2>2. CASE processCmd # <<>>
    <3>1. Head(processCmd) \in Command /\ Tail(processCmd) \in Seq(Command)
      BY <2>2, PopFront
    <3>2. Head(processCmd).cmdMsg # <<Alias>> =>
            Head(processCmd).cmdMsg \in Seq(Port \cup {Sync})
      BY <3>1, MessageAssumption DEF Command
    <3> QED  BY <1>3, <2>2, <3>1, <3>2 DEF NextMessage, service, evthread
  <2> QED  BY <2>1, <2>2
<1>4. CASE AnswerNow
  <2>1. Tail(result) \in Seq(Port \cup {Sync})
    BY <1>4, PopFront DEF AnswerNow
  <2> QED  BY <1>4, <2>1 DEF AnswerNow, service, evthread
<1>5. CASE CallService
  <2>1. Head(result) \in Port /\ PushTask(Head(result)) /\ processCmd # <<>> /\ result # <<>>
    BY <1>5 DEF CallService
  <2>2. call' \in [port : Port, taskID : Task]
    BY <1>5, <2>1, Pushed DEF CallService
  <2>3. XmppTaskIDCounter' <= tasks' /\ XmppTaskIDCounter' < tasks'
    BY <1>5, <2>1, Pushed DEF CallService
  <2> QED  BY <1>5, <2>1, <2>2, <2>3, Pushed DEF CallService, evthread
<1>6. CASE CallCut
  <2>1. Head(result) \in Port /\ PushTask(Head(result)) /\ processCmd # <<>> /\ result # <<>>
    BY <1>6 DEF CallCut
  <2>2. Tail(result) \in Seq(Port \cup {Sync})
    BY <2>1, PopFront
  <2>3. XmppTaskIDCounter' <= tasks'
    BY <1>6, <2>1, Pushed DEF CallCut
  <2> QED  BY <1>6, <2>1, <2>2, <2>3, Pushed DEF CallCut, evthread
<1>7. CASE InsertEntry
  <2>1. /\ pc = "insert" /\ call \in [port : Port, taskID : Task] /\ result # <<>>
        /\ processCmd # <<>> /\ XmppTaskIDCounter < tasks
    BY <1>7 DEF InsertEntry
  <2>2. Head(processCmd).sender \in User
    <3>1. Head(processCmd) \in Command
      BY <2>1, PopFront
    <3> QED  BY <3>1 DEF Command
  <2>3. tasks \in Task /\ XmppTaskIDCounter + 1 \in Task
    BY <2>1 DEF Task
  <2> DEFINE e == [taskID |-> call.taskID, srvPort |-> call.port,
                   xmppTID |-> XmppTaskIDCounter + 1, to |-> Head(processCmd).sender]
             a == [task |-> tasks, to |-> Head(processCmd).sender]
  <2>4. e \in Entry /\ a \in Acceptance
    BY <2>1, <2>2, <2>3 DEF Entry, Acceptance
  <2>5. AsyncTaskList' = Append(AsyncTaskList, e) /\ accepted' = Append(accepted, a)
    BY <1>7 DEF InsertEntry
  <2> HIDE DEF e, a
  <2>6. AsyncTaskList' \in Seq(Entry)
    BY <2>4, <2>5, PushBack
  <2>7. accepted' \in Seq(Acceptance) /\ Len(accepted') = Len(accepted) + 1
    BY <2>4, <2>5, PushBack
  <2>8. Tail(result) \in Seq(Port \cup {Sync})
    BY <2>1, PopFront
  <2> QED  BY <1>7, <2>1, <2>6, <2>7, <2>8 DEF InsertEntry, service, evthread
<1>8. CASE PopMessage
  <2>1. Tail(processCmd) \in Seq(Command)
    BY <1>8, PopFront DEF PopMessage
  <2> QED  BY <1>8, <2>1 DEF PopMessage, service, evthread
<1>9. ASSUME NEW p \in Port, RunWork(p)
      PROVE  TypeInv'
  <2> DEFINE w == Head(work[p])
  <2>1. w \in Work /\ Tail(work[p]) \in Seq(Work)
    BY <1>9, PopFront DEF RunWork
  <2>2. w.taskID \in Task /\ w.task \in Task
    BY <2>1 DEF Work
  <2>3. taskSts' = [taskSts EXCEPT ![p] = [taskSts[p] EXCEPT ![w.taskID] =
                       IF taskSts[p][w.taskID] = NotFound THEN NotFound ELSE w.task]]
    BY <1>9, <2>2 DEF RunWork
  <2>4. events' = [events EXCEPT ![p] = Append(events[p], w.taskID)]
    BY <1>9 DEF RunWork
  <2>5. work' \in [Port -> Seq(Work)]
    BY <1>9, <2>1 DEF RunWork
  <2> HIDE DEF w
  <2>6. events' \in [Port -> Seq(Task)]
    BY <2>2, <2>4, PushBack
  <2>7. [taskSts[p] EXCEPT ![w.taskID] =
            IF taskSts[p][w.taskID] = NotFound THEN NotFound ELSE w.task]
          \in [Task -> {NotFound, InProg} \cup Task]
    BY <2>2
  <2>8. taskSts' \in [Port -> [Task -> {NotFound, InProg} \cup Task]]
    BY <2>3, <2>7
  <2> QED  BY <1>9, <2>5, <2>6, <2>8 DEF RunWork, command, evthread
<1>10. ASSUME NEW p \in Port, ResetTaskIds(p)
       PROVE  TypeInv'
  <2>1. ident' \in [Port -> 0..tasks] /\ resets' \in 0..MaxReset
    BY <1>10 DEF ResetTaskIds
  <2>2. taskSts' \in [Port -> [Task -> {NotFound, InProg} \cup Task]]
    BY <1>10 DEF ResetTaskIds
  <2>3. reused' \in BOOLEAN
    BY <1>10 DEF ResetTaskIds
  <2> QED  BY <1>10, <2>1, <2>2, <2>3 DEF ResetTaskIds, command, evthread
<1>11. ASSUME NEW p \in Port, LookupEntry(p)
       PROVE  TypeInv'
  <2>1. AsyncTaskList' \in Seq(Entry)
    BY <1>11, RemoveIf DEF LookupEntry
  <2>2. events' \in [Port -> Seq(Task)]
    BY <1>11, PopFront DEF LookupEntry
  <2>3. early' \in BOOLEAN
    BY <1>11 DEF LookupEntry
  <2>4. \A k \in Match(p) : AsyncTaskList[k] \in Entry
    BY ElementOfSeq DEF Match
  <2>5. epc' \in {"wait", "status"} /\ found' \in Entry \cup {Nobody}
        /\ (epc' = "status" => found' \in Entry)
    BY <1>11, <2>4 DEF LookupEntry, evthread
  <2> QED  BY <1>11, <2>1, <2>2, <2>3, <2>5 DEF LookupEntry, command, service
<1>12. CASE ConnectFails
  <2>1. found.xmppTID \in Task
    BY <1>12 DEF ConnectFails, Entry
  <2> QED  BY <1>12, <2>1 DEF ConnectFails, command, service
<1>13. ASSUME NEW res \in {NotFound, InProg, Unknown} \cup Task, epc = "status", Reply(res)
       PROVE  replies' \in Seq(FinalReply) /\ epc' = "wait" /\ found' = Nobody
  <2> DEFINE r == [xmppTID |-> found.xmppTID, to |-> found.to, res |-> res]
  <2>1. r \in FinalReply /\ replies' = Append(replies, r)
    BY <1>13 DEF Reply, Entry, FinalReply
  <2> HIDE DEF r
  <2>2. replies' \in Seq(FinalReply)
    BY <2>1, PushBack
  <2> QED  BY <1>13, <2>2 DEF Reply
<1>14. CASE GetTaskStatus
  <2> DEFINE p == found.srvPort
             t == found.taskID
  <2>1. epc = "status" /\ p \in Port /\ t \in Task
    BY <1>14 DEF GetTaskStatus, Entry
  <2>2. Reply(taskSts[p][t])
    BY <1>14 DEF GetTaskStatus
  <2>3. taskSts' = [taskSts EXCEPT ![p] = [taskSts[p] EXCEPT ![t] =
                       IF taskSts[p][t] = InProg THEN InProg ELSE NotFound]]
    BY <1>14, <2>1 DEF GetTaskStatus
  <2> HIDE DEF p, t
  <2>4. [taskSts[p] EXCEPT ![t] = IF taskSts[p][t] = InProg THEN InProg ELSE NotFound]
          \in [Task -> {NotFound, InProg} \cup Task]
    BY <2>1
  <2>5. taskSts' \in [Port -> [Task -> {NotFound, InProg} \cup Task]]
    BY <2>3, <2>4
  <2>6. taskSts[p][t] \in {NotFound, InProg, Unknown} \cup Task
    BY <2>1
  <2>7. replies' \in Seq(FinalReply) /\ epc' = "wait" /\ found' = Nobody
    BY <1>13, <2>1, <2>2, <2>6
  <2> QED  BY <1>14, <2>5, <2>7 DEF GetTaskStatus, command
<1>15. CASE StatusCut
  <2>1. replies' \in Seq(FinalReply) /\ epc' = "wait" /\ found' = Nobody
    BY <1>13, <1>15 DEF StatusCut
  <2> QED  BY <1>15, <2>1 DEF StatusCut, command, service
<1>16. CASE UNCHANGED vars
  BY <1>16 DEF vars, command, service, evthread
<1> QED
  BY <1>1, <1>2, <1>3, <1>4, <1>5, <1>6, <1>7, <1>8, <1>9, <1>10, <1>11, <1>12,
     <1>14, <1>15, <1>16 DEF Next, CommandThread, EventThread

\* xmproxy starts with the types.
LEMMA TypeInit == Init => TypeInv
<1> SUFFICES ASSUME Init PROVE TypeInv
  OBVIOUS
<1>1. /\ <<>> \in Seq(Command) /\ <<>> \in Seq(Port \cup {Sync}) /\ <<>> \in Seq(Entry)
      /\ <<>> \in Seq(Work) /\ <<>> \in Seq(Task)
      /\ <<>> \in Seq(Acceptance) /\ <<>> \in Seq(FinalReply) /\ Len(<<>>) = 0
  OBVIOUS
<1>2. /\ ident \in [Port -> 0..tasks] /\ work \in [Port -> Seq(Work)]
      /\ events \in [Port -> Seq(Task)]
      /\ taskSts \in [Port -> [Task -> {NotFound, InProg} \cup Task]]
  BY <1>1 DEF Init
<1>3. cmdSem \in 0..sent /\ sent \in 0..MaxMsg /\ tasks \in 0..MaxTask /\ resets \in 0..MaxReset
  BY BoundAssumption DEF Init
<1>4. /\ processCmd \in Seq(Command) /\ result \in Seq(Port \cup {Sync})
      /\ AsyncTaskList \in Seq(Entry) /\ accepted \in Seq(Acceptance)
      /\ replies \in Seq(FinalReply) /\ Len(accepted) = XmppTaskIDCounter
  BY <1>1 DEF Init
<1>5. /\ pc = "wait" /\ epc = "wait" /\ call = Free /\ found = Nobody /\ unread = {}
      /\ XmppTaskIDCounter = 0 /\ tasks = 0 /\ early = FALSE /\ reused = FALSE
  BY DEF Init
<1>6. /\ pc \in {"wait", "loop", "cmd", "insert"} /\ epc \in {"wait", "status"}
      /\ pc \in {"cmd", "insert"} => processCmd # <<>>
      /\ pc # "insert" /\ epc # "status"
  BY <1>5
<1>7. call \in [port : Port, taskID : Task] \cup {Free} /\ found \in Entry \cup {Nobody}
  BY <1>5
<1>8. XmppTaskIDCounter \in Nat /\ XmppTaskIDCounter <= tasks
  BY <1>5
<1>9. unread \subseteq Task /\ early \in BOOLEAN /\ reused \in BOOLEAN
  BY <1>5
<1> QED  BY <1>2, <1>3, <1>4, <1>5, <1>6, <1>7, <1>8, <1>9 DEF TypeInv

\* For all constants: the types of the state hold.  The numbers of the services
\* and of xmproxy stay within the tasks that were started.
THEOREM TypesOfXmppAsync == Spec => []TypeOK
<1>1. TypeInv => TypeOK
  <2> SUFFICES ASSUME TypeInv PROVE TypeOK
    OBVIOUS
  <2>1. cmdSem \in 0..MaxMsg /\ XmppTaskIDCounter \in 0..MaxTask /\ ident \in [Port -> 0..MaxTask]
    BY BoundAssumption DEF TypeInv
  <2> QED  BY <2>1 DEF TypeInv, TypeOK, Command, Work, Acceptance, FinalReply
<1> QED  BY <1>1, TypeInit, TypeNext, PTL DEF Spec
-----------------------------------------------------------------------------
(* The command queue                                                       *)

\* The services and the event thread leave the command thread alone.
LEMMA CommandAside ==
    ASSUME (\E p \in Port : RunWork(p) \/ ResetTaskIds(p)) \/ EventThread \/ UNCHANGED vars
    PROVE  UNCHANGED command
BY DEF RunWork, ResetTaskIds, EventThread, LookupEntry, ConnectFails, GetTaskStatus,
       StatusCut, vars

\* A post is taken for a message, and one pass of the loop serves at least it.
LEMMA PostNext == TypeInv /\ PostInv /\ [Next]_vars => PostInv'
<1> SUFFICES ASSUME TypeInv, PostInv, [Next]_vars PROVE PostInv'
  OBVIOUS
<1> USE DEF PostInv
<1>0. processCmd \in Seq(Command) /\ Len(processCmd) \in Nat /\ cmdSem \in Nat
  BY DEF TypeInv
<1>1. ASSUME NEW u \in User, NEW m \in Message, onXmppMessage(u, m)
      PROVE  PostInv'
  <2> DEFINE c == [cmdMsg |-> m, sender |-> u]
  <2>1. c \in Command /\ processCmd' = Append(processCmd, c)
    BY <1>1 DEF onXmppMessage, Command
  <2> HIDE DEF c
  <2>2. Len(processCmd') = Len(processCmd) + 1
    BY <1>0, <2>1, PushBack
  <2> QED  BY <1>0, <1>1, <2>2 DEF onXmppMessage
<1>2. CASE SemWait
  BY <1>0, <1>2 DEF SemWait
<1>3. CASE NextMessage
  <2>1. CASE processCmd = <<>>
    BY <1>0, <1>3, <2>1 DEF NextMessage
  <2>2. CASE processCmd # <<>>
    <3>1. Len(Tail(processCmd)) = Len(processCmd) - 1
      BY <1>0, <2>2, PopFront
    <3> QED  BY <1>0, <1>3, <2>2, <3>1 DEF NextMessage
  <2> QED  BY <2>1, <2>2
<1>4. CASE AnswerNow \/ CallService \/ CallCut \/ InsertEntry
  BY <1>4 DEF AnswerNow, CallService, CallCut, InsertEntry
<1>5. CASE PopMessage
  <2>1. pc = "cmd" /\ pc' = "loop" /\ processCmd # <<>>
        /\ processCmd' = Tail(processCmd) /\ cmdSem' = cmdSem
    BY <1>5 DEF PopMessage, TypeInv
  <2>2. Len(Tail(processCmd)) = Len(processCmd) - 1
    BY <1>0, <2>1, PopFront
  <2> QED  BY <1>0, <2>1, <2>2
<1>6. CASE UNCHANGED command
  BY <1>6 DEF command
<1> QED  BY <1>1, <1>2, <1>3, <1>4, <1>5, <1>6, CommandAside DEF Next, CommandThread

\* For all constants: no message is left in the queue with the command thread
\* asleep, although the loop serves several for one post and an alias command
\* leaves it early.
THEOREM MessageNotStuck == Spec => []NoMessageStuck
<1>1. Init => PostInv
  BY DEF Init, PostInv
<1>2. TypeInv /\ PostInv => NoMessageStuck
  BY DEF TypeInv, PostInv, NoMessageStuck
<1> QED  BY <1>1, <1>2, TypeInit, TypeNext, PostNext, PTL DEF Spec
-----------------------------------------------------------------------------
(* The numbers told to the users                                           *)

\* The fields of the entries and the replies.
LEMMA Entries ==
    ASSUME TypeInv
    PROVE  /\ Len(AsyncTaskList) \in Nat /\ DOMAIN AsyncTaskList = 1..Len(AsyncTaskList)
           /\ \A j \in 1..Len(AsyncTaskList) :
                /\ AsyncTaskList[j] \in Entry
                /\ AsyncTaskList[j].xmppTID \in Nat /\ AsyncTaskList[j].taskID \in Task
                /\ AsyncTaskList[j].srvPort \in Port
           /\ Len(replies) \in Nat /\ DOMAIN replies = 1..Len(replies)
           /\ \A j \in 1..Len(replies) : replies[j].xmppTID \in Nat
           /\ epc = "status" => /\ found.xmppTID \in Nat /\ found.taskID \in Task
                                /\ found.srvPort \in Port
<1>1. Len(AsyncTaskList) \in Nat /\ DOMAIN AsyncTaskList = 1..Len(AsyncTaskList)
  BY DEF TypeInv
<1>2. Len(replies) \in Nat /\ DOMAIN replies = 1..Len(replies)
  BY DEF TypeInv
<1>3. /\ \A j \in 1..Len(AsyncTaskList) : AsyncTaskList[j] \in Entry
      /\ \A j \in 1..Len(replies) : replies[j] \in FinalReply
      /\ epc = "status" => found \in Entry
  BY ElementOfSeq DEF TypeInv
<1>4. /\ \A e \in Entry : e.xmppTID \in Nat /\ e.taskID \in Task /\ e.srvPort \in Port
      /\ \A r \in FinalReply : r.xmppTID \in Nat
  BY DEF Entry, FinalReply, Task
<1> QED  BY <1>1, <1>2, <1>3, <1>4

\* A task is filed behind the others, under the next number.
LEMMA Filing ==
    ASSUME TypeInv, InsertEntry
    PROVE  /\ pc = "insert" /\ pc' = "cmd"
           /\ XmppTaskIDCounter' = XmppTaskIDCounter + 1
           /\ Len(AsyncTaskList') = Len(AsyncTaskList) + 1
           /\ \A j \in 1..Len(AsyncTaskList) : AsyncTaskList'[j] = AsyncTaskList[j]
           /\ LET e == AsyncTaskList'[Len(AsyncTaskList) + 1] IN
                /\ e.xmppTID = XmppTaskIDCounter + 1
                /\ e.taskID = call.taskID /\ e.srvPort = call.port
                /\ e.to = accepted'[XmppTaskIDCounter + 1].to
           /\ Len(accepted') = Len(accepted) + 1
           /\ \A x \in 1..Len(accepted) : accepted'[x] = accepted[x]
           /\ accepted'[XmppTaskIDCounter + 1].task = tasks
<1> DEFINE e == [taskID |-> call.taskID, srvPort |-> call.port,
                 xmppTID |-> XmppTaskIDCounter + 1, to |-> Head(processCmd).sender]
           a == [task |-> tasks, to |-> Head(processCmd).sender]
<1>1. /\ pc = "insert" /\ pc' = "cmd" /\ XmppTaskIDCounter' = XmppTaskIDCounter + 1
      /\ AsyncTaskList' = Append(AsyncTaskList, e) /\ accepted' = Append(accepted, a)
  BY DEF InsertEntry
<1>2. /\ processCmd \in Seq(Command) /\ processCmd # <<>>
      /\ call \in [port : Port, taskID : Task]
      /\ XmppTaskIDCounter \in Nat /\ tasks \in 0..MaxTask /\ XmppTaskIDCounter < tasks
      /\ AsyncTaskList \in Seq(Entry) /\ accepted \in Seq(Acceptance)
      /\ Len(accepted) = XmppTaskIDCounter
  BY <1>1 DEF TypeInv
<1>3. Head(processCmd).sender \in User
  <2>1. Head(processCmd) \in Command
    BY <1>2, PopFront
  <2> QED  BY <2>1 DEF Command
<1>4. e \in Entry /\ a \in Acceptance
  BY <1>2, <1>3, BoundAssumption DEF Entry, Acceptance, Task
<1>5. /\ e.xmppTID = XmppTaskIDCounter + 1 /\ e.taskID = call.taskID
      /\ e.srvPort = call.port /\ e.to = a.to /\ a.task = tasks
  OBVIOUS
<1> HIDE DEF e, a
<1>6. /\ Len(AsyncTaskList') = Len(AsyncTaskList) + 1
      /\ \A j \in 1..Len(AsyncTaskList) : AsyncTaskList'[j] = AsyncTaskList[j]
      /\ AsyncTaskList'[Len(AsyncTaskList) + 1] = e
  BY <1>1, <1>2, <1>4, PushBack
<1>7. /\ Len(accepted') = Len(accepted) + 1
      /\ \A x \in 1..Len(accepted) : accepted'[x] = accepted[x]
      /\ accepted'[Len(accepted) + 1] = a
  BY <1>1, <1>2, <1>4, PushBack
<1> QED  BY <1>1, <1>2, <1>5, <1>6, <1>7

\* A lookup takes out the entries that match and keeps the others; the one it
\* finds is among those taken out.
LEMMA Lookup ==
    ASSUME TypeInv, NEW p \in Port, LookupEntry(p)
    PROVE  /\ Len(AsyncTaskList') \in Nat
           /\ \E f \in [1..Len(AsyncTaskList') -> 1..Len(AsyncTaskList)] :
                /\ \A j \in 1..Len(AsyncTaskList') :
                     AsyncTaskList'[j] = AsyncTaskList[f[j]] /\ f[j] \notin Match(p)
                /\ \A j, k \in 1..Len(AsyncTaskList') : j < k => f[j] < f[k]
           /\ epc' = "status" => \E k \in Match(p) : found' = AsyncTaskList[k]
<1>1. AsyncTaskList \in Seq(Entry) /\ AsyncTaskList' \in remove_if(AsyncTaskList, Match(p))
  BY DEF TypeInv, LookupEntry
<1>2. AsyncTaskList' \in Seq(Entry)
  BY <1>1, RemoveIf
<1>3. Len(AsyncTaskList') \in Nat
  BY <1>2
<1>4. epc' = "status" => \E k \in Match(p) : found' = AsyncTaskList[k]
  BY DEF LookupEntry, evthread
<1> QED  BY <1>1, <1>3, <1>4, RemoveIf

\* The final reply goes behind the earlier ones, and the event thread lets go.
LEMMA Replying ==
    ASSUME TypeInv, GetTaskStatus \/ StatusCut
    PROVE  /\ epc = "status" /\ epc' = "wait"
           /\ Len(replies') = Len(replies) + 1
           /\ \A j \in 1..Len(replies) : replies'[j] = replies[j]
           /\ LET r == replies'[Len(replies) + 1] IN
                /\ r.xmppTID = found.xmppTID /\ r.to = found.to
                /\ r.res \in {taskSts[found.srvPort][found.taskID], Unknown}
<1>1. PICK res \in {taskSts[found.srvPort][found.taskID], Unknown} : Reply(res)
  BY DEF GetTaskStatus, StatusCut
<1> DEFINE r == [xmppTID |-> found.xmppTID, to |-> found.to, res |-> res]
<1>2. epc = "status" /\ epc' = "wait" /\ replies' = Append(replies, r)
  BY <1>1 DEF GetTaskStatus, StatusCut, Reply
<1>3. r \in FinalReply
  <2>1. found \in Entry
    BY <1>2 DEF TypeInv
  <2>2. found.srvPort \in Port /\ found.taskID \in Task /\ found.xmppTID \in Task /\ found.to \in User
    BY <2>1 DEF Entry
  <2>3. taskSts[found.srvPort][found.taskID] \in {NotFound, InProg} \cup Task
    BY <2>2 DEF TypeInv
  <2> QED  BY <1>1, <2>2, <2>3 DEF FinalReply
<1>4. /\ r.xmppTID = found.xmppTID /\ r.to = found.to
      /\ r.res \in {taskSts[found.srvPort][found.taskID], Unknown}
  BY <1>1
<1> HIDE DEF r
<1>5. replies \in Seq(FinalReply)
  BY DEF TypeInv
<1>6. /\ Len(replies') = Len(replies) + 1
      /\ \A j \in 1..Len(replies) : replies'[j] = replies[j]
      /\ replies'[Len(replies) + 1] = r
  BY <1>2, <1>3, <1>5, PushBack
<1> QED  BY <1>2, <1>4, <1>6

\* The steps of the other threads leave the numbers where they are.
LEMMA TicketAside ==
    ASSUME [Next]_vars, ~InsertEntry, \A p \in Port : ~LookupEntry(p),
           ~ConnectFails, ~GetTaskStatus, ~StatusCut
    PROVE  UNCHANGED <<AsyncTaskList, XmppTaskIDCounter, replies, epc, found>>
BY DEF Next, onXmppMessage, CommandThread, SemWait, NextMessage, AnswerNow, CallService,
       CallCut, PopMessage, RunWork, ResetTaskIds, EventThread, evthread, vars

\* A number told to a user moves from the list to the event thread and from
\* there into one reply.
LEMMA TicketNext == TypeInv /\ TicketInv /\ [Next]_vars => TicketInv'
<1> SUFFICES ASSUME TypeInv, TicketInv, [Next]_vars PROVE TicketInv'
  OBVIOUS
<1> USE DEF TicketInv
<1>0. /\ Len(AsyncTaskList) \in Nat /\ Len(replies) \in Nat /\ XmppTaskIDCounter \in Nat
      /\ \A j \in 1..Len(AsyncTaskList) : AsyncTaskList[j].xmppTID \in Nat
      /\ \A j \in 1..Len(replies) : replies[j].xmppTID \in Nat
      /\ epc = "status" => found.xmppTID \in Nat
  BY Entries DEF TypeInv
<1>1. CASE InsertEntry
  <2>1. UNCHANGED <<replies, epc, found>>
    BY <1>1 DEF InsertEntry, evthread
  <2>2. /\ XmppTaskIDCounter' = XmppTaskIDCounter + 1
        /\ Len(AsyncTaskList') = Len(AsyncTaskList) + 1
        /\ \A j \in 1..Len(AsyncTaskList) : AsyncTaskList'[j] = AsyncTaskList[j]
        /\ AsyncTaskList'[Len(AsyncTaskList) + 1].xmppTID = XmppTaskIDCounter + 1
    BY <1>1, Filing
  <2>3. \A j \in 1..Len(AsyncTaskList') :
          \/ j \in 1..Len(AsyncTaskList) /\ AsyncTaskList'[j] = AsyncTaskList[j]
          \/ j = Len(AsyncTaskList) + 1
    BY <1>0, <2>2
  <2>4. \A j \in 1..Len(AsyncTaskList') : AsyncTaskList'[j].xmppTID <= XmppTaskIDCounter + 1
    BY <1>0, <2>2, <2>3
  <2>5. \A j, k \in 1..Len(AsyncTaskList') :
          AsyncTaskList'[j].xmppTID = AsyncTaskList'[k].xmppTID => j = k
    BY <1>0, <2>2, <2>3
  <2>6. \A j \in 1..Len(AsyncTaskList'), k \in 1..Len(replies) :
          AsyncTaskList'[j].xmppTID # replies[k].xmppTID
    BY <1>0, <2>2, <2>3
  <2>7. epc = "status" =>
          \A j \in 1..Len(AsyncTaskList') : AsyncTaskList'[j].xmppTID # found.xmppTID
    BY <1>0, <2>2, <2>3
  <2>8. /\ \A j \in 1..Len(replies) : replies[j].xmppTID <= XmppTaskIDCounter + 1
        /\ epc = "status" => found.xmppTID <= XmppTaskIDCounter + 1
    BY <1>0
  <2> QED  BY <2>1, <2>2, <2>4, <2>5, <2>6, <2>7, <2>8
<1>2. ASSUME NEW p \in Port, LookupEntry(p)
      PROVE  TicketInv'
  <2>1. UNCHANGED <<XmppTaskIDCounter, replies>>
    BY <1>2 DEF LookupEntry
  <2>2. \E f \in [1..Len(AsyncTaskList') -> 1..Len(AsyncTaskList)] :
          /\ \A j \in 1..Len(AsyncTaskList') :
               AsyncTaskList'[j] = AsyncTaskList[f[j]] /\ f[j] \notin Match(p)
          /\ \A j, k \in 1..Len(AsyncTaskList') : j < k => f[j] < f[k]
    BY <1>2, Lookup
  <2>3. PICK f \in [1..Len(AsyncTaskList') -> 1..Len(AsyncTaskList)] :
          /\ \A j \in 1..Len(AsyncTaskList') :
               AsyncTaskList'[j] = AsyncTaskList[f[j]] /\ f[j] \notin Match(p)
          /\ \A j, k \in 1..Len(AsyncTaskList') : j < k => f[j] < f[k]
    BY <2>2
  <2>4. Len(AsyncTaskList') \in Nat
    BY <1>2, Lookup
  <2>5. \A j \in 1..Len(AsyncTaskList') :
          f[j] \in 1..Len(AsyncTaskList) /\ AsyncTaskList'[j] = AsyncTaskList[f[j]]
    BY <2>3
  <2>6. ASSUME NEW j \in 1..Len(AsyncTaskList'), NEW k \in 1..Len(AsyncTaskList'),
               AsyncTaskList'[j].xmppTID = AsyncTaskList'[k].xmppTID
        PROVE  j = k
    <3>1. f[j] = f[k]
      BY <2>5, <2>6
    <3> QED  BY <1>0, <2>3, <2>4, <2>5, <3>1
  <2>7. ASSUME epc' = "status"
        PROVE  /\ found'.xmppTID <= XmppTaskIDCounter
               /\ \A j \in 1..Len(AsyncTaskList') : AsyncTaskList'[j].xmppTID # found'.xmppTID
               /\ \A k \in 1..Len(replies) : replies[k].xmppTID # found'.xmppTID
    <3>1. PICK m \in Match(p) : found' = AsyncTaskList[m]
      BY <1>2, <2>7, Lookup
    <3>2. m \in 1..Len(AsyncTaskList)
      BY Entries DEF Match
    <3>3. found'.xmppTID = AsyncTaskList[m].xmppTID
      BY <3>1
    <3>4. ASSUME NEW j \in 1..Len(AsyncTaskList')
          PROVE  AsyncTaskList'[j].xmppTID # found'.xmppTID
      <4>1. f[j] # m /\ f[j] \in 1..Len(AsyncTaskList) /\ AsyncTaskList'[j] = AsyncTaskList[f[j]]
        BY <2>3, <3>1
      <4> QED  BY <3>2, <3>3, <4>1
    <3> QED  BY <3>2, <3>3, <3>4
  <2>8. \A j \in 1..Len(AsyncTaskList') :
          /\ AsyncTaskList'[j].xmppTID <= XmppTaskIDCounter
          /\ \A k \in 1..Len(replies) : AsyncTaskList'[j].xmppTID # replies[k].xmppTID
    BY <2>5
  <2> QED  BY <2>1, <2>6, <2>7, <2>8
<1>3. CASE ConnectFails
  BY <1>3 DEF ConnectFails
<1>4. CASE GetTaskStatus \/ StatusCut
  <2>1. UNCHANGED <<AsyncTaskList, XmppTaskIDCounter>>
    BY <1>4 DEF GetTaskStatus, StatusCut
  <2>2. /\ epc = "status" /\ epc' = "wait"
        /\ Len(replies') = Len(replies) + 1
        /\ \A j \in 1..Len(replies) : replies'[j] = replies[j]
        /\ replies'[Len(replies) + 1].xmppTID = found.xmppTID
    BY <1>4, Replying
  <2>3. \A j \in 1..Len(replies') :
          \/ j \in 1..Len(replies) /\ replies'[j] = replies[j]
          \/ j = Len(replies) + 1
    BY <1>0, <2>2
  <2>4. \A j \in 1..Len(replies') : replies'[j].xmppTID <= XmppTaskIDCounter
    BY <2>2, <2>3
  <2>5. \A j, k \in 1..Len(replies') : replies'[j].xmppTID = replies'[k].xmppTID => j = k
    BY <2>2, <2>3
  <2>6. \A j \in 1..Len(AsyncTaskList), k \in 1..Len(replies') :
          AsyncTaskList[j].xmppTID # replies'[k].xmppTID
    BY <2>2, <2>3
  <2> QED  BY <2>1, <2>2, <2>4, <2>5, <2>6
<1>5. CASE UNCHANGED <<AsyncTaskList, XmppTaskIDCounter, replies, epc, found>>
  BY <1>5
<1> QED  BY <1>1, <1>2, <1>3, <1>4, <1>5, TicketAside

\* For all constants: a number told to a user gets at most one final reply.
THEOREM FinalReplyOnce == Spec => []OneFinalReply
<1>1. Init => TicketInv
  BY DEF Init, TicketInv
<1>2. TypeInv /\ TicketInv => OneFinalReply
  BY Entries DEF TicketInv, OneFinalReply
<1> QED  BY <1>1, <1>2, TypeInit, TypeNext, TicketNext, PTL DEF Spec
-----------------------------------------------------------------------------
(* The numbers of the services                                             *)

\* The fields of the tasks and events of a service.
LEMMA Services ==
    ASSUME TypeInv, NEW p \in Port
    PROVE  /\ ident[p] \in Nat /\ work[p] \in Seq(Work) /\ events[p] \in Seq(Task)
           /\ Len(work[p]) \in Nat /\ Len(events[p]) \in Nat
           /\ DOMAIN work[p] = 1..Len(work[p]) /\ DOMAIN events[p] = 1..Len(events[p])
           /\ \A j \in 1..Len(work[p]) :
                /\ work[p][j].taskID \in Task /\ work[p][j].taskID \in Nat
                /\ work[p][j].task \in Task
           /\ \A j \in 1..Len(events[p]) : events[p][j] \in Task /\ events[p][j] \in Nat
<1>1. ident[p] \in Nat /\ work[p] \in Seq(Work) /\ events[p] \in Seq(Task)
  BY BoundAssumption DEF TypeInv
<1>2. /\ Len(work[p]) \in Nat /\ Len(events[p]) \in Nat
      /\ DOMAIN work[p] = 1..Len(work[p]) /\ DOMAIN events[p] = 1..Len(events[p])
  BY <1>1
<1>3. /\ \A j \in 1..Len(work[p]) : work[p][j] \in Work
      /\ \A j \in 1..Len(events[p]) : events[p][j] \in Task
  BY <1>1, ElementOfSeq
<1>4. /\ \A w \in Work : w.taskID \in Task /\ w.task \in Task
      /\ \A t \in Task : t \in Nat
  BY DEF Work, Task
<1> QED  BY <1>1, <1>2, <1>3, <1>4

\* push_task puts the task behind the others, with the next number.
LEMMA Pushing ==
    ASSUME TypeInv, NEW p \in Port, PushTask(p)
    PROVE  /\ \A q \in Port : q # p =>
                work'[q] = work[q] /\ ident'[q] = ident[q] /\ taskSts'[q] = taskSts[q]
           /\ ident'[p] = ident[p] + 1
           /\ Len(work'[p]) = Len(work[p]) + 1
           /\ \A j \in 1..Len(work[p]) : work'[p][j] = work[p][j]
           /\ work'[p][Len(work[p]) + 1].taskID = ident[p] + 1
           /\ work'[p][Len(work[p]) + 1].task = tasks + 1
           /\ taskSts'[p][ident[p] + 1] = InProg
           /\ \A t \in Task : t # ident[p] + 1 => taskSts'[p][t] = taskSts[p][t]
<1>1. ident[p] + 1 \in Task /\ tasks + 1 \in Task
  BY Pushed
<1> DEFINE w == [taskID |-> ident[p] + 1, task |-> tasks + 1]
<1>2. w \in Work /\ w.taskID = ident[p] + 1 /\ w.task = tasks + 1
  BY <1>1 DEF Work
<1>3. /\ ident' = [ident EXCEPT ![p] = ident[p] + 1]
      /\ work' = [work EXCEPT ![p] = Append(work[p], w)]
      /\ taskSts' = [taskSts EXCEPT ![p] = [taskSts[p] EXCEPT ![ident[p] + 1] = InProg]]
  BY DEF PushTask, TypeInv
<1> HIDE DEF w
<1>4. /\ ident \in [Port -> 0..tasks] /\ work \in [Port -> Seq(Work)]
      /\ taskSts \in [Port -> [Task -> {NotFound, InProg} \cup Task]]
  BY DEF TypeInv
<1>5. work'[p] = Append(work[p], w) /\ ident'[p] = ident[p] + 1
  BY <1>3, <1>4
<1>6. /\ Len(work'[p]) = Len(work[p]) + 1
      /\ \A j \in 1..Len(work[p]) : work'[p][j] = work[p][j]
      /\ work'[p][Len(work[p]) + 1] = w
  BY <1>2, <1>4, <1>5, PushBack
<1>7. /\ taskSts'[p][ident[p] + 1] = InProg
      /\ \A t \in Task : t # ident[p] + 1 => taskSts'[p][t] = taskSts[p][t]
  BY <1>1, <1>3, <1>4
<1>8. \A q \in Port : q # p =>
        work'[q] = work[q] /\ ident'[q] = ident[q] /\ taskSts'[q] = taskSts[q]
  BY <1>3, <1>4
<1> QED  BY <1>2, <1>5, <1>6, <1>7, <1>8

\* The worker takes the first task and announces it behind the others.
LEMMA Running ==
    ASSUME TypeInv, NEW p \in Port, RunWork(p)
    PROVE  /\ \A q \in Port : q # p =>
                work'[q] = work[q] /\ events'[q] = events[q] /\ taskSts'[q] = taskSts[q]
           /\ Len(work[p]) >= 1
           /\ Len(work'[p]) = Len(work[p]) - 1
           /\ \A j \in 1..Len(work'[p]) : work'[p][j] = work[p][j + 1]
           /\ Len(events'[p]) = Len(events[p]) + 1
           /\ \A j \in 1..Len(events[p]) : events'[p][j] = events[p][j]
           /\ events'[p][Len(events[p]) + 1] = work[p][1].taskID
           /\ taskSts[p][work[p][1].taskID] # NotFound =>
                taskSts'[p][work[p][1].taskID] = work[p][1].task
           /\ \A t \in Task : t # work[p][1].taskID => taskSts'[p][t] = taskSts[p][t]
<1> DEFINE w == Head(work[p])
<1>1. /\ work \in [Port -> Seq(Work)] /\ events \in [Port -> Seq(Task)]
      /\ taskSts \in [Port -> [Task -> {NotFound, InProg} \cup Task]]
  BY DEF TypeInv
<1>2. /\ Len(work[p]) \in Nat \ {0} /\ w = work[p][1] /\ w \in Work
      /\ Len(Tail(work[p])) = Len(work[p]) - 1
      /\ \A j \in 1..(Len(work[p]) - 1) : Tail(work[p])[j] = work[p][j + 1]
  BY <1>1, PopFront DEF RunWork
<1>3. w.taskID \in Task
  BY <1>2 DEF Work
<1>4. /\ taskSts' = [taskSts EXCEPT ![p] = [taskSts[p] EXCEPT ![w.taskID] =
                       IF taskSts[p][w.taskID] = NotFound THEN NotFound ELSE w.task]]
      /\ events' = [events EXCEPT ![p] = Append(events[p], w.taskID)]
      /\ work' = [work EXCEPT ![p] = Tail(work[p])]
  BY <1>1, <1>3 DEF RunWork
<1> HIDE DEF w
<1>5. work'[p] = Tail(work[p]) /\ events'[p] = Append(events[p], w.taskID)
  BY <1>1, <1>4
<1>6. /\ Len(events'[p]) = Len(events[p]) + 1
      /\ \A j \in 1..Len(events[p]) : events'[p][j] = events[p][j]
      /\ events'[p][Len(events[p]) + 1] = w.taskID
  BY <1>1, <1>3, <1>5, PushBack
<1>7. /\ taskSts[p][w.taskID] # NotFound => taskSts'[p][w.taskID] = w.task
      /\ \A t \in Task : t # w.taskID => taskSts'[p][t] = taskSts[p][t]
  BY <1>1, <1>3, <1>4
<1>8. \A q \in Port : q # p =>
        work'[q] = work[q] /\ events'[q] = events[q] /\ taskSts'[q] = taskSts[q]
  BY <1>1, <1>4
<1> QED  BY <1>2, <1>5, <1>6, <1>7, <1>8

\* A lookup takes the service's first event.
LEMMA Taking ==
    ASSUME TypeInv, NEW p \in Port, LookupEntry(p)
    PROVE  /\ \A q \in Port : q # p => events'[q] = events[q]
           /\ Len(events[p]) >= 1 /\ Head(events[p]) = events[p][1]
           /\ Len(events'[p]) = Len(events[p]) - 1
           /\ \A j \in 1..Len(events'[p]) : events'[p][j] = events[p][j + 1]
<1>1. events \in [Port -> Seq(Task)]
  BY DEF TypeInv
<1>2. events[p] # <<>> /\ events' = [events EXCEPT ![p] = Tail(events[p])]
  BY <1>1 DEF LookupEntry
<1>3. /\ Len(events[p]) \in Nat \ {0} /\ Head(events[p]) = events[p][1]
      /\ Len(Tail(events[p])) = Len(events[p]) - 1
      /\ \A j \in 1..(Len(events[p]) - 1) : Tail(events[p])[j] = events[p][j + 1]
  BY <1>1, <1>2, PopFront
<1> QED  BY <1>1, <1>2, <1>3

\* The other steps leave the numbers of the services alone.
LEMMA NumberAside ==
    ASSUME [Next]_vars, ~CallService, ~CallCut,
           \A p \in Port : ~RunWork(p) /\ ~ResetTaskIds(p) /\ ~LookupEntry(p)
    PROVE  UNCHANGED <<ident, work, events, reused>>
BY DEF Next, onXmppMessage, CommandThread, SemWait, NextMessage, AnswerNow, InsertEntry,
       PopMessage, EventThread, ConnectFails, GetTaskStatus, StatusCut, service, vars

\* A service that does not change stays ordered.
LEMMA OrderedKept ==
    ASSUME NEW q \in Port, Ordered(q),
           work'[q] = work[q], events'[q] = events[q], ident'[q] = ident[q]
    PROVE  Ordered(q)'
BY DEF Ordered

\* Without a reset of numbers in use, tasks are announced in the order of their
\* numbers, and no number is in two places.
LEMMA NumberNext == TypeInv /\ NumberInv /\ [Next]_vars => NumberInv'
<1> SUFFICES ASSUME TypeInv, NumberInv, [Next]_vars, ~reused', NEW q \in Port
             PROVE  Ordered(q)'
  BY DEF NumberInv
<1>0. /\ ident[q] \in Nat /\ Len(work[q]) \in Nat /\ Len(events[q]) \in Nat
      /\ \A j \in 1..Len(work[q]) : work[q][j].taskID \in Nat
      /\ \A j \in 1..Len(events[q]) : events[q][j] \in Nat
  BY Services
<1>1. ASSUME NEW p \in Port, PushTask(p), UNCHANGED <<events, reused>>
      PROVE  Ordered(q)'
  <2>1. Ordered(q) /\ events'[q] = events[q]
    BY <1>1 DEF NumberInv
  <2>2. CASE q # p
    BY <1>1, <2>1, <2>2, OrderedKept, Pushing
  <2>3. CASE q = p
    <3>1. /\ ident'[q] = ident[q] + 1
          /\ Len(work'[q]) = Len(work[q]) + 1
          /\ \A j \in 1..Len(work[q]) : work'[q][j] = work[q][j]
          /\ work'[q][Len(work[q]) + 1].taskID = ident[q] + 1
      BY <1>1, <2>3, Pushing
    <3>2. \A k \in 1..Len(work'[q]) :
            \/ k \in 1..Len(work[q]) /\ work'[q][k].taskID = work[q][k].taskID
            \/ k = Len(work[q]) + 1 /\ work'[q][k].taskID = ident[q] + 1
      <4>1. \A k \in 1..Len(work'[q]) : k \in 1..Len(work[q]) \/ k = Len(work[q]) + 1
        BY <1>0, <3>1
      <4> QED  BY <3>1, <4>1
    <3>3. /\ \A k \in 1..Len(work'[q]) : work'[q][k].taskID <= ident'[q]
          /\ \A j \in 1..Len(events'[q]) : events'[q][j] <= ident'[q]
      BY <1>0, <2>1, <3>1, <3>2 DEF Ordered
    <3>4. ASSUME NEW j \in 1..Len(work'[q]), NEW k \in 1..Len(work'[q]), j < k
          PROVE  work'[q][j].taskID < work'[q][k].taskID
      <4>1. j \in 1..Len(work[q]) /\ work'[q][j].taskID = work[q][j].taskID
        BY <1>0, <3>1, <3>2, <3>4
      <4>2. CASE k \in 1..Len(work[q]) /\ work'[q][k].taskID = work[q][k].taskID
        BY <2>1, <3>4, <4>1, <4>2 DEF Ordered
      <4>3. CASE work'[q][k].taskID = ident[q] + 1
        BY <1>0, <2>1, <4>1, <4>3 DEF Ordered
      <4> QED  BY <3>2, <4>2, <4>3
    <3>5. ASSUME NEW j \in 1..Len(events'[q]), NEW k \in 1..Len(work'[q])
          PROVE  events'[q][j] < work'[q][k].taskID
      <4>1. j \in 1..Len(events[q]) /\ events'[q][j] = events[q][j]
        BY <2>1
      <4>2. CASE k \in 1..Len(work[q]) /\ work'[q][k].taskID = work[q][k].taskID
        BY <2>1, <4>1, <4>2 DEF Ordered
      <4>3. CASE work'[q][k].taskID = ident[q] + 1
        BY <1>0, <2>1, <4>1, <4>3 DEF Ordered
      <4> QED  BY <3>2, <4>2, <4>3
    <3> QED  BY <2>1, <3>3, <3>4, <3>5 DEF Ordered
  <2> QED  BY <2>2, <2>3
<1>2. CASE CallService \/ CallCut
  <2>1. Head(result) \in Port /\ PushTask(Head(result)) /\ UNCHANGED <<events, reused>>
    BY <1>2 DEF CallService, CallCut
  <2> QED  BY <1>1, <2>1
<1>3. ASSUME NEW p \in Port, RunWork(p)
      PROVE  Ordered(q)'
  <2>1. Ordered(q) /\ ident'[q] = ident[q]
    BY <1>3 DEF NumberInv, RunWork
  <2>2. CASE q # p
    BY <1>3, <2>1, <2>2, OrderedKept, Running
  <2>3. CASE q = p
    <3>1. /\ Len(work[q]) >= 1
          /\ Len(work'[q]) = Len(work[q]) - 1
          /\ \A j \in 1..Len(work'[q]) : work'[q][j] = work[q][j + 1]
          /\ Len(events'[q]) = Len(events[q]) + 1
          /\ \A j \in 1..Len(events[q]) : events'[q][j] = events[q][j]
          /\ events'[q][Len(events[q]) + 1] = work[q][1].taskID
      BY <1>3, <2>3, Running
    <3>2. \A k \in 1..Len(work'[q]) :
            k + 1 \in 1..Len(work[q]) /\ work'[q][k].taskID = work[q][k + 1].taskID
      BY <1>0, <3>1
    <3>3. \A j \in 1..Len(events'[q]) :
            \/ j \in 1..Len(events[q]) /\ events'[q][j] = events[q][j]
            \/ j = Len(events[q]) + 1 /\ events'[q][j] = work[q][1].taskID
      BY <1>0, <3>1
    <3>4. 1 \in 1..Len(work[q])
      BY <1>0, <3>1
    <3>5. /\ \A k \in 1..Len(work'[q]) : work'[q][k].taskID <= ident'[q]
          /\ \A j \in 1..Len(events'[q]) : events'[q][j] <= ident'[q]
      BY <2>1, <3>2, <3>3, <3>4 DEF Ordered
    <3>6. ASSUME NEW j \in 1..Len(work'[q]), NEW k \in 1..Len(work'[q]), j < k
          PROVE  work'[q][j].taskID < work'[q][k].taskID
      <4>1. j + 1 \in 1..Len(work[q]) /\ k + 1 \in 1..Len(work[q]) /\ j + 1 < k + 1
        BY <3>2, <3>6
      <4> QED  BY <2>1, <3>2, <4>1 DEF Ordered
    <3>7. ASSUME NEW j \in 1..Len(events'[q]), NEW k \in 1..Len(events'[q]), j < k
          PROVE  events'[q][j] < events'[q][k]
      <4>1. j \in 1..Len(events[q]) /\ events'[q][j] = events[q][j]
        BY <1>0, <3>1, <3>3, <3>7
      <4>2. CASE k \in 1..Len(events[q]) /\ events'[q][k] = events[q][k]
        BY <2>1, <3>7, <4>1, <4>2 DEF Ordered
      <4>3. CASE events'[q][k] = work[q][1].taskID
        BY <2>1, <3>4, <4>1, <4>3 DEF Ordered
      <4> QED  BY <3>3, <4>2, <4>3
    <3>8. ASSUME NEW j \in 1..Len(events'[q]), NEW k \in 1..Len(work'[q])
          PROVE  events'[q][j] < work'[q][k].taskID
      <4>1. k + 1 \in 1..Len(work[q]) /\ 1 < k + 1
        BY <1>0, <3>1, <3>2
      <4> QED  BY <2>1, <3>2, <3>3, <3>4, <4>1 DEF Ordered
    <3> QED  BY <3>5, <3>6, <3>7, <3>8 DEF Ordered
  <2> QED  BY <2>2, <2>3
<1>4. ASSUME NEW p \in Port, ResetTaskIds(p)
      PROVE  Ordered(q)'
  <2>1. ~reused /\ work'[q] = work[q] /\ events'[q] = events[q]
    BY <1>4 DEF ResetTaskIds, TypeInv
  <2>2. Ordered(q)
    BY <2>1 DEF NumberInv
  <2>3. CASE q # p
    <3>1. ident'[q] = ident[q]
      BY <1>4, <2>3 DEF ResetTaskIds, TypeInv
    <3> QED  BY <2>1, <2>2, <3>1, OrderedKept
  <2>4. CASE q = p
    <3>1. work'[q] = <<>> /\ events'[q] = <<>>
      BY <1>4, <2>1, <2>4 DEF ResetTaskIds
    <3> QED  BY <3>1 DEF Ordered
  <2> QED  BY <2>3, <2>4
<1>5. ASSUME NEW p \in Port, LookupEntry(p)
      PROVE  Ordered(q)'
  <2>1. Ordered(q) /\ ident'[q] = ident[q] /\ work'[q] = work[q]
    BY <1>5 DEF NumberInv, LookupEntry, service
  <2>2. CASE q # p
    BY <1>5, <2>1, <2>2, OrderedKept, Taking
  <2>3. CASE q = p
    <3>1. /\ Len(events'[q]) = Len(events[q]) - 1
          /\ \A j \in 1..Len(events'[q]) : events'[q][j] = events[q][j + 1]
      BY <1>5, <2>3, Taking
    <3>2. \A j \in 1..Len(events'[q]) :
            j + 1 \in 1..Len(events[q]) /\ events'[q][j] = events[q][j + 1]
      BY <1>0, <3>1
    <3>3. ASSUME NEW j \in 1..Len(events'[q]), NEW k \in 1..Len(events'[q]), j < k
          PROVE  events'[q][j] < events'[q][k]
      <4>1. j + 1 < k + 1
        BY <3>3
      <4> QED  BY <2>1, <3>2, <4>1 DEF Ordered
    <3> QED  BY <2>1, <3>2, <3>3 DEF Ordered
  <2> QED  BY <2>2, <2>3
<1>6. CASE UNCHANGED <<ident, work, events, reused>>
  BY <1>6, OrderedKept DEF NumberInv
<1> QED  BY <1>2, <1>3, <1>4, <1>5, <1>6, NumberAside
-----------------------------------------------------------------------------
(* What is owed to the users                                               *)

\* Neither history flag is taken back.
LEMMA FlagsStay == TypeInv /\ [Next]_vars => (early => early') /\ (reused => reused')
BY DEF TypeInv, Next, onXmppMessage, CommandThread, SemWait, NextMessage, AnswerNow,
       CallService, CallCut, InsertEntry, PopMessage, RunWork, ResetTaskIds, EventThread,
       LookupEntry, ConnectFails, GetTaskStatus, StatusCut, vars

\* A pending task has a number that was given out, and one of its service.
LEMMA PendingNumber ==
    ASSUME TypeInv, NEW q \in Port, Ordered(q), NEW t, NEW x, Pending(q, t, x)
    PROVE  /\ AtWork(q, t) \/ Announced(q, t)
           /\ t <= ident[q]
           /\ work[q] # <<>> \/ events[q] # <<>>
<1>1. /\ Len(work[q]) \in Nat /\ Len(events[q]) \in Nat
      /\ work[q] \in Seq(Work) /\ events[q] \in Seq(Task)
  BY Services
<1>2. AtWork(q, t) \/ Announced(q, t)
  BY DEF Pending, AtWork
<1>3. CASE AtWork(q, t)
  BY <1>1, <1>3 DEF AtWork, Ordered
<1>4. CASE Announced(q, t)
  BY <1>1, <1>4 DEF Announced, Ordered
<1> QED  BY <1>2, <1>3, <1>4

\* A task stays pending until its event or its result is taken, whatever the
\* services start, finish or reset.
LEMMA PendingKept ==
    ASSUME TypeInv, [Next]_vars, ~reused',
           NEW q \in Port, Ordered(q), NEW t \in Task, NEW x \in Task, Pending(q, t, x),
           LookupEntry(q) => t # Head(events[q]),
           GetTaskStatus => ~(found.srvPort = q /\ found.taskID = t)
    PROVE  Pending(q, t, x)'
<1>0. /\ ident[q] \in Nat /\ Len(work[q]) \in Nat /\ Len(events[q]) \in Nat
      /\ \A j \in 1..Len(work[q]) : work[q][j].taskID \in Nat
      /\ \A j \in 1..Len(events[q]) : events[q][j] \in Nat
  BY Services
<1>1. t <= ident[q] /\ (work[q] # <<>> \/ events[q] # <<>>) /\ t \in Nat
  BY PendingNumber DEF Task
<1>2. ASSUME NEW p \in Port, PushTask(p), events' = events
      PROVE  Pending(q, t, x)'
  <2>1. CASE q # p
    BY <1>2, <2>1, Pushing DEF Pending, Announced
  <2>2. CASE q = p
    <3>1. /\ Len(work'[q]) = Len(work[q]) + 1
          /\ \A j \in 1..Len(work[q]) : work'[q][j] = work[q][j]
          /\ taskSts'[q][t] = taskSts[q][t]
      <4>1. t # ident[q] + 1
        BY <1>0, <1>1
      <4> QED  BY <1>2, <2>2, <4>1, Pushing
    <3>2. \A j \in 1..Len(work[q]) : j \in 1..Len(work'[q])
      BY <1>0, <3>1
    <3> QED  BY <1>2, <3>1, <3>2 DEF Pending, Announced
  <2> QED  BY <2>1, <2>2
<1>3. CASE CallService \/ CallCut
  <2>1. Head(result) \in Port /\ PushTask(Head(result)) /\ events' = events
    BY <1>3 DEF CallService, CallCut
  <2> QED  BY <1>2, <2>1
<1>4. ASSUME NEW p \in Port, RunWork(p)
      PROVE  Pending(q, t, x)'
  <2>1. CASE q # p
    BY <1>4, <2>1, Running DEF Pending, Announced
  <2>2. CASE q = p
    <3>1. /\ Len(work[q]) >= 1
          /\ Len(work'[q]) = Len(work[q]) - 1
          /\ \A j \in 1..Len(work'[q]) : work'[q][j] = work[q][j + 1]
          /\ Len(events'[q]) = Len(events[q]) + 1
          /\ \A j \in 1..Len(events[q]) : events'[q][j] = events[q][j]
          /\ events'[q][Len(events[q]) + 1] = work[q][1].taskID
          /\ taskSts[q][work[q][1].taskID] # NotFound =>
               taskSts'[q][work[q][1].taskID] = work[q][1].task
          /\ t # work[q][1].taskID => taskSts'[q][t] = taskSts[q][t]
      BY <1>4, <2>2, Running
    <3>2. 1 \in 1..Len(work[q]) /\ Len(events[q]) + 1 \in 1..Len(events'[q])
      BY <1>0, <3>1
    <3>3. ASSUME NEW j \in 1..Len(work[q]), work[q][j].taskID = t, work[q][j].task = x,
                 taskSts[q][t] # NotFound
          PROVE  Pending(q, t, x)'
      <4>1. CASE j = 1
        <5>1. work[q][1].taskID = t /\ work[q][1].task = x
          BY <3>3, <4>1
        <5>2. events'[q][Len(events[q]) + 1] = t /\ taskSts'[q][t] = x
          BY <3>1, <3>3, <5>1
        <5> QED  BY <3>2, <5>2 DEF Pending, Announced
      <4>2. CASE j # 1
        <5>1. j - 1 \in 1..Len(work'[q]) /\ work'[q][j - 1] = work[q][j] /\ 1 < j
          <6>1. j - 1 \in 1..Len(work'[q]) /\ (j - 1) + 1 = j /\ 1 < j
            BY <1>0, <3>1, <4>2
          <6> QED  BY <3>1, <6>1
        <5>2. t # work[q][1].taskID
          BY <1>0, <3>2, <3>3, <5>1 DEF Ordered
        <5> QED  BY <3>1, <3>3, <5>1, <5>2 DEF Pending
      <4> QED  BY <4>1, <4>2
    <3>4. ASSUME NEW j \in 1..Len(events[q]), events[q][j] = t, taskSts[q][t] = x
          PROVE  Pending(q, t, x)'
      <4>1. t # work[q][1].taskID
        <5>1. events[q][j] < work[q][1].taskID
          BY <3>2 DEF Ordered
        <5>2. events[q][j] \in Nat /\ work[q][1].taskID \in Nat
          BY <1>0, <3>2
        <5> QED  BY <3>4, <5>1, <5>2
      <4>2. j \in 1..Len(events'[q]) /\ events'[q][j] = t
        BY <1>0, <3>1, <3>4
      <4> QED  BY <3>1, <3>4, <4>1, <4>2 DEF Pending, Announced
    <3> QED  BY <3>3, <3>4 DEF Pending, Announced
  <2> QED  BY <2>1, <2>2
<1>5. ASSUME NEW p \in Port, ResetTaskIds(p)
      PROVE  Pending(q, t, x)'
  <2>1. q # p
    BY <1>1, <1>5 DEF ResetTaskIds
  <2>2. work' = work /\ events' = events /\ taskSts'[q] = taskSts[q]
    BY <1>5, <2>1 DEF ResetTaskIds, TypeInv
  <2> QED  BY <2>2 DEF Pending, Announced
<1>6. ASSUME NEW p \in Port, LookupEntry(p)
      PROVE  Pending(q, t, x)'
  <2>1. work' = work /\ taskSts' = taskSts
    BY <1>6 DEF LookupEntry, service
  <2>2. CASE q # p
    BY <1>6, <2>1, <2>2, Taking DEF Pending, Announced
  <2>3. CASE q = p
    <3>1. /\ Len(events'[q]) = Len(events[q]) - 1
          /\ \A j \in 1..Len(events'[q]) : events'[q][j] = events[q][j + 1]
          /\ t # events[q][1]
      BY <1>6, <2>3, Taking
    <3>2. ASSUME NEW j \in 1..Len(events[q]), events[q][j] = t
          PROVE  Announced(q, t)'
      <4>1. j - 1 \in 1..Len(events'[q]) /\ (j - 1) + 1 = j
        BY <1>0, <3>1, <3>2
      <4> QED  BY <3>1, <3>2, <4>1 DEF Announced
    <3> QED  BY <2>1, <3>2 DEF Pending, Announced
  <2> QED  BY <2>2, <2>3
<1>7. CASE GetTaskStatus
  <2>1. work' = work /\ events' = events
    BY <1>7 DEF GetTaskStatus
  <2>2. found.srvPort \in Port /\ found.taskID \in Task
    BY <1>7, Entries DEF GetTaskStatus
  <2>3. taskSts'[q][t] = taskSts[q][t]
    BY <1>7, <2>2 DEF GetTaskStatus, TypeInv
  <2> QED  BY <2>1, <2>3 DEF Pending, Announced
<1>8. CASE UNCHANGED <<work, events, taskSts>>
  BY <1>8 DEF Pending, Announced
<1>9. ASSUME ~CallService, ~CallCut, ~GetTaskStatus,
             \A p \in Port : ~RunWork(p) /\ ~ResetTaskIds(p) /\ ~LookupEntry(p)
      PROVE  UNCHANGED <<work, events, taskSts>>
  BY <1>9 DEF Next, onXmppMessage, CommandThread, SemWait, NextMessage, AnswerNow,
     InsertEntry, PopMessage, EventThread, ConnectFails, StatusCut, service, vars
<1> QED  BY <1>3, <1>4, <1>5, <1>6, <1>7, <1>8, <1>9

\* While nothing was early and no number in use was reset, all of it holds.
LEMMA Given ==
    ASSUME TypeInv, NumberInv, OwedInv, [Next]_vars, ~early', ~reused'
    PROVE  /\ ~early /\ ~reused /\ \A p \in Port : Ordered(p)
           /\ ListOwed /\ CallOwed /\ FoundOwed /\ ReplyOwed
<1>1. ~early /\ ~reused
  BY FlagsStay
<1> QED  BY <1>1 DEF NumberInv, OwedInv

\* What users were told is not forgotten.
LEMMA AcceptedStep ==
    ASSUME TypeInv, [Next]_vars
    PROVE  /\ Len(accepted) \in Nat /\ Len(accepted') \in Nat
           /\ Len(accepted) <= Len(accepted')
           /\ \A x \in 1..Len(accepted) : /\ accepted'[x] = accepted[x]
                                          /\ accepted[x].task \in Task
<1>1. Len(accepted) \in Nat /\ \A x \in 1..Len(accepted) : accepted[x] \in Acceptance
  BY ElementOfSeq DEF TypeInv
<1>2. \A a \in Acceptance : a.task \in Task
  BY DEF Acceptance
<1>3. CASE InsertEntry
  BY <1>1, <1>2, <1>3, Filing
<1>4. CASE ~InsertEntry
  <2>1. accepted' = accepted
    BY <1>4 DEF Next, onXmppMessage, CommandThread, SemWait, NextMessage, AnswerNow,
       CallService, CallCut, PopMessage, RunWork, ResetTaskIds, EventThread, LookupEntry,
       ConnectFails, GetTaskStatus, StatusCut, vars
  <2> QED  BY <1>1, <1>2, <2>1
<1> QED  BY <1>3, <1>4

\* Who was told a number does not change.
LEMMA OwnedKept ==
    ASSUME TypeInv, [Next]_vars, NEW e, e.xmppTID \in Nat \ {0}, Owned(e)
    PROVE  /\ Owned(e)' /\ accepted'[e.xmppTID] = accepted[e.xmppTID]
           /\ accepted[e.xmppTID].task \in Task
<1>1. e.xmppTID \in 1..Len(accepted)
  BY AcceptedStep DEF Owned
<1> QED  BY <1>1, AcceptedStep DEF Owned

\* An entry that is not taken out is still owed.
LEMMA EntryKept ==
    ASSUME TypeInv, NumberInv, OwedInv, [Next]_vars, ~early', ~reused',
           NEW k \in 1..Len(AsyncTaskList), NEW e, e = AsyncTaskList[k],
           \A p \in Port : LookupEntry(p) => k \notin Match(p)
    PROVE  Owned(e)' /\ Pending(e.srvPort, e.taskID, accepted[e.xmppTID].task)'
<1>1. /\ \A p \in Port : Ordered(p)
      /\ Owned(e) /\ Pending(e.srvPort, e.taskID, accepted[e.xmppTID].task)
  BY Given DEF ListOwed
<1>2. e \in Entry
  BY Entries
<1>3. e.srvPort \in Port /\ e.taskID \in Task /\ e.xmppTID \in Nat \ {0}
  BY <1>2 DEF Entry, Task
<1>4. PICK x \in Task : x = accepted[e.xmppTID].task
  BY <1>1, <1>3, OwnedKept
<1>5. LookupEntry(e.srvPort) => e.taskID # Head(events[e.srvPort])
  BY <1>3, Entries DEF Match, FindAsyncEventEntry
<1>6. GetTaskStatus => ~(found.srvPort = e.srvPort /\ found.taskID = e.taskID)
  BY <1>1, <1>3, Given, PendingNumber DEF FoundOwed, GetTaskStatus
<1>7. Pending(e.srvPort, e.taskID, x)'
  BY <1>1, <1>3, <1>4, <1>5, <1>6, PendingKept
<1>8. Owned(e)' /\ accepted'[e.xmppTID].task = x
  BY <1>1, <1>3, <1>4, OwnedKept
<1> QED  BY <1>7, <1>8 DEF Pending, Announced

\* Every entry, the new one included, is of a task that is pending.
LEMMA ListNext ==
    ASSUME TypeInv, NumberInv, OwedInv, [Next]_vars, ~early', ~reused'
    PROVE  ListOwed'
<1> SUFFICES ASSUME NEW j \in 1..Len(AsyncTaskList'), NEW e, e = AsyncTaskList'[j]
             PROVE  Owned(e)' /\ Pending(e.srvPort, e.taskID, accepted[e.xmppTID].task)'
  BY DEF ListOwed, Owned, Pending, Announced
<1>0. Len(AsyncTaskList) \in Nat
  BY Entries
<1>1. CASE InsertEntry
  <2>1. \A p \in Port : ~LookupEntry(p)
    BY <1>1 DEF InsertEntry, LookupEntry, command, TypeInv
  <2>2. /\ Len(AsyncTaskList') = Len(AsyncTaskList) + 1
        /\ \A k \in 1..Len(AsyncTaskList) : AsyncTaskList'[k] = AsyncTaskList[k]
    BY <1>1, Filing
  <2>3. CASE j \in 1..Len(AsyncTaskList)
    <3>1. e = AsyncTaskList[j]
      BY <2>2, <2>3
    <3> QED  BY <2>1, <2>3, <3>1, EntryKept
  <2>4. CASE j = Len(AsyncTaskList) + 1
    <3>1. /\ pc = "insert" /\ e.xmppTID = XmppTaskIDCounter + 1
          /\ e.taskID = call.taskID /\ e.srvPort = call.port
          /\ e.to = accepted'[e.xmppTID].to
          /\ Len(accepted') = XmppTaskIDCounter + 1
          /\ accepted'[e.xmppTID].task = tasks
      BY <1>1, <2>4, Filing DEF TypeInv
    <3>2. Owned(e)'
      BY <3>1 DEF Owned, TypeInv
    <3>3. Pending(e.srvPort, e.taskID, tasks)
      BY <3>1, Given DEF CallOwed
    <3>4. UNCHANGED <<work, events, taskSts>>
      BY <1>1 DEF InsertEntry, service
    <3> QED  BY <3>1, <3>2, <3>3, <3>4 DEF Pending, Announced
  <2> QED  BY <1>0, <2>2, <2>3, <2>4
<1>2. ASSUME NEW p \in Port, LookupEntry(p)
      PROVE  Owned(e)' /\ Pending(e.srvPort, e.taskID, accepted[e.xmppTID].task)'
  <2>1. \E k \in 1..Len(AsyncTaskList) : e = AsyncTaskList[k] /\ k \notin Match(p)
    BY <1>2, Lookup
  <2>2. PICK k \in 1..Len(AsyncTaskList) : e = AsyncTaskList[k] /\ k \notin Match(p)
    BY <2>1
  <2>3. \A q \in Port : LookupEntry(q) => q = p
    <3> SUFFICES ASSUME NEW q \in Port, LookupEntry(q), q # p PROVE FALSE
      OBVIOUS
    <3>1. events'[q] = events[q] /\ Len(events'[q]) = Len(events[q]) - 1
      BY <1>2, Taking
    <3>2. Len(events[q]) \in Nat
      BY Services
    <3> QED  BY <3>1, <3>2
  <2> QED  BY <2>2, <2>3, EntryKept
<1>3. CASE AsyncTaskList' = AsyncTaskList /\ \A p \in Port : ~LookupEntry(p)
  BY <1>3, EntryKept
<1>4. ASSUME ~InsertEntry, \A p \in Port : ~LookupEntry(p)
      PROVE  AsyncTaskList' = AsyncTaskList
  BY <1>4 DEF Next, onXmppMessage, CommandThread, SemWait, NextMessage, AnswerNow,
     CallService, CallCut, PopMessage, RunWork, ResetTaskIds, EventThread, ConnectFails,
     GetTaskStatus, StatusCut, vars
<1> QED  BY <1>1, <1>2, <1>3, <1>4

\* The task of a call that is not yet filed is pending: its event was not
\* looked up, or that was early.
LEMMA CallNext ==
    ASSUME TypeInv, NumberInv, OwedInv, [Next]_vars, ~early', ~reused'
    PROVE  CallOwed'
<1> SUFFICES ASSUME pc' = "insert"
             PROVE  /\ Pending(call.port, call.taskID, tasks)'
                    /\ \A j \in 1..Len(AsyncTaskList') :
                         ~FindAsyncEventEntry(AsyncTaskList'[j], call'.taskID, call'.port)
  BY DEF CallOwed, FindAsyncEventEntry
<1>0. /\ \A p \in Port : Ordered(p)
      /\ ListOwed /\ CallOwed /\ FoundOwed
  BY Given
<1>1. CASE CallService
  <2> DEFINE p == Head(result)
  <2>1. /\ p \in Port /\ PushTask(p) /\ AsyncTaskList' = AsyncTaskList
        /\ call' = [port |-> p, taskID |-> ident[p] + 1]
    BY <1>1 DEF CallService
  <2> HIDE DEF p
  <2>2. call'.port = p /\ call'.taskID = ident[p] + 1 /\ tasks' = tasks + 1
    BY <2>1, Pushed
  <2>3. /\ Len(work'[p]) = Len(work[p]) + 1
        /\ work'[p][Len(work[p]) + 1].taskID = ident[p] + 1
        /\ work'[p][Len(work[p]) + 1].task = tasks + 1
        /\ taskSts'[p][ident[p] + 1] = InProg
    BY <2>1, Pushing
  <2>4. Len(work[p]) + 1 \in 1..Len(work'[p]) /\ InProg # NotFound
    BY <2>1, <2>3, Services DEF InProg, NotFound
  <2>5. Pending(call.port, call.taskID, tasks)'
    BY <2>2, <2>3, <2>4 DEF Pending
  <2>6. ASSUME NEW j \in 1..Len(AsyncTaskList),
               AsyncTaskList[j].taskID = ident[p] + 1, AsyncTaskList[j].srvPort = p
        PROVE  FALSE
    <3>1. Pending(p, ident[p] + 1, accepted[AsyncTaskList[j].xmppTID].task)
      BY <1>0, <2>6 DEF ListOwed
    <3>2. ident[p] + 1 <= ident[p]
      BY <1>0, <2>1, <3>1, PendingNumber
    <3> QED  BY <2>1, <3>2, Services
  <2> QED  BY <2>1, <2>2, <2>5, <2>6 DEF FindAsyncEventEntry
<1>2. ASSUME ~CallService
      PROVE  pc = "insert" /\ call' = call /\ tasks' = tasks /\ ~InsertEntry
  BY <1>2 DEF Next, onXmppMessage, CommandThread, SemWait, NextMessage, AnswerNow,
     CallCut, InsertEntry, PopMessage, RunWork, ResetTaskIds, EventThread, LookupEntry,
     ConnectFails, GetTaskStatus, StatusCut, command, vars
<1>3. CASE pc = "insert" /\ call' = call /\ tasks' = tasks /\ ~InsertEntry
  <2>1. call \in [port : Port, taskID : Task] /\ tasks \in Task
    BY <1>3, BoundAssumption DEF TypeInv, Task
  <2>2. PICK q \in Port : q = call.port
    BY <2>1
  <2>3. PICK t \in Task : t = call.taskID
    BY <2>1
  <2>4. call = [port |-> q, taskID |-> t]
    BY <2>1, <2>2, <2>3
  <2>5. /\ Pending(q, t, tasks)
        /\ \A j \in 1..Len(AsyncTaskList) : ~FindAsyncEventEntry(AsyncTaskList[j], t, q)
    BY <1>0, <1>3, <2>2, <2>3 DEF CallOwed
  <2>6. ASSUME LookupEntry(q), t = Head(events[q])
        PROVE  FALSE
    <3>1. Match(q) = {}
      BY <2>5, <2>6, Entries DEF Match
    <3>2. early' = (early \/ call = [port |-> q, taskID |-> Head(events[q])])
      BY <2>6, <3>1 DEF LookupEntry
    <3> QED  BY <2>4, <2>6, <3>2
  <2>7. GetTaskStatus => ~(found.srvPort = q /\ found.taskID = t)
    BY <1>0, <2>5, PendingNumber DEF FoundOwed, GetTaskStatus
  <2>8. PICK x \in Task : x = tasks
    BY <2>1
  <2>9. Pending(q, t, x)'
    BY <1>0, <2>5, <2>6, <2>7, <2>8, PendingKept
  <2>10. Pending(call.port, call.taskID, tasks)'
    BY <1>3, <2>2, <2>3, <2>8, <2>9 DEF Pending, Announced
  <2>11. \A j \in 1..Len(AsyncTaskList') :
           \E k \in 1..Len(AsyncTaskList) : AsyncTaskList'[j] = AsyncTaskList[k]
    <3>1. ASSUME NEW p \in Port, LookupEntry(p), NEW j \in 1..Len(AsyncTaskList')
          PROVE  \E k \in 1..Len(AsyncTaskList) : AsyncTaskList'[j] = AsyncTaskList[k]
      BY <3>1, Lookup
    <3>2. ASSUME \A p \in Port : ~LookupEntry(p)
          PROVE  AsyncTaskList' = AsyncTaskList
      BY <1>3, <3>2 DEF Next, onXmppMessage, CommandThread, SemWait, NextMessage, AnswerNow,
         CallService, CallCut, PopMessage, RunWork, ResetTaskIds, EventThread, ConnectFails,
         GetTaskStatus, StatusCut, vars
    <3> QED  BY <3>1, <3>2
  <2> QED  BY <1>3, <2>2, <2>3, <2>5, <2>10, <2>11
<1> QED  BY <1>1, <1>2, <1>3

\* The entry the event thread has found is of a task that is done, with its
\* result noted and no second event to come.
LEMMA FoundNext ==
    ASSUME TypeInv, NumberInv, OwedInv, [Next]_vars, ~early', ~reused'
    PROVE  FoundOwed'
<1> SUFFICES ASSUME epc' = "status",
                    NEW e, e = found', NEW q, q = e.srvPort, NEW t, t = e.taskID
             PROVE  /\ Owned(e)' /\ t <= ident'[q]
                    /\ taskSts'[q][t] = accepted'[e.xmppTID].task
                    /\ ~AtWork(q, t)' /\ ~Announced(q, t)'
  BY DEF FoundOwed, Owned, AtWork, Announced
<1>0. /\ \A p \in Port : Ordered(p)
      /\ ListOwed /\ FoundOwed
  BY Given
<1>1. ASSUME NEW p \in Port, LookupEntry(p)
      PROVE  /\ Owned(e)' /\ t <= ident'[q]
             /\ taskSts'[q][t] = accepted'[e.xmppTID].task
             /\ ~AtWork(q, t)' /\ ~Announced(q, t)'
  <2>1. PICK k \in Match(p) : e = AsyncTaskList[k]
    BY <1>1, Lookup
  <2>2. k \in 1..Len(AsyncTaskList) /\ t = Head(events[p]) /\ q = p
    BY <2>1, Entries DEF Match, FindAsyncEventEntry
  <2>3. e.xmppTID \in Nat \ {0}
    BY <2>1, <2>2, Entries DEF Entry, Task
  <2>4. Owned(e) /\ Pending(q, t, accepted[e.xmppTID].task)
    BY <1>0, <2>1, <2>2 DEF ListOwed
  <2>5. UNCHANGED <<ident, work, taskSts>>
    BY <1>1 DEF LookupEntry, service
  <2>6. /\ Len(events[q]) >= 1 /\ t = events[q][1]
        /\ Len(events'[q]) = Len(events[q]) - 1
        /\ \A j \in 1..Len(events'[q]) : events'[q][j] = events[q][j + 1]
    BY <1>1, <2>2, Taking
  <2>7. /\ ident[q] \in Nat /\ Len(work[q]) \in Nat /\ Len(events[q]) \in Nat
        /\ \A j \in 1..Len(work[q]) : work[q][j].taskID \in Nat
        /\ \A j \in 1..Len(events[q]) : events[q][j] \in Nat
    BY <2>2, Services
  <2>8. 1 \in 1..Len(events[q]) /\ Ordered(q)
    BY <1>0, <2>2, <2>6, <2>7
  <2>9. t \in Nat /\ \A j \in 1..Len(work[q]) : work[q][j].taskID # t
    <3>1. \A j \in 1..Len(work[q]) : events[q][1] < work[q][j].taskID
      BY <2>8 DEF Ordered
    <3> QED  BY <2>6, <2>7, <2>8, <3>1
  <2>10. ~AtWork(q, t)'
    BY <2>5, <2>9 DEF AtWork
  <2>11. ASSUME NEW j \in 1..Len(events'[q])
         PROVE  events'[q][j] # t
    <3>1. j + 1 \in 1..Len(events[q]) /\ 1 < j + 1
      BY <2>6, <2>7
    <3>2. events[q][1] < events[q][j + 1]
      BY <2>8, <3>1 DEF Ordered
    <3> QED  BY <2>6, <2>7, <2>8, <3>1, <3>2
  <2>12. t <= ident'[q]
    BY <2>5, <2>6, <2>8 DEF Ordered
  <2>13. taskSts[q][t] = accepted[e.xmppTID].task
    BY <2>4, <2>9 DEF Pending
  <2>14. Owned(e)' /\ accepted'[e.xmppTID] = accepted[e.xmppTID]
    BY <2>3, <2>4, OwnedKept
  <2> QED  BY <2>5, <2>10, <2>11, <2>12, <2>13, <2>14 DEF Announced
<1>2. ASSUME \A p \in Port : ~LookupEntry(p)
      PROVE  epc = "status" /\ found' = found /\ ~GetTaskStatus
  BY <1>2 DEF Next, onXmppMessage, CommandThread, SemWait, NextMessage, AnswerNow,
     CallService, CallCut, InsertEntry, PopMessage, RunWork, ResetTaskIds, EventThread,
     ConnectFails, GetTaskStatus, StatusCut, Reply, evthread, vars
<1>3. CASE epc = "status" /\ found' = found /\ ~GetTaskStatus
           /\ \A p \in Port : ~LookupEntry(p)
  <2>1. /\ Owned(e) /\ t <= ident[q] /\ taskSts[q][t] = accepted[e.xmppTID].task
        /\ ~AtWork(q, t) /\ ~Announced(q, t)
    BY <1>0, <1>3 DEF FoundOwed
  <2>2. q \in Port /\ t \in Task /\ t \in Nat /\ e.xmppTID \in Nat \ {0}
    BY <1>3 DEF TypeInv, Entry, Task
  <2>3. Owned(e)' /\ accepted'[e.xmppTID] = accepted[e.xmppTID]
    BY <2>1, <2>2, OwnedKept
  <2>4. ident[q] \in Nat /\ Len(work[q]) \in Nat /\ Len(events[q]) \in Nat
    BY <2>2, Services
  <2>5. ASSUME NEW p \in Port, PushTask(p), events' = events
        PROVE  /\ t <= ident'[q] /\ taskSts'[q][t] = taskSts[q][t]
               /\ ~AtWork(q, t)' /\ ~Announced(q, t)'
    <3>1. CASE q # p
      BY <2>1, <2>2, <2>5, <3>1, Pushing DEF AtWork, Announced
    <3>2. CASE q = p
      <4>1. t # ident[q] + 1
        BY <2>1, <2>2, <2>4
      <4>2. /\ ident'[q] = ident[q] + 1
            /\ Len(work'[q]) = Len(work[q]) + 1
            /\ \A j \in 1..Len(work[q]) : work'[q][j] = work[q][j]
            /\ work'[q][Len(work[q]) + 1].taskID = ident[q] + 1
            /\ taskSts'[q][t] = taskSts[q][t]
        BY <2>2, <2>5, <3>2, <4>1, Pushing
      <4>3. \A j \in 1..Len(work'[q]) : j \in 1..Len(work[q]) \/ j = Len(work[q]) + 1
        BY <2>4, <4>2
      <4>4. ~AtWork(q, t)'
        <5>1. ASSUME NEW j \in 1..Len(work'[q]) PROVE work'[q][j].taskID # t
          <6>1. CASE j \in 1..Len(work[q])
            BY <2>1, <4>2, <6>1 DEF AtWork
          <6>2. CASE j = Len(work[q]) + 1
            BY <4>1, <4>2, <6>2
          <6> QED  BY <4>3, <6>1, <6>2
        <5> QED  BY <5>1 DEF AtWork
      <4> QED  BY <2>1, <2>2, <2>4, <2>5, <4>2, <4>4 DEF Announced
    <3> QED  BY <3>1, <3>2
  <2>6. CASE CallService \/ CallCut
    <3>1. Head(result) \in Port /\ PushTask(Head(result)) /\ events' = events
      BY <2>6 DEF CallService, CallCut
    <3> QED  BY <2>1, <2>3, <2>5, <3>1
  <2>7. ASSUME NEW p \in Port, RunWork(p)
        PROVE  /\ t <= ident'[q] /\ taskSts'[q][t] = taskSts[q][t]
               /\ ~AtWork(q, t)' /\ ~Announced(q, t)'
    <3>1. ident' = ident
      BY <2>7 DEF RunWork
    <3>2. CASE q # p
      BY <2>1, <2>7, <3>1, <3>2, <2>2, Running DEF AtWork, Announced
    <3>3. CASE q = p
      <4>1. /\ Len(work[q]) >= 1
            /\ Len(work'[q]) = Len(work[q]) - 1
            /\ \A j \in 1..Len(work'[q]) : work'[q][j] = work[q][j + 1]
            /\ Len(events'[q]) = Len(events[q]) + 1
            /\ \A j \in 1..Len(events[q]) : events'[q][j] = events[q][j]
            /\ events'[q][Len(events[q]) + 1] = work[q][1].taskID
            /\ t # work[q][1].taskID => taskSts'[q][t] = taskSts[q][t]
        BY <2>2, <2>7, <3>3, Running
      <4>2. t # work[q][1].taskID
        <5>1. 1 \in 1..Len(work[q])
          BY <2>4, <4>1
        <5> QED  BY <2>1, <5>1 DEF AtWork
      <4>3. /\ \A j \in 1..Len(work'[q]) : j + 1 \in 1..Len(work[q])
            /\ \A j \in 1..Len(events'[q]) : j \in 1..Len(events[q]) \/ j = Len(events[q]) + 1
        BY <2>4, <4>1
      <4>4. ~AtWork(q, t)'
        BY <2>1, <4>1, <4>3 DEF AtWork
      <4>5. ~Announced(q, t)'
        BY <2>1, <4>1, <4>2, <4>3 DEF Announced
      <4> QED  BY <2>1, <3>1, <4>1, <4>2, <4>4, <4>5
    <3> QED  BY <3>2, <3>3
  <2>8. ASSUME NEW p \in Port, ResetTaskIds(p)
        PROVE  /\ t <= ident'[q] /\ taskSts'[q][t] = taskSts[q][t]
               /\ ~AtWork(q, t)' /\ ~Announced(q, t)'
    <3>1. q # p
      BY <1>3, <2>8 DEF ResetTaskIds
    <3>2. ident'[q] = ident[q] /\ taskSts'[q] = taskSts[q] /\ work' = work /\ events' = events
      BY <2>2, <2>8, <3>1 DEF ResetTaskIds, TypeInv
    <3> QED  BY <2>1, <3>2 DEF AtWork, Announced
  <2>9. CASE UNCHANGED <<ident, work, events, taskSts>>
    BY <2>1, <2>3, <2>9 DEF AtWork, Announced
  <2>10. ASSUME ~CallService, ~CallCut, \A p \in Port : ~RunWork(p) /\ ~ResetTaskIds(p)
         PROVE  UNCHANGED <<ident, work, events, taskSts>>
    BY <1>3, <2>10 DEF Next, onXmppMessage, CommandThread, SemWait, NextMessage, AnswerNow,
       InsertEntry, PopMessage, EventThread, ConnectFails, StatusCut, service, vars
  <2> QED  BY <2>1, <2>3, <2>6, <2>7, <2>8, <2>9, <2>10
<1> QED  BY <1>1, <1>2, <1>3

\* A reply goes to the user who was told its number, with that task's result.
LEMMA ReplyNext ==
    ASSUME TypeInv, NumberInv, OwedInv, [Next]_vars, ~early', ~reused'
    PROVE  ReplyOwed'
<1> SUFFICES ASSUME NEW j \in 1..Len(replies'), NEW r, r = replies'[j]
             PROVE  Owned(r)' /\ r.res \in {accepted'[r.xmppTID].task, Unknown}
  BY DEF ReplyOwed, Owned
<1>0. FoundOwed /\ ReplyOwed /\ Len(replies) \in Nat
  BY Given, Entries
<1>1. ASSUME j \in 1..Len(replies), r = replies[j]
      PROVE  Owned(r)' /\ r.res \in {accepted'[r.xmppTID].task, Unknown}
  <2>1. Owned(r) /\ r.res \in {accepted[r.xmppTID].task, Unknown}
    BY <1>0, <1>1 DEF ReplyOwed
  <2>2. r \in FinalReply
    BY <1>1, ElementOfSeq DEF TypeInv
  <2>3. r.xmppTID \in Nat \ {0}
    BY <2>2 DEF FinalReply, Task
  <2> QED  BY <2>1, <2>3, OwnedKept
<1>2. CASE GetTaskStatus \/ StatusCut
  <2>1. /\ epc = "status" /\ Len(replies') = Len(replies) + 1
        /\ \A k \in 1..Len(replies) : replies'[k] = replies[k]
        /\ LET n == replies'[Len(replies) + 1] IN
             /\ n.xmppTID = found.xmppTID /\ n.to = found.to
             /\ n.res \in {taskSts[found.srvPort][found.taskID], Unknown}
    BY <1>2, Replying
  <2>2. CASE j \in 1..Len(replies)
    BY <1>1, <2>1, <2>2
  <2>3. CASE j = Len(replies) + 1
    <3>1. /\ Owned(found)
          /\ taskSts[found.srvPort][found.taskID] = accepted[found.xmppTID].task
      BY <1>0, <2>1 DEF FoundOwed
    <3>2. Owned(r) /\ r.res \in {accepted[r.xmppTID].task, Unknown}
      BY <2>1, <2>3, <3>1 DEF Owned
    <3>3. r.xmppTID \in Nat \ {0}
      BY <2>1, <2>3 DEF TypeInv, Entry, Task
    <3> QED  BY <3>2, <3>3, OwnedKept
  <2> QED  BY <1>0, <2>1, <2>2, <2>3
<1>3. ASSUME ~GetTaskStatus, ~StatusCut
      PROVE  replies' = replies
  BY <1>3 DEF Next, onXmppMessage, CommandThread, SemWait, NextMessage, AnswerNow,
     CallService, CallCut, InsertEntry, PopMessage, RunWork, ResetTaskIds, EventThread,
     LookupEntry, ConnectFails, vars
<1> QED  BY <1>1, <1>2, <1>3

Inv == TypeInv /\ NumberInv /\ OwedInv

\* Numbers grow and what is owed is kept, through every step.
LEMMA Invariance == Spec => []Inv
<1>1. Init => Inv
  <2> SUFFICES ASSUME Init PROVE Inv
    OBVIOUS
  <2>1. \A p \in Port : Ordered(p)
    BY DEF Init, Ordered
  <2>2. ListOwed /\ CallOwed /\ FoundOwed /\ ReplyOwed
    BY DEF Init, ListOwed, CallOwed, FoundOwed, ReplyOwed
  <2> QED  BY <2>1, <2>2, TypeInit DEF Inv, NumberInv, OwedInv
<1>2. Inv /\ [Next]_vars => Inv'
  <2> SUFFICES ASSUME TypeInv, NumberInv, OwedInv, [Next]_vars PROVE Inv'
    BY DEF Inv
  <2>1. OwedInv'
    BY ListNext, CallNext, FoundNext, ReplyNext DEF OwedInv
  <2> QED  BY <2>1, TypeNext, NumberNext DEF Inv
<1> QED  BY <1>1, <1>2, PTL DEF Spec

\* For all constants: a final reply goes to the user who asked, under the
\* number that user was told and with the result of the task that user started,
\* if every task was filed before its event and no number in use was reset.
THEOREM ReplyGoesToAsker == Spec => []ReplyToAsker
<1>1. Inv => ReplyToAsker
  <2> SUFFICES ASSUME Inv, ~early, ~reused, NEW k \in DOMAIN replies
               PROVE  /\ replies[k].xmppTID \in DOMAIN accepted
                      /\ replies[k].to = accepted[replies[k].xmppTID].to
                      /\ replies[k].res \in {accepted[replies[k].xmppTID].task, Unknown}
    BY DEF ReplyToAsker
  <2>1. TypeInv /\ ReplyOwed
    BY DEF Inv, OwedInv
  <2>2. k \in 1..Len(replies) /\ replies[k].xmppTID \in Nat
    BY <2>1, Entries
  <2>3. replies[k].xmppTID >= 1
    <3>1. replies[k] \in FinalReply
      BY <2>1, <2>2, ElementOfSeq DEF TypeInv
    <3> QED  BY <3>1 DEF FinalReply, Task
  <2>4. DOMAIN accepted = 1..Len(accepted) /\ Len(accepted) \in Nat
    BY <2>1 DEF TypeInv
  <2> QED  BY <2>1, <2>2, <2>3, <2>4 DEF ReplyOwed, Owned
<1> QED  BY <1>1, Invariance, PTL

\* For all constants: every entry of AsyncTaskList still has its task or its
\* event coming, under the same two conditions.
THEOREM EntryNotStale == Spec => []NoStaleEntry
<1>1. Inv => NoStaleEntry
  <2> SUFFICES ASSUME Inv, ~early, ~reused, NEW k \in DOMAIN AsyncTaskList,
                      NEW q, q = AsyncTaskList[k].srvPort, NEW t, t = AsyncTaskList[k].taskID
               PROVE  \/ \E j \in DOMAIN work[q] : work[q][j].taskID = t
                      \/ \E j \in DOMAIN events[q] : events[q][j] = t
    BY DEF NoStaleEntry
  <2>1. TypeInv /\ ListOwed /\ \A p \in Port : Ordered(p)
    BY DEF Inv, OwedInv, NumberInv
  <2>2. k \in 1..Len(AsyncTaskList) /\ q \in Port
    BY <2>1, Entries
  <2>3. AtWork(q, t) \/ Announced(q, t)
    BY <2>1, <2>2, PendingNumber DEF ListOwed
  <2> QED  BY <2>1, <2>2, <2>3, Services DEF AtWork, Announced
<1> QED  BY <1>1, Invariance, PTL
=============================================================================
