----------------------------- MODULE XmppAsync -----------------------------
(***************************************************************************)
(* xmproxy: chat commands and the late answers to them.                    *)
(*                                                                         *)
(* The XMPP thread queues each chat message for the command thread, which  *)
(* runs its sub-commands one by one.  A sub-command that starts a task in  *)
(* another service gets the task's number back, files it in AsyncTaskList  *)
(* with the requestor's name and tells the requestor "InProgress".  When   *)
(* the service announces the end of the task, the event thread looks the   *)
(* number up, asks the service for the result and sends the final reply.   *)
(*                                                                         *)
(* The services are the task workers of module TaskWorker, seen from       *)
(* outside; their events are delivered here (EvntMgr has what can go wrong *)
(* on the way).  Time is left out: the 200 ms some tasks sleep before they *)
(* finish do not order their end after the command thread's next step.     *)
(***************************************************************************)
EXTENDS StdVector, FiniteSets

CONSTANTS
    User,           \* the chat partners
    Port,           \* the services that run tasks, named by their ports
    Message,        \* chat messages, as sequences of sub-commands
    MaxMsg,         \* bound on the messages sent
    MaxTask,        \* bound on the tasks started
    MaxReset        \* bound on the resets of the services' task numbers

Alias == "alias"    \* the command that edits the alias list; a whole message
Sync == "sync"      \* a sub-command answered at once

ASSUME MessageAssumption ==
    Message \subseteq Seq(Port \cup {Sync}) \cup {<<Alias>>}
ASSUME BoundAssumption == MaxMsg \in Nat /\ MaxTask \in Nat /\ MaxReset \in Nat

VARIABLES
    processCmd,     \* messages waiting for the command thread
    cmdSem,         \* posts of the command thread's semaphore not yet taken
    pc,             \* the command thread
    result,         \* its local: sub-commands of the message still to run
    call,           \* its local: port and task number of the call it has made
    AsyncTaskList,  \* tasks whose final reply is owed
    XmppTaskIDCounter,
    ident,          \* per service, the last task number given out
    work,           \* per service, tasks not yet done
    taskSts,        \* per service and task number, the entry of work_inprog_chain
    events,         \* per service, INPROG_DONE events on the way
    epc, found,     \* the event thread, and the entry it has found
    sent, tasks, resets,    \* counters of messages, tasks and resets
    accepted,       \* history: per task number told to a user, who and for what
    replies,        \* history: the final replies
    unread,         \* history: replies given up because the service was away
    early,          \* an event was looked up before its task was filed
    reused          \* task numbers were reset with a task, event or entry pending

command == <<processCmd, cmdSem, pc, result, call>>
service == <<ident, work, taskSts>>
evthread == <<epc, found>>
vars == <<command, AsyncTaskList, XmppTaskIDCounter, service, events, evthread,
          sent, tasks, resets, accepted, replies, unread, early, reused>>

Task == 1..MaxTask
NotFound == -1      \* no entry by this number: RPC_SRV_RESULT_TASK_ID_NOT_FOUND
InProg == 0         \* RPC_SRV_RESULT_IN_PROG
Unknown == -2       \* the answer of a call that failed
Free == [port |-> "none", taskID |-> 0]
Nobody == [taskID |-> 0]
Entry == [taskID : Task, srvPort : Port, xmppTID : Task, to : User]

TypeOK ==
    /\ processCmd \in Seq([cmdMsg : Message, sender : User])
    /\ cmdSem \in 0..MaxMsg
    /\ pc \in {"wait", "loop", "cmd", "insert"}
    /\ result \in Seq(Port \cup {Sync})
    /\ call \in [port : Port, taskID : Task] \cup {Free}
    /\ AsyncTaskList \in Seq(Entry)
    /\ XmppTaskIDCounter \in 0..MaxTask
    /\ ident \in [Port -> 0..MaxTask]
    /\ work \in [Port -> Seq([taskID : Task, task : Task])]
    /\ taskSts \in [Port -> [Task -> {NotFound, InProg} \cup Task]]
    /\ events \in [Port -> Seq(Task)]
    /\ epc \in {"wait", "status"}
    /\ found \in Entry \cup {Nobody}
    /\ sent \in 0..MaxMsg /\ tasks \in 0..MaxTask /\ resets \in 0..MaxReset
    /\ accepted \in Seq([task : Task, to : User])
    /\ replies \in Seq([xmppTID : Task, to : User, res : {NotFound, InProg, Unknown} \cup Task])
    /\ unread \subseteq Task
    /\ early \in BOOLEAN /\ reused \in BOOLEAN

Init ==
    /\ processCmd = <<>> /\ cmdSem = 0 /\ pc = "wait" /\ result = <<>> /\ call = Free
    /\ AsyncTaskList = <<>> /\ XmppTaskIDCounter = 0
    /\ ident = [p \in Port |-> 0]
    /\ work = [p \in Port |-> <<>>]
    /\ taskSts = [p \in Port |-> [t \in Task |-> NotFound]]
    /\ events = [p \in Port |-> <<>>]
    /\ epc = "wait" /\ found = Nobody
    /\ sent = 0 /\ tasks = 0 /\ resets = 0
    /\ accepted = <<>> /\ replies = <<>> /\ unread = {}
    /\ early = FALSE /\ reused = FALSE

(***************************************************************************)
(* The XMPP thread.                                                        *)
(***************************************************************************)
(* Mutant: the thread is woken only when the queue was empty.              *)
WakeupIfEmpty(u, m) ==
    /\ sent < MaxMsg
    /\ processCmd' = Append(processCmd, [cmdMsg |-> m, sender |-> u])
    /\ cmdSem' = IF processCmd = <<>> THEN cmdSem + 1 ELSE cmdSem
    /\ sent' = sent + 1
    /\ UNCHANGED <<pc, result, call, AsyncTaskList, XmppTaskIDCounter, service, events,
                   evthread, tasks, resets, accepted, replies, unread, early, reused>>

(* onXmppMessage: everything but echo, help and answers of other bots.     *)
onXmppMessage(u, m) ==
    /\ sent < MaxMsg
    /\ processCmd' = Append(processCmd, [cmdMsg |-> m, sender |-> u])
    /\ cmdSem' = cmdSem + 1
    /\ sent' = sent + 1
    /\ UNCHANGED <<pc, result, call, AsyncTaskList, XmppTaskIDCounter, service, events,
                   evthread, tasks, resets, accepted, replies, unread, early, reused>>

(***************************************************************************)
(* The command thread.                                                     *)
(***************************************************************************)
SemWait ==
    /\ pc = "wait" /\ cmdSem > 0
    /\ cmdSem' = cmdSem - 1
    /\ pc' = "loop"
    /\ UNCHANGED <<processCmd, result, call, AsyncTaskList, XmppTaskIDCounter, service,
                   events, evthread, sent, tasks, resets, accepted, replies, unread,
                   early, reused>>

(* The head of the loop over processCmd: the queue is empty, or an alias   *)
(* command is answered and the callback returns with the rest of the queue *)
(* unserved, or the message is split.                                      *)
NextMessage ==
    /\ pc = "loop"
    /\ \/ /\ processCmd = <<>>
          /\ pc' = "wait"
          /\ UNCHANGED <<processCmd, result>>
       \/ /\ processCmd # <<>> /\ Head(processCmd).cmdMsg = <<Alias>>
          /\ processCmd' = Tail(processCmd)
          /\ pc' = "wait"
          /\ UNCHANGED result
       \/ /\ processCmd # <<>> /\ Head(processCmd).cmdMsg # <<Alias>>
          /\ result' = Head(processCmd).cmdMsg
          /\ pc' = "cmd"
          /\ UNCHANGED processCmd
    /\ UNCHANGED <<cmdSem, call, AsyncTaskList, XmppTaskIDCounter, service, events, evthread,
                   sent, tasks, resets, accepted, replies, unread, early, reused>>

(* A sub-command answered at once, or one whose service cannot be reached  *)
(* or refuses the task: the reply is sent, nothing is filed.               *)
AnswerNow ==
    /\ pc = "cmd" /\ result # <<>>
    /\ result' = Tail(result)
    /\ UNCHANGED <<processCmd, cmdSem, pc, call, AsyncTaskList, XmppTaskIDCounter, service,
                   events, evthread, sent, tasks, resets, accepted, replies, unread,
                   early, reused>>

(* The service p takes a task: push_task on its request thread.            *)
PushTask(p) ==
    /\ tasks < MaxTask
    /\ tasks' = tasks + 1
    /\ ident' = [ident EXCEPT ![p] = @ + 1]
    /\ work' = [work EXCEPT ![p] = Append(@, [taskID |-> ident[p] + 1, task |-> tasks + 1])]
    /\ taskSts' = [taskSts EXCEPT ![p][ident[p] + 1] = InProg]

(* The call that starts a task is answered "InProgress".                   *)
CallService ==
    /\ pc = "cmd" /\ result # <<>> /\ Head(result) \in Port
    /\ PushTask(Head(result))
    /\ call' = [port |-> Head(result), taskID |-> ident[Head(result)] + 1]
    /\ pc' = "insert"
    /\ UNCHANGED <<processCmd, cmdSem, result, AsyncTaskList, XmppTaskIDCounter, events,
                   evthread, sent, resets, accepted, replies, unread, early, reused>>

(* The service takes the task but the connection ends before its answer,   *)
(* or recv returns a part of it: the user is told of a failure and nothing *)
(* is filed.                                                               *)
CallCut ==
    /\ pc = "cmd" /\ result # <<>> /\ Head(result) \in Port
    /\ PushTask(Head(result))
    /\ result' = Tail(result)
    /\ UNCHANGED <<processCmd, cmdSem, pc, call, AsyncTaskList, XmppTaskIDCounter, events,
                   evthread, sent, resets, accepted, replies, unread, early, reused>>

(* Mutant: the number is taken before the counter is advanced.             *)
InsertSameID ==
    /\ pc = "insert"
    /\ AsyncTaskList' = Append(AsyncTaskList,
           [taskID |-> call.taskID, srvPort |-> call.port,
            xmppTID |-> XmppTaskIDCounter, to |-> Head(processCmd).sender])
    /\ XmppTaskIDCounter' = XmppTaskIDCounter + 1
    /\ accepted' = Append(accepted, [task |-> tasks, to |-> Head(processCmd).sender])
    /\ result' = Tail(result) /\ call' = Free /\ pc' = "cmd"
    /\ UNCHANGED <<processCmd, cmdSem, service, events, evthread, sent, tasks, resets,
                   replies, unread, early, reused>>

(* AccessAsyncTaskList with insertEntryFlag: the task is filed and its     *)
(* requestor told its number, counted by xmproxy itself.  The task behind  *)
(* the call is the last one started: only this thread starts tasks.        *)
InsertEntry ==
    /\ pc = "insert"
    /\ XmppTaskIDCounter' = XmppTaskIDCounter + 1
    /\ AsyncTaskList' = Append(AsyncTaskList,
           [taskID |-> call.taskID, srvPort |-> call.port,
            xmppTID |-> XmppTaskIDCounter + 1, to |-> Head(processCmd).sender])
    /\ accepted' = Append(accepted, [task |-> tasks, to |-> Head(processCmd).sender])
    /\ result' = Tail(result) /\ call' = Free /\ pc' = "cmd"
    /\ UNCHANGED <<processCmd, cmdSem, service, events, evthread, sent, tasks, resets,
                   replies, unread, early, reused>>

(* All sub-commands of the message are answered.                           *)
PopMessage ==
    /\ pc = "cmd" /\ result = <<>>
    /\ processCmd' = Tail(processCmd)
    /\ pc' = "loop"
    /\ UNCHANGED <<cmdSem, result, call, AsyncTaskList, XmppTaskIDCounter, service, events,
                   evthread, sent, tasks, resets, accepted, replies, unread, early, reused>>

(***************************************************************************)
(* The services.                                                           *)
(***************************************************************************)
(* The worker of service p finishes its next task, notes its result if the *)
(* entry is still there, and announces its end.                            *)
RunWork(p) ==
    /\ work[p] # <<>>
    /\ LET w == Head(work[p]) IN
       /\ taskSts' = [taskSts EXCEPT ![p][w.taskID] = IF @ = NotFound THEN @ ELSE w.task]
       /\ events' = [events EXCEPT ![p] = Append(@, w.taskID)]
    /\ work' = [work EXCEPT ![p] = Tail(@)]
    /\ UNCHANGED <<command, AsyncTaskList, XmppTaskIDCounter, ident, evthread, sent, tasks,
                   resets, accepted, replies, unread, early, reused>>

Listed(p) == \E i \in DOMAIN AsyncTaskList : AsyncTaskList[i].srvPort = p

(* reset_task_id_and_chain, asked for by some client of service p.         *)
ResetTaskIds(p) ==
    /\ resets < MaxReset
    /\ resets' = resets + 1
    /\ ident' = [ident EXCEPT ![p] = 0]
    /\ taskSts' = [taskSts EXCEPT ![p] = [t \in Task |-> NotFound]]
    /\ reused' = (reused \/ work[p] # <<>> \/ events[p] # <<>> \/ call.port = p
                         \/ Listed(p) \/ (epc = "status" /\ found.srvPort = p))
    /\ UNCHANGED <<command, AsyncTaskList, XmppTaskIDCounter, work, events, evthread, sent,
                   tasks, accepted, replies, unread, early>>

(***************************************************************************)
(* The event thread: EvntHandler::ReceiveEvent.                            *)
(***************************************************************************)
(* Mutant: the service is not compared.                                    *)
FindByTaskID(e, tid, port) == e.taskID = tid

(* Same task number, same service.                                         *)
FindAsyncEventEntry(e, tid, port) == e.taskID = tid /\ e.srvPort = port

(* The positions of the entries for the event that service p sent first.   *)
Match(p) == {k \in DOMAIN AsyncTaskList :
                 FindAsyncEventEntry(AsyncTaskList[k], Head(events[p]), p)}

(* Mutant: the entry is not erased.                                        *)
LookupKeeps(p) ==
    /\ epc = "wait" /\ events[p] # <<>>
    /\ events' = [events EXCEPT ![p] = Tail(@)]
    /\ \/ /\ Match(p) = {}
          /\ early' = (early \/ call = [port |-> p, taskID |-> Head(events[p])])
          /\ UNCHANGED evthread
       \/ \E k \in Match(p) :
            /\ \A l \in Match(p) : k <= l
            /\ found' = AsyncTaskList[k] /\ epc' = "status"
            /\ UNCHANGED early
    /\ UNCHANGED <<command, AsyncTaskList, XmppTaskIDCounter, service, sent, tasks, resets,
                   accepted, replies, unread, reused>>

(* The first match gives the reply's address; every match is erased.  An   *)
(* event without a match is logged and forgotten.                          *)
LookupEntry(p) ==
    /\ epc = "wait" /\ events[p] # <<>>
    /\ events' = [events EXCEPT ![p] = Tail(@)]
    /\ AsyncTaskList' \in remove_if(AsyncTaskList, Match(p))
    /\ \/ /\ Match(p) = {}
          /\ early' = (early \/ call = [port |-> p, taskID |-> Head(events[p])])
          /\ UNCHANGED evthread
       \/ \E k \in Match(p) :
            /\ \A l \in Match(p) : k <= l
            /\ found' = AsyncTaskList[k] /\ epc' = "status"
            /\ UNCHANGED early
    /\ UNCHANGED <<command, XmppTaskIDCounter, service, sent, tasks, resets, accepted,
                   replies, unread, reused>>

(* The service cannot be connected to: ReceiveEvent returns.               *)
ConnectFails ==
    /\ epc = "status"
    /\ unread' = unread \cup {found.xmppTID}
    /\ epc' = "wait" /\ found' = Nobody
    /\ UNCHANGED <<command, AsyncTaskList, XmppTaskIDCounter, service, events, sent, tasks,
                   resets, accepted, replies, early, reused>>

(* RpcResponseCallback: the final reply.                                   *)
Reply(res) ==
    /\ replies' = Append(replies, [xmppTID |-> found.xmppTID, to |-> found.to, res |-> res])
    /\ epc' = "wait" /\ found' = Nobody

(* get_task_status, which hands a result out once, and the final reply.    *)
GetTaskStatus ==
    /\ epc = "status"
    /\ LET p == found.srvPort
           res == taskSts[p][found.taskID] IN
       /\ Reply(res)
       /\ taskSts' = [taskSts EXCEPT ![p][found.taskID] = IF @ = InProg THEN @ ELSE NotFound]
    /\ UNCHANGED <<command, AsyncTaskList, XmppTaskIDCounter, ident, work, events, sent,
                   tasks, resets, accepted, unread, early, reused>>

(* The answer of get_task_status is cut likewise: "unknown" is sent.       *)
StatusCut ==
    /\ epc = "status"
    /\ Reply(Unknown)
    /\ UNCHANGED <<command, AsyncTaskList, XmppTaskIDCounter, service, events, sent, tasks,
                   resets, accepted, unread, early, reused>>

CommandThread == SemWait \/ NextMessage \/ AnswerNow \/ CallService \/ CallCut
                 \/ InsertEntry \/ PopMessage
EventThread == (\E p \in Port : LookupEntry(p)) \/ ConnectFails \/ GetTaskStatus \/ StatusCut

Next ==
    \/ \E u \in User, m \in Message : onXmppMessage(u, m)
    \/ CommandThread
    \/ \E p \in Port : RunWork(p) \/ ResetTaskIds(p)
    \/ EventThread

(* The threads run on as long as they can: a service answers or closes the *)
(* connection (RpcClient says what happens when it does neither), and a    *)
(* task's handler returns.                                                 *)
Fairness ==
    /\ WF_vars(CommandThread)
    /\ WF_vars(EventThread)
    /\ \A p \in Port : WF_vars(RunWork(p))

Spec == Init /\ [][Next]_vars /\ Fairness

(***************************************************************************)
(* Properties.                                                             *)
(***************************************************************************)
(* onXmppMessage and the command loop: a message in the queue has a post   *)
(* that will fetch it, although the loop may serve many messages for one   *)
(* post and an alias command leaves it with messages unserved.             *)
NoMessageStuck == pc = "wait" => cmdSem >= Len(processCmd)

(* ReceiveEvent: a final reply goes to the user who asked, under the       *)
(* number that user was told, and a result in it is that task's result,    *)
(* whatever the services interleave.  It needs every task to be filed      *)
(* before its event comes, and no reset of numbers still in use.           *)
ReplyToAsker ==
    ~early /\ ~reused =>
        \A i \in DOMAIN replies :
            /\ replies[i].xmppTID \in DOMAIN accepted
            /\ replies[i].to = accepted[replies[i].xmppTID].to
            /\ replies[i].res \in {accepted[replies[i].xmppTID].task, Unknown}

(* AccessAsyncTaskList: a number told to a user gets at most one final     *)
(* reply, resets and lost answers notwithstanding.                         *)
OneFinalReply ==
    \A i, j \in DOMAIN replies : replies[i].xmppTID = replies[j].xmppTID => i = j

(* AsyncTaskList: every entry still has something coming that will take it *)
(* out, its task or its event; under the same two conditions.              *)
NoStaleEntry ==
    ~early /\ ~reused =>
        \A i \in DOMAIN AsyncTaskList :
            LET e == AsyncTaskList[i] IN
            \/ \E j \in DOMAIN work[e.srvPort] : work[e.srvPort][j].taskID = e.taskID
            \/ \E j \in DOMAIN events[e.srvPort] : events[e.srvPort][j] = e.taskID

Replied(x) == \E i \in DOMAIN replies : replies[i].xmppTID = x

(* EvntHandler: a user who was told a number gets a final reply, or the    *)
(* service could not be reached to ask for the result.                     *)
FinalReplyComes ==
    \A x \in Task :
        x \in DOMAIN accepted ~> Replied(x) \/ x \in unread \/ early \/ reused

(* XmppMgr.cpp: "after receiving the result of inProg task, this call back *)
(* is called to send reply over xmpp" - also when the task ends before it  *)
(* is filed.                                                               *)
AfterResultReplyIsSent ==
    \A x \in Task : x \in DOMAIN accepted ~> Replied(x) \/ x \in unread \/ reused
=============================================================================
