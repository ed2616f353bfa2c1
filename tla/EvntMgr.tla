------------------------------ MODULE EvntMgr ------------------------------
(***************************************************************************)
(* ADEvntMgr: the events of a service and its subscribers.                 *)
(*                                                                         *)
(* The service's request thread registers and removes subscriptions and    *)
(* queues events; its notify thread sends each event to the subscriptions  *)
(* that match, one connection at a time.  Nothing locks eventList.  A      *)
(* subscriber is another service: its request thread queues what arrives   *)
(* for its own process thread.  A step is one operation on a container, or *)
(* one network call; the two run concurrently between those.               *)
(***************************************************************************)
EXTENDS StdVector, FiniteSets

CONSTANTS
    Subscriber,     \* services that listen for events, each on its own port
    Event,          \* event numbers
    MaxToken,       \* bound on the subscriptions registered
    MaxNotify       \* bound on the events notified

ASSUME SubscriberAssumption == IsFiniteSet(Subscriber)
ASSUME EventAssumption == Event \subseteq Nat
ASSUME BoundAssumption == MaxToken \in Nat /\ MaxNotify \in Nat

VARIABLES
    eventList,      \* the subscriptions
    AckToken,       \* the last token given out
    notifyEvent,    \* events waiting for the notify thread
    notifySem,      \* posts of the notify thread's semaphore not yet taken
    req,            \* the request thread: "idle", or "wakeup" within notify_event
    pc, i, entry, target,   \* the notify thread, its locals
    listening,      \* the subscribers whose port accepts connections
    processEvent,   \* per subscriber, events waiting for its process thread
    processSem,     \* per subscriber, posts of its process thread's semaphore
    awake,          \* the subscribers whose process thread is in its loop
    received,       \* per subscriber, the calls of receive_events so far
    known,          \* history: the tokens in the list when the event was taken up
    tried,          \* history: the tokens send_event was called for since then
    refused,        \* history: those among them whose connection was refused
    dropped,        \* history: tokens removed for an event they did not refuse
    notified,       \* history: the number of events notified
    clash           \* an unsubscribe came while the notify thread was at work

thread == <<pc, i, entry, target>>
client == <<listening, processEvent, processSem, awake, received>>
history == <<known, tried, refused, dropped, notified, clash>>
vars == <<eventList, AckToken, notifyEvent, notifySem, req, thread, client, history>>

All == -1                               \* eventNum of "notify all events"
Entry == [srvToken : 1..MaxToken, clt : Subscriber, eventNum : Event \cup {All},
          deleteFlag : BOOLEAN]
Notice == [eventNum : Event, id : 1..MaxNotify]
None == [eventNum |-> All, id |-> 0]
NoEntry == [srvToken |-> 0]

Wanted(e, n) == e.eventNum \in {All, n.eventNum}
Tokens(list) == {list[j].srvToken : j \in DOMAIN list}

TypeOK ==
    /\ eventList \in Seq(Entry)
    /\ AckToken \in 0..MaxToken
    /\ notifyEvent \in Seq(Notice)
    /\ notifySem \in 0..MaxNotify
    /\ req \in {"idle", "wakeup"}
    /\ pc \in {"wait", "test", "scan", "connect", "rpc", "erase"}
    /\ i \in 0..(MaxToken + 1)
    /\ entry \in Notice \cup {None}
    /\ target \in Entry \cup {NoEntry}
    /\ listening \subseteq Subscriber
    /\ awake \subseteq listening
    /\ processEvent \in [Subscriber -> Seq([id : 1..MaxNotify, token : 1..MaxToken])]
    /\ processSem \in [Subscriber -> Nat]

Init ==
    /\ eventList = <<>> /\ AckToken = 0
    /\ notifyEvent = <<>> /\ notifySem = 0 /\ req = "idle"
    /\ pc = "wait" /\ i = 0 /\ entry = None /\ target = NoEntry
    /\ listening = Subscriber /\ awake = {}
    /\ processEvent = [s \in Subscriber |-> <<>>]
    /\ processSem = [s \in Subscriber |-> 0]
    /\ received = [s \in Subscriber |-> <<>>]
    /\ known = {} /\ tried = {} /\ refused = {} /\ dropped = {}
    /\ notified = 0 /\ clash = FALSE

-----------------------------------------------------------------------------
(* Plausible mistakes in the code.  No specification uses them.            *)

\* The token is the one before the increment.
RegisterPostIncrement(s, n) ==
    /\ req = "idle"
    /\ AckToken < MaxToken
    /\ AckToken' = AckToken + 1
    /\ eventList' = Append(eventList,
            [srvToken |-> AckToken, clt |-> s, eventNum |-> n, deleteFlag |-> FALSE])
    /\ UNCHANGED <<notifyEvent, notifySem, req, thread, client, history>>

\* The event is queued, and nobody is woken.
WakeupForgotten ==
    /\ req = "wakeup"
    /\ req' = "idle"
    /\ UNCHANGED <<eventList, AckToken, notifyEvent, notifySem, thread, client, history>>

\* The first entry is flagged in place of the i-th.
ConnectFlagsFirst ==
    /\ pc = "connect"
    /\ tried' = tried \cup {target.srvToken}
    /\ \/ /\ target.clt \in listening
          /\ pc' = "rpc"
          /\ UNCHANGED <<eventList, i, target, refused>>
       \/ /\ target.clt \notin listening
          /\ eventList' = [eventList EXCEPT ![1].deleteFlag = TRUE]
          /\ refused' = refused \cup {target.srvToken}
          /\ pc' = "scan" /\ i' = i + 1 /\ target' = NoEntry
    /\ UNCHANGED <<AckToken, notifyEvent, notifySem, req, entry, client, known,
                   dropped, notified, clash>>

\* The scan begins with the second entry.
NextEventSkipsFirst ==
    /\ pc = "test"
    /\ \/ /\ notifyEvent = <<>>
          /\ pc' = "wait"
          /\ UNCHANGED <<i, entry, target, known>>
       \/ /\ notifyEvent # <<>>
          /\ known' = Tokens(eventList)
          /\ entry' = Head(notifyEvent)
          /\ i' = 2
          /\ pc' = "scan"
          /\ UNCHANGED target
    /\ UNCHANGED <<eventList, AckToken, notifyEvent, notifySem, req, client,
                   tried, refused, dropped, notified, clash>>

\* The event is not taken off the queue.
EraseNoPop ==
    /\ pc = "erase"
    /\ eventList' \in remove_if(eventList, {j \in DOMAIN eventList : eventList[j].deleteFlag})
    /\ dropped' = dropped \cup (Tokens(eventList) \ (Tokens(eventList') \cup refused))
    /\ entry' = None /\ i' = 0 /\ known' = {} /\ tried' = {} /\ refused' = {}
    /\ pc' = "test"
    /\ UNCHANGED <<AckToken, notifyEvent, notifySem, req, target, notified, client, clash>>

\* What the subscriber gets goes to the front of its queue.
ProcessEventFront ==
    /\ pc = "rpc"
    /\ \/ /\ target.clt \in listening
          /\ processEvent' = [processEvent EXCEPT ![target.clt] =
                <<[id |-> entry.id, token |-> target.srvToken]>> \o @]
          /\ processSem' = [processSem EXCEPT ![target.clt] = @ + 1]
       \/ /\ target.clt \notin listening
          /\ UNCHANGED <<processEvent, processSem>>
    /\ pc' = "scan" /\ i' = i + 1 /\ target' = NoEntry
    /\ UNCHANGED <<eventList, AckToken, notifyEvent, notifySem, req, entry,
                   listening, awake, received, history>>
-----------------------------------------------------------------------------
(* The request thread of the service                                       *)

\* event_subscribe: an entry with this client and event is not taken twice.
RegisterEventSubscription(s, n) ==
    /\ req = "idle"
    /\ AckToken < MaxToken
    /\ \A j \in DOMAIN eventList : ~(eventList[j].clt = s /\ eventList[j].eventNum = n)
    /\ AckToken' = AckToken + 1
    /\ eventList' = Append(eventList,
            [srvToken |-> AckToken', clt |-> s, eventNum |-> n, deleteFlag |-> FALSE])
    /\ UNCHANGED <<notifyEvent, notifySem, req, thread, client, history>>

\* event_unsubscribe: the entry is taken out and deleted, whoever asks and
\* whatever the notify thread is doing with it.
UnregisterEventSubscription(t) ==
    /\ req = "idle"
    /\ t \in Tokens(eventList)
    /\ eventList' \in remove_if(eventList, {j \in DOMAIN eventList : eventList[j].srvToken = t})
    /\ clash' = (clash \/ pc # "wait")
    /\ UNCHANGED <<AckToken, notifyEvent, notifySem, req, thread, client,
                   known, tried, refused, dropped, notified>>

\* event_notify: the event is queued, then the notify thread is woken.
NotifyEvent(n) ==
    /\ req = "idle"
    /\ notified < MaxNotify
    /\ notified' = notified + 1
    /\ notifyEvent' = Append(notifyEvent, [eventNum |-> n, id |-> notified'])
    /\ req' = "wakeup"
    /\ UNCHANGED <<eventList, AckToken, notifySem, thread, client,
                   known, tried, refused, dropped, clash>>

WakeupThread ==
    /\ req = "wakeup"
    /\ notifySem' = notifySem + 1
    /\ req' = "idle"
    /\ UNCHANGED <<eventList, AckToken, notifyEvent, thread, client, history>>
-----------------------------------------------------------------------------
(* The notify thread of the service                                        *)

SemWait ==
    /\ pc = "wait"
    /\ notifySem > 0
    /\ notifySem' = notifySem - 1
    /\ pc' = "test"
    /\ UNCHANGED <<eventList, AckToken, notifyEvent, req, i, entry, target, client,
                   history>>

\* while (!notifyEvent.empty()), and the copy of the front
NextEvent ==
    /\ pc = "test"
    /\ \/ /\ notifyEvent = <<>>
          /\ pc' = "wait"
          /\ UNCHANGED <<i, entry, target, known>>
       \/ /\ notifyEvent # <<>>
          /\ known' = Tokens(eventList)
          /\ entry' = Head(notifyEvent)
          /\ i' = 1
          /\ pc' = "scan"
          /\ UNCHANGED target
    /\ UNCHANGED <<eventList, AckToken, notifyEvent, notifySem, req, client,
                   tried, refused, dropped, notified, clash>>

\* for (i < eventList.size()), with the size and the i-th entry read afresh
Scan ==
    /\ pc = "scan"
    /\ \/ /\ i > Len(eventList)
          /\ pc' = "erase"
          /\ UNCHANGED <<i, target>>
       \/ /\ i <= Len(eventList)
          /\ ~Wanted(eventList[i], entry)
          /\ i' = i + 1
          /\ UNCHANGED <<pc, target>>
       \/ /\ i <= Len(eventList)
          /\ Wanted(eventList[i], entry)
          /\ target' = eventList[i]
          /\ pc' = "connect"
          /\ UNCHANGED i
    /\ UNCHANGED <<eventList, AckToken, notifyEvent, notifySem, req, entry, client,
                   history>>

\* send_event up to its connection.  When that is refused, the entry that is
\* the i-th by now is flagged; with none there the flag goes to freed memory.
SendEventConnect ==
    /\ pc = "connect"
    /\ tried' = tried \cup {target.srvToken}
    /\ \/ /\ target.clt \in listening
          /\ pc' = "rpc"
          /\ UNCHANGED <<eventList, i, target, refused>>
       \/ /\ target.clt \notin listening
          /\ eventList' = [j \in DOMAIN eventList |->
                IF j = i THEN [eventList[j] EXCEPT !.deleteFlag = TRUE] ELSE eventList[j]]
          /\ refused' = refused \cup {target.srvToken}
          /\ pc' = "scan" /\ i' = i + 1 /\ target' = NoEntry
    /\ UNCHANGED <<AckToken, notifyEvent, notifySem, req, entry, client, known,
                   dropped, notified, clash>>

\* The rest of send_event: the subscriber's request thread runs process_event
\* and answers.  If the subscriber has gone, the event is lost and send_event
\* returns 0 all the same.
SendEventProcess ==
    /\ pc = "rpc"
    /\ \/ /\ target.clt \in listening
          /\ processEvent' = [processEvent EXCEPT ![target.clt] =
                Append(@, [id |-> entry.id, token |-> target.srvToken])]
          /\ processSem' = [processSem EXCEPT ![target.clt] = @ + 1]
       \/ /\ target.clt \notin listening
          /\ UNCHANGED <<processEvent, processSem>>
    /\ pc' = "scan" /\ i' = i + 1 /\ target' = NoEntry
    /\ UNCHANGED <<eventList, AckToken, notifyEvent, notifySem, req, entry,
                   listening, awake, received, history>>

\* Flagged entries are deleted and the event is taken off the queue.
Erase ==
    /\ pc = "erase"
    /\ eventList' \in remove_if(eventList, {j \in DOMAIN eventList : eventList[j].deleteFlag})
    /\ dropped' = dropped \cup (Tokens(eventList) \ (Tokens(eventList') \cup refused))
    /\ entry' = None /\ i' = 0 /\ known' = {} /\ tried' = {} /\ refused' = {}
    /\ notifyEvent' = Tail(notifyEvent)
    /\ pc' = "test"
    /\ UNCHANGED <<AckToken, notifySem, req, target, notified, client, clash>>

NotifyThread ==
    SemWait \/ NextEvent \/ Scan \/ SendEventConnect \/ SendEventProcess \/ Erase
-----------------------------------------------------------------------------
(* A subscriber                                                            *)

ProcessSemWait(s) ==
    /\ s \in listening \ awake
    /\ processSem[s] > 0
    /\ processSem' = [processSem EXCEPT ![s] = @ - 1]
    /\ awake' = awake \cup {s}
    /\ UNCHANGED <<eventList, AckToken, notifyEvent, notifySem, req, thread,
                   listening, processEvent, received, history>>

\* The loop of the process thread: receive_events and pop_front, or the end.
ReceiveEvents(s) ==
    /\ s \in awake
    /\ \/ /\ processEvent[s] # <<>>
          /\ received' = [received EXCEPT ![s] = Append(@, Head(processEvent[s]))]
          /\ processEvent' = [processEvent EXCEPT ![s] = Tail(@)]
          /\ UNCHANGED awake
       \/ /\ processEvent[s] = <<>>
          /\ awake' = awake \ {s}
          /\ UNCHANGED <<received, processEvent>>
    /\ UNCHANGED <<eventList, AckToken, notifyEvent, notifySem, req, thread,
                   listening, processSem, history>>

\* The subscriber's process ends, with what it had queued; and starts again.
GoAway(s) ==
    /\ s \in listening
    /\ listening' = listening \ {s}
    /\ awake' = awake \ {s}
    /\ processEvent' = [processEvent EXCEPT ![s] = <<>>]
    /\ processSem' = [processSem EXCEPT ![s] = 0]
    /\ UNCHANGED <<eventList, AckToken, notifyEvent, notifySem, req, thread, received,
                   history>>

ComeBack(s) ==
    /\ s \notin listening
    /\ listening' = listening \cup {s}
    /\ UNCHANGED <<eventList, AckToken, notifyEvent, notifySem, req, thread,
                   processEvent, processSem, awake, received, history>>

Next ==
    \/ \E s \in Subscriber, n \in Event \cup {All} : RegisterEventSubscription(s, n)
    \/ \E t \in Tokens(eventList) : UnregisterEventSubscription(t)
    \/ \E n \in Event : NotifyEvent(n)
    \/ WakeupThread
    \/ NotifyThread
    \/ \E s \in Subscriber :
         ProcessSemWait(s) \/ ReceiveEvents(s) \/ GoAway(s) \/ ComeBack(s)

\* The service's two threads run when they can; nobody has to subscribe, notify
\* or go away, and a subscriber's process thread may stand still.
Fairness ==
    /\ WF_vars(WakeupThread)
    /\ WF_vars(NotifyThread)

Spec == Init /\ [][Next]_vars /\ Fairness
-----------------------------------------------------------------------------
(* Properties                                                              *)

\* The notify thread never sleeps on a queued event: push_back comes before
\* wakeup_thread, and the loop goes on until the queue is empty.
NoLostWakeup ==
    pc = "wait" /\ req = "idle" /\ notifyEvent # <<>> => notifySem > 0

\* A subscription hears of each event at most once and in the order in which
\* the events were notified, whatever else registers, leaves or restarts.
InOrderOnce ==
    \A s \in Subscriber : \A j, k \in DOMAIN received[s] :
        j < k /\ received[s][j].token = received[s][k].token =>
            received[s][j].id < received[s][k].id

\* While no unsubscribe comes during the loop, the loop misses no matching
\* subscription: those that were there when the event was taken up have been
\* tried by the time it is taken off the queue, also when others register
\* behind them.
NoneSkipped ==
    ~clash /\ pc = "erase" =>
        \A j \in DOMAIN eventList :
            eventList[j].srvToken \in known /\ Wanted(eventList[j], entry) =>
                eventList[j].srvToken \in tried

\* Under the same condition, only subscribers that refused are dropped.
OnlyRefusedDropped == ~clash => dropped = {}

\* Every event that was queued is taken off the queue in the end, also when the
\* subscribers never process what they are sent.
EventsDrain == []<>(notifyEvent = <<>>)

=============================================================================
