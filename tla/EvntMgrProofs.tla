--------------------------- MODULE EvntMgrProofs ---------------------------
(***************************************************************************)
(* Proofs about ADEvntMgr, for any number of subscribers, subscriptions    *)
(* and events.  Each invariant is inductive together with those before it: *)
(*   TypeInv      types, with the locals that are set in each place;       *)
(*   CountInv     posts are at most events, entries at most tokens;        *)
(*   TokenInv     tokens grow along eventList, and behind the one at work; *)
(*   QueueInv     events are numbered in the order of the queue, and the   *)
(*                notify thread works on the front;                        *)
(*   PastInv      what a subscriber was sent is older than what is queued, *)
(*                or of the event at work and of a token already passed;   *)
(*   OrderInv     what a subscriber was sent is in order;                  *)
(*   TargetInv, PassedInv, FlagInv: without an unsubscribe in the loop,    *)
(*                the entry at work is the i-th, those before it were      *)
(*                tried, and the flagged ones refused.                     *)
(***************************************************************************)
EXTENDS EvntMgr, ContainerProofs

\* The provers that every leaf is given to.
USE ZenonT(1), SMTT(20), Zenon

Msg == [id : 1..MaxNotify, token : 1..MaxToken]
Loop == pc \in {"scan", "connect", "rpc", "erase"}
AtWork == pc \in {"connect", "rpc"}

TypeInv ==
    /\ eventList \in Seq(Entry)
    /\ AckToken \in 0..MaxToken
    /\ notifyEvent \in Seq(Notice)
    /\ notifySem \in Nat
    /\ req \in {"idle", "wakeup"}
    /\ pc \in {"wait", "test", "scan", "connect", "rpc", "erase"}
    /\ i \in Nat
    /\ entry \in Notice \cup {None}
    /\ target \in Entry \cup {NoEntry}
    /\ listening \subseteq Subscriber
    /\ awake \subseteq listening
    /\ processEvent \in [Subscriber -> Seq(Msg)]
    /\ processSem \in [Subscriber -> Nat]
    /\ received \in [Subscriber -> Seq(Msg)]
    /\ notified \in 0..MaxNotify
    /\ clash \in BOOLEAN
    /\ Loop => entry \in Notice /\ i >= 1 /\ notifyEvent # <<>>
    /\ AtWork => target \in Entry

CountInv ==
    /\ notifySem + (IF req = "wakeup" THEN 1 ELSE 0) <= notified
    /\ Len(eventList) <= AckToken
    /\ i <= MaxToken + 1
    /\ AtWork => i <= MaxToken

TokenInv ==
    /\ \A j \in 1..Len(eventList) : eventList[j].srvToken <= AckToken
    /\ \A j, k \in 1..Len(eventList) :
         j < k => eventList[j].srvToken < eventList[k].srvToken
    /\ AtWork =>
         /\ target.srvToken <= AckToken
         /\ \A k \in 1..Len(eventList) : i < k => target.srvToken < eventList[k].srvToken

QueueInv ==
    /\ \A j \in 1..Len(notifyEvent) : notifyEvent[j].id <= notified
    /\ \A j, k \in 1..Len(notifyEvent) : j < k => notifyEvent[j].id < notifyEvent[k].id
    /\ Loop => entry = notifyEvent[1]

\* What subscriber s was sent and has not lost, in the order of sending.
Heard(s) == received[s] \o processEvent[s]

\* Message m is older than all that is queued, or of the event at work and of
\* a subscription that the loop has passed.
Past(m) ==
    /\ m.id <= notified /\ m.token <= AckToken
    /\ \A j \in 1..Len(notifyEvent) :
         m.id < notifyEvent[j].id \/ (Loop /\ j = 1 /\ m.id = entry.id)
    /\ Loop /\ m.id = entry.id =>
         /\ pc = "scan" => \A k \in 1..Len(eventList) :
                                i <= k => m.token < eventList[k].srvToken
         /\ AtWork => m.token < target.srvToken

PastInv == \A s \in Subscriber : \A n \in 1..Len(Heard(s)) : Past(Heard(s)[n])

\* In sequence q, the messages of a token come in the order of their events.
InOrderPerToken(q) ==
    \A j, k \in 1..Len(q) : j < k /\ q[j].token = q[k].token => q[j].id < q[k].id

OrderInv == \A s \in Subscriber : InOrderPerToken(Heard(s))

TargetInv == ~clash /\ AtWork => i <= Len(eventList) /\ target = eventList[i]

PassedInv ==
    /\ known \subseteq 0..AckToken
    /\ pc = "rpc" => target.srvToken \in tried
    /\ ~clash /\ Loop => \A j \in 1..Len(eventList) :
         /\ j < i \/ pc = "erase"
         /\ eventList[j].srvToken \in known
         /\ Wanted(eventList[j], entry)
         => eventList[j].srvToken \in tried

FlagInv ==
    ~clash => \A j \in 1..Len(eventList) :
        eventList[j].deleteFlag => Loop /\ eventList[j].srvToken \in refused
-----------------------------------------------------------------------------
(* Types                                                                   *)

\* The two threads and the subscribers keep every variable in its type, and
\* the notify thread's locals are set where they are read.
LEMMA TypeNext == TypeInv /\ [Next]_vars => TypeInv'
<1> SUFFICES ASSUME TypeInv, [Next]_vars PROVE TypeInv'
  OBVIOUS
<1> USE BoundAssumption DEF TypeInv, Loop, AtWork
<1>1. ASSUME NEW s \in Subscriber, NEW n \in Event \cup {All},
             RegisterEventSubscription(s, n)
      PROVE  TypeInv'
  <2>1. [srvToken |-> AckToken + 1, clt |-> s, eventNum |-> n, deleteFlag |-> FALSE] \in Entry
    BY <1>1 DEF RegisterEventSubscription, Entry
  <2>2. eventList' \in Seq(Entry)
    BY <1>1, <2>1 DEF RegisterEventSubscription
  <2> QED  BY <1>1, <2>2 DEF RegisterEventSubscription, thread, client, history
<1>2. ASSUME NEW t \in Tokens(eventList), UnregisterEventSubscription(t)
      PROVE  TypeInv'
  <2>1. eventList' \in Seq(Entry)
    BY <1>2, RemoveIf DEF UnregisterEventSubscription
  <2> QED  BY <1>2, <2>1 DEF UnregisterEventSubscription, thread, client
<1>3. ASSUME NEW n \in Event, NotifyEvent(n)
      PROVE  TypeInv'
  <2>1. [eventNum |-> n, id |-> notified + 1] \in Notice
    BY <1>3 DEF NotifyEvent, Notice
  <2>2. notifyEvent' = Append(notifyEvent, [eventNum |-> n, id |-> notified + 1])
    BY <1>3 DEF NotifyEvent
  <2>3. notifyEvent' \in Seq(Notice) /\ notifyEvent' # <<>>
    BY <2>1, <2>2, PushBack
  <2> QED  BY <1>3, <2>3 DEF NotifyEvent, thread, client
<1>4. CASE WakeupThread
  BY <1>4 DEF WakeupThread, thread, client, history
<1>5. CASE SemWait
  BY <1>5 DEF SemWait, client, history
<1>6. CASE NextEvent
  <2>1. notifyEvent # <<>> => Head(notifyEvent) \in Notice
    OBVIOUS
  <2> QED  BY <1>6, <2>1 DEF NextEvent, client
<1>7. CASE Scan
  <2>1. Len(eventList) \in Nat
    OBVIOUS
  <2>2. i <= Len(eventList) => eventList[i] \in Entry
    BY <1>7, <2>1, ElementOfSeq DEF Scan
  <2> QED  BY <1>7, <2>2 DEF Scan, client, history
<1>8. CASE SendEventConnect
  <2>1. CASE target.clt \in listening
    BY <1>8, <2>1 DEF SendEventConnect, client
  <2>2. CASE target.clt \notin listening
    <3>1. Len(eventList) \in Nat /\ DOMAIN eventList = 1..Len(eventList)
      OBVIOUS
    <3>2. \A e \in Entry : [e EXCEPT !.deleteFlag = TRUE] \in Entry
      BY DEF Entry
    <3>3. \A j \in 1..Len(eventList) : eventList[j] \in Entry
      BY ElementOfSeq
    <3>4. eventList' = [j \in 1..Len(eventList) |->
            IF j = i THEN [eventList[j] EXCEPT !.deleteFlag = TRUE] ELSE eventList[j]]
      BY <1>8, <2>2, <3>1 DEF SendEventConnect
    <3>5. \A j \in 1..Len(eventList) :
            (IF j = i THEN [eventList[j] EXCEPT !.deleteFlag = TRUE] ELSE eventList[j])
                \in Entry
      BY <3>2, <3>3, Zenon
    <3>6. eventList' \in Seq(Entry)
      BY <3>1, <3>4, <3>5
    <3> QED  BY <1>8, <2>2, <3>6 DEF SendEventConnect, client
  <2> QED  BY <2>1, <2>2
<1>9. CASE SendEventProcess
  <2>1. target \in Entry /\ target.clt \in Subscriber
    BY <1>9 DEF SendEventProcess, Entry
  <2>2. [id |-> entry.id, token |-> target.srvToken] \in Msg
    BY <1>9, <2>1 DEF SendEventProcess, Entry, Notice, Msg
  <2>3. Append(processEvent[target.clt], [id |-> entry.id, token |-> target.srvToken])
            \in Seq(Msg)
    BY <2>1, <2>2
  <2>4. processEvent' \in [Subscriber -> Seq(Msg)]
    BY <1>9, <2>1, <2>3 DEF SendEventProcess
  <2>5. processSem' \in [Subscriber -> Nat]
    <3>1. processSem[target.clt] + 1 \in Nat
      BY <2>1
    <3> QED  BY <1>9, <2>1, <3>1 DEF SendEventProcess
  <2> QED  BY <1>9, <2>4, <2>5 DEF SendEventProcess, history
<1>10. CASE Erase
  <2>1. eventList' \in Seq(Entry)
    BY <1>10, RemoveIf DEF Erase
  <2>2. notifyEvent' \in Seq(Notice)
    BY <1>10 DEF Erase
  <2> QED  BY <1>10, <2>1, <2>2 DEF Erase, client
<1>11. ASSUME NEW s \in Subscriber, ProcessSemWait(s)
       PROVE  TypeInv'
  BY <1>11 DEF ProcessSemWait, thread, history
<1>12. ASSUME NEW s \in Subscriber, ReceiveEvents(s)
       PROVE  TypeInv'
  <2>1. CASE processEvent[s] # <<>>
    <3>1. /\ Head(processEvent[s]) \in Msg
          /\ Tail(processEvent[s]) \in Seq(Msg)
      BY <2>1
    <3>2. Append(received[s], Head(processEvent[s])) \in Seq(Msg)
      BY <3>1
    <3> QED  BY <1>12, <2>1, <3>1, <3>2 DEF ReceiveEvents, thread, history
  <2>2. CASE processEvent[s] = <<>>
    BY <1>12, <2>2 DEF ReceiveEvents, thread, history
  <2> QED  BY <2>1, <2>2
<1>13. ASSUME NEW s \in Subscriber, GoAway(s)
       PROVE  TypeInv'
  <2>1. <<>> \in Seq(Msg)  OBVIOUS
  <2> QED  BY <1>13, <2>1 DEF GoAway, thread, history
<1>14. ASSUME NEW s \in Subscriber, ComeBack(s)
       PROVE  TypeInv'
  BY <1>14 DEF ComeBack, thread, history
<1>15. CASE UNCHANGED vars
  BY <1>15 DEF vars, thread, client, history
<1> QED
  BY <1>1, <1>2, <1>3, <1>4, <1>5, <1>6, <1>7, <1>8, <1>9, <1>10, <1>11, <1>12,
     <1>13, <1>14, <1>15 DEF Next, NotifyThread
-----------------------------------------------------------------------------
(* Bounds, and the wakeup                                                  *)

\* A subscriber's own steps touch nothing of the service.
LEMMA ClientStep ==
    ASSUME NEW s \in Subscriber,
           ProcessSemWait(s) \/ ReceiveEvents(s) \/ GoAway(s) \/ ComeBack(s)
    PROVE  UNCHANGED <<eventList, AckToken, notifyEvent, notifySem, req, thread, history>>
BY DEF ProcessSemWait, ReceiveEvents, GoAway, ComeBack

\* Every post of the semaphore belongs to an event, and every entry to a token;
\* so the scan stays within MaxToken entries.
LEMMA CountNext == TypeInv /\ CountInv /\ [Next]_vars => CountInv'
<1> SUFFICES ASSUME TypeInv, CountInv, [Next]_vars PROVE CountInv'
  OBVIOUS
<1> USE BoundAssumption DEF CountInv, AtWork
<1>0. /\ Len(eventList) \in Nat /\ AckToken \in 0..MaxToken /\ i \in Nat
      /\ notifySem \in Nat /\ notified \in 0..MaxNotify
  BY DEF TypeInv
<1>1. ASSUME NEW s \in Subscriber, NEW n \in Event \cup {All},
             RegisterEventSubscription(s, n)
      PROVE  CountInv'
  <2>1. Len(eventList') = Len(eventList) + 1
    BY <1>1 DEF RegisterEventSubscription, TypeInv
  <2> QED  BY <1>0, <1>1, <2>1 DEF RegisterEventSubscription, thread, history
<1>2. ASSUME NEW t \in Tokens(eventList), UnregisterEventSubscription(t)
      PROVE  CountInv'
  <2>1. Len(eventList') <= Len(eventList) /\ Len(eventList') \in Nat
    BY <1>2, RemoveIf DEF UnregisterEventSubscription, TypeInv
  <2> QED  BY <1>0, <1>2, <2>1 DEF UnregisterEventSubscription, thread
<1>3. ASSUME NEW n \in Event, NotifyEvent(n)
      PROVE  CountInv'
  BY <1>0, <1>3 DEF NotifyEvent, thread
<1>4. CASE WakeupThread
  BY <1>0, <1>4 DEF WakeupThread, thread, history
<1>5. CASE SemWait
  BY <1>0, <1>5 DEF SemWait, history
<1>6. CASE NextEvent
  BY <1>0, <1>6 DEF NextEvent
<1>7. CASE Scan
  BY <1>0, <1>7 DEF Scan, history
<1>8. CASE SendEventConnect
  <2>1. Len(eventList') = Len(eventList)
    BY <1>8, <1>0 DEF SendEventConnect, TypeInv
  <2> QED  BY <1>0, <1>8, <2>1 DEF SendEventConnect
<1>9. CASE SendEventProcess
  BY <1>0, <1>9 DEF SendEventProcess, history
<1>10. CASE Erase
  <2>1. Len(eventList') <= Len(eventList) /\ Len(eventList') \in Nat
    BY <1>10, RemoveIf DEF Erase, TypeInv
  <2> QED  BY <1>0, <1>10, <2>1 DEF Erase
<1>11. ASSUME NEW s \in Subscriber,
              ProcessSemWait(s) \/ ReceiveEvents(s) \/ GoAway(s) \/ ComeBack(s)
       PROVE  CountInv'
  BY <1>11, ClientStep DEF thread, history
<1>12. CASE UNCHANGED vars
  BY <1>12 DEF vars, thread, history
<1> QED
  BY <1>1, <1>2, <1>3, <1>4, <1>5, <1>6, <1>7, <1>8, <1>9, <1>10, <1>11, <1>12
  DEF Next, NotifyThread

\* The invariants hold before the first step.
LEMMA TypeInit == Init => TypeInv /\ CountInv
<1> SUFFICES ASSUME Init PROVE TypeInv /\ CountInv
  OBVIOUS
<1>1. <<>> \in Seq(Entry) /\ <<>> \in Seq(Notice) /\ <<>> \in Seq(Msg) /\ Len(<<>>) = 0
  OBVIOUS
<1>2. processEvent \in [Subscriber -> Seq(Msg)] /\ received \in [Subscriber -> Seq(Msg)]
  BY <1>1 DEF Init
<1>3. processSem \in [Subscriber -> Nat]
  BY DEF Init
<1>4. AckToken \in 0..MaxToken /\ notified \in 0..MaxNotify /\ notifySem \in Nat /\ i \in Nat
  BY BoundAssumption DEF Init
<1>5. TypeInv
  BY <1>1, <1>2, <1>3, <1>4 DEF Init, TypeInv, Loop, AtWork
<1>6. CountInv
  BY <1>1, BoundAssumption DEF Init, CountInv, AtWork
<1> QED  BY <1>5, <1>6

\* TypeOK, with its bounds on the semaphore and on the scan, holds for every
\* number of tokens and events.
THEOREM TypesOfEvntMgr == Spec => []TypeOK
<1>1. TypeInv /\ CountInv => TypeOK
  <2> SUFFICES ASSUME TypeInv, CountInv PROVE TypeOK
    OBVIOUS
  <2>1. notifySem \in 0..MaxNotify /\ i \in 0..(MaxToken + 1)
    BY BoundAssumption DEF TypeInv, CountInv
  <2> QED  BY <2>1 DEF TypeInv, TypeOK, Msg
<1> QED  BY <1>1, TypeInit, TypeNext, CountNext, PTL DEF Spec

\* notify_event fills the queue before it posts the semaphore, and the loop
\* ends only with the queue empty; so no event waits for a thread that sleeps.
THEOREM WakeupNotLost == Spec => []NoLostWakeup
<1>1. Init => NoLostWakeup
  BY DEF Init, NoLostWakeup
<1>2. TypeInv /\ NoLostWakeup /\ [Next]_vars => NoLostWakeup'
  <2> SUFFICES ASSUME TypeInv, NoLostWakeup, [Next]_vars PROVE NoLostWakeup'
    OBVIOUS
  <2> USE DEF NoLostWakeup
  <2>1. ASSUME NEW s \in Subscriber, NEW n \in Event \cup {All},
               RegisterEventSubscription(s, n)
        PROVE  NoLostWakeup'
    BY <2>1 DEF RegisterEventSubscription, thread
  <2>2. ASSUME NEW t \in Tokens(eventList), UnregisterEventSubscription(t)
        PROVE  NoLostWakeup'
    BY <2>2 DEF UnregisterEventSubscription, thread
  <2>3. ASSUME NEW n \in Event, NotifyEvent(n)
        PROVE  NoLostWakeup'
    BY <2>3 DEF NotifyEvent
  <2>4. CASE WakeupThread
    BY <2>4 DEF WakeupThread, TypeInv
  <2>5. CASE SemWait
    BY <2>5 DEF SemWait
  <2>6. CASE NextEvent
    BY <2>6 DEF NextEvent
  <2>7. CASE Scan \/ SendEventConnect \/ SendEventProcess \/ Erase
    BY <2>7 DEF Scan, SendEventConnect, SendEventProcess, Erase
  <2>8. ASSUME NEW s \in Subscriber,
               ProcessSemWait(s) \/ ReceiveEvents(s) \/ GoAway(s) \/ ComeBack(s)
        PROVE  NoLostWakeup'
    BY <2>8, ClientStep DEF thread
  <2>9. CASE UNCHANGED vars
    BY <2>9 DEF vars, thread
  <2> QED
    BY <2>1, <2>2, <2>3, <2>4, <2>5, <2>6, <2>7, <2>8, <2>9 DEF Next, NotifyThread
<1> QED  BY <1>1, <1>2, TypeInit, TypeNext, PTL DEF Spec
-----------------------------------------------------------------------------
(* Tokens                                                                  *)

\* What the elements of eventList are.
LEMMA Entries ==
    ASSUME TypeInv
    PROVE  /\ Len(eventList) \in Nat /\ DOMAIN eventList = 1..Len(eventList)
           /\ \A j \in 1..Len(eventList) :
                eventList[j] \in Entry /\ eventList[j].srvToken \in 1..MaxToken
<1>1. Len(eventList) \in Nat /\ DOMAIN eventList = 1..Len(eventList)
  BY DEF TypeInv
<1>2. \A j \in 1..Len(eventList) : eventList[j] \in Entry
  BY ElementOfSeq DEF TypeInv
<1>3. \A e \in Entry : e.srvToken \in 1..MaxToken
  BY DEF Entry
<1> QED  BY <1>1, <1>2, <1>3

\* Taking entries out keeps the others, in their order.
LEMMA Removal ==
    ASSUME TypeInv, NEW Gone, eventList' \in remove_if(eventList, Gone)
    PROVE  /\ Len(eventList') \in Nat
           /\ \E f \in [1..Len(eventList') -> 1..Len(eventList)] :
                /\ \A j \in 1..Len(eventList') :
                     eventList'[j] = eventList[f[j]] /\ f[j] \notin Gone /\ j <= f[j]
                /\ \A j, k \in 1..Len(eventList') : j < k => f[j] < f[k]
                /\ \A k \in 1..Len(eventList) :
                     k \notin Gone => \E j \in 1..Len(eventList') : f[j] = k
<1>1. eventList \in Seq(Entry)
  BY DEF TypeInv
<1>2. eventList' \in Seq(Entry)
  BY <1>1, RemoveIf
<1>3. Len(eventList') \in Nat
  BY <1>2
<1>4. \E f \in [1..Len(eventList') -> 1..Len(eventList)] :
        /\ \A j \in 1..Len(eventList') :
             eventList'[j] = eventList[f[j]] /\ f[j] \notin Gone /\ j <= f[j]
        /\ \A j, k \in 1..Len(eventList') : j < k => f[j] < f[k]
        /\ \A k \in 1..Len(eventList) :
             k \notin Gone => \E j \in 1..Len(eventList') : f[j] = k
  BY <1>1, RemoveIf
<1> QED  BY <1>3, <1>4

\* A refused connection changes the flag of the i-th entry and nothing else.
LEMMA Flagging ==
    ASSUME TypeInv, SendEventConnect
    PROVE  /\ Len(eventList') = Len(eventList)
           /\ \A j \in 1..Len(eventList) :
                /\ eventList'[j].srvToken = eventList[j].srvToken
                /\ eventList'[j].clt = eventList[j].clt
                /\ eventList'[j].eventNum = eventList[j].eventNum
                /\ eventList'[j].deleteFlag =>
                     eventList[j].deleteFlag \/ (j = i /\ target.clt \notin listening)
<1>1. /\ Len(eventList) \in Nat /\ DOMAIN eventList = 1..Len(eventList)
      /\ \A j \in 1..Len(eventList) : eventList[j] \in Entry
  BY Entries
<1>2. CASE target.clt \in listening
  BY <1>2 DEF SendEventConnect
<1>3. CASE target.clt \notin listening
  <2>1. eventList' = [j \in 1..Len(eventList) |->
          IF j = i THEN [eventList[j] EXCEPT !.deleteFlag = TRUE] ELSE eventList[j]]
    BY <1>1, <1>3 DEF SendEventConnect
  <2>2. Len(eventList') = Len(eventList)
    BY <1>1, <2>1
  <2>3. \A e \in Entry : LET d == [e EXCEPT !.deleteFlag = TRUE] IN
          d.srvToken = e.srvToken /\ d.clt = e.clt /\ d.eventNum = e.eventNum
    BY DEF Entry
  <2> QED  BY <1>1, <1>3, <2>1, <2>2, <2>3
<1> QED  BY <1>2, <1>3

\* Tokens grow along eventList, and those behind the entry at work are larger
\* than its own, unsubscribes notwithstanding.
LEMMA TokenNext == TypeInv /\ TokenInv /\ [Next]_vars => TokenInv'
<1> SUFFICES ASSUME TypeInv, TokenInv, [Next]_vars PROVE TokenInv'
  OBVIOUS
<1> USE BoundAssumption DEF TokenInv, AtWork
<1>0. /\ Len(eventList) \in Nat /\ AckToken \in Nat /\ i \in Nat
      /\ \A j \in 1..Len(eventList) :
            eventList[j] \in Entry /\ eventList[j].srvToken \in Nat
      /\ AtWork => target.srvToken \in Nat
  <2>1. \A e \in Entry : e.srvToken \in Nat
    BY DEF Entry
  <2>2. AckToken \in Nat /\ i \in Nat /\ (AtWork => target \in Entry)
    BY DEF TypeInv
  <2> QED  BY <2>1, <2>2, Entries
<1>1. ASSUME NEW s \in Subscriber, NEW n \in Event \cup {All},
             RegisterEventSubscription(s, n)
      PROVE  TokenInv'
  <2> DEFINE e == [srvToken |-> AckToken + 1, clt |-> s, eventNum |-> n, deleteFlag |-> FALSE]
  <2>1. eventList' = Append(eventList, e) /\ e.srvToken = AckToken + 1 /\ e \in Entry
    BY <1>1 DEF RegisterEventSubscription, TypeInv, Entry
  <2> HIDE DEF e
  <2>2. /\ Len(eventList') = Len(eventList) + 1
        /\ \A j \in 1..Len(eventList) : eventList'[j] = eventList[j]
        /\ eventList'[Len(eventList) + 1] = e
    BY <2>1, PushBack DEF TypeInv
  <2>3. AckToken' = AckToken + 1 /\ UNCHANGED <<pc, i, target>>
    BY <1>1 DEF RegisterEventSubscription, thread
  <2>4. \A j \in 1..Len(eventList') :
          \/ j \in 1..Len(eventList) /\ eventList'[j] = eventList[j]
          \/ j = Len(eventList) + 1 /\ eventList'[j].srvToken = AckToken + 1
    BY <1>0, <2>1, <2>2
  <2>5. \A j, k \in 1..Len(eventList') :
          j < k => eventList'[j].srvToken < eventList'[k].srvToken
    BY <1>0, <2>4, <2>2
  <2>6. ASSUME NEW j \in 1..Len(eventList')
        PROVE  eventList'[j].srvToken <= AckToken + 1
    <3>1. CASE j \in 1..Len(eventList) /\ eventList'[j] = eventList[j]
      BY <1>0, <3>1
    <3>2. CASE eventList'[j].srvToken = AckToken + 1
      BY <1>0, <3>2
    <3> QED  BY <2>4, <3>1, <3>2
  <2>7. ASSUME AtWork'
        PROVE  /\ target'.srvToken <= AckToken'
               /\ \A k \in 1..Len(eventList') : i' < k =>
                    target'.srvToken < eventList'[k].srvToken
    <3>1. AtWork /\ i' = i /\ target' = target
      BY <2>3, <2>7
    <3> QED  BY <1>0, <2>2, <2>3, <2>4, <3>1
  <2> QED  BY <2>3, <2>5, <2>6, <2>7
<1>2. ASSUME NEW t \in Tokens(eventList), UnregisterEventSubscription(t)
      PROVE  TokenInv'
  <2>1. /\ Len(eventList') \in Nat
        /\ \E f \in [1..Len(eventList') -> 1..Len(eventList)] :
             /\ \A j \in 1..Len(eventList') : eventList'[j] = eventList[f[j]] /\ j <= f[j]
             /\ \A j, k \in 1..Len(eventList') : j < k => f[j] < f[k]
    BY <1>2, Removal DEF UnregisterEventSubscription
  <2>2. PICK f \in [1..Len(eventList') -> 1..Len(eventList)] :
          /\ \A j \in 1..Len(eventList') : eventList'[j] = eventList[f[j]] /\ j <= f[j]
          /\ \A j, k \in 1..Len(eventList') : j < k => f[j] < f[k]
    BY <2>1
  <2>3. UNCHANGED <<AckToken, pc, i, target>>
    BY <1>2 DEF UnregisterEventSubscription, thread
  <2>4. \A j \in 1..Len(eventList') : eventList'[j].srvToken <= AckToken'
    BY <1>0, <2>2, <2>3
  <2>5. ASSUME NEW j \in 1..Len(eventList'), NEW k \in 1..Len(eventList'), j < k
        PROVE  eventList'[j].srvToken < eventList'[k].srvToken
    <3>1. f[j] \in 1..Len(eventList) /\ f[k] \in 1..Len(eventList) /\ f[j] < f[k]
      BY <2>2, <2>5
    <3> QED  BY <2>2, <3>1
  <2>6. ASSUME AtWork, NEW k \in 1..Len(eventList'), i < k
        PROVE  target.srvToken < eventList'[k].srvToken
    <3>1. f[k] \in 1..Len(eventList) /\ i < f[k] /\ eventList'[k] = eventList[f[k]]
      BY <1>0, <2>1, <2>2, <2>6
    <3>2. \A l \in 1..Len(eventList) : i < l => target.srvToken < eventList[l].srvToken
      BY <2>6
    <3> QED  BY <3>1, <3>2
  <2> QED  BY <2>3, <2>4, <2>5, <2>6
<1>3. ASSUME NEW n \in Event, NotifyEvent(n)
      PROVE  TokenInv'
  BY <1>3 DEF NotifyEvent, thread
<1>4. CASE WakeupThread
  BY <1>4 DEF WakeupThread, thread
<1>5. CASE SemWait \/ NextEvent
  BY <1>5 DEF SemWait, NextEvent
<1>6. CASE Scan
  BY <1>0, <1>6 DEF Scan, TypeInv, Loop
<1>7. CASE SendEventConnect
  <2>1. UNCHANGED AckToken /\ (AtWork' => UNCHANGED <<i, target>>) /\ AtWork
    BY <1>7 DEF SendEventConnect
  <2> QED  BY <1>0, <1>7, <2>1, Flagging
<1>8. CASE SendEventProcess
  BY <1>8 DEF SendEventProcess
<1>9. CASE Erase
  <2>1. PICK f \in [1..Len(eventList') -> 1..Len(eventList)] :
          /\ \A j \in 1..Len(eventList') : eventList'[j] = eventList[f[j]]
          /\ \A j, k \in 1..Len(eventList') : j < k => f[j] < f[k]
    BY <1>9, Removal DEF Erase
  <2>2. UNCHANGED AckToken /\ ~AtWork'
    BY <1>9 DEF Erase
  <2>3. \A j \in 1..Len(eventList') : eventList'[j].srvToken <= AckToken'
    BY <1>0, <2>1, <2>2
  <2>4. ASSUME NEW j \in 1..Len(eventList'), NEW k \in 1..Len(eventList'), j < k
        PROVE  eventList'[j].srvToken < eventList'[k].srvToken
    <3>1. f[j] \in 1..Len(eventList) /\ f[k] \in 1..Len(eventList) /\ f[j] < f[k]
      BY <2>1, <2>4
    <3> QED  BY <2>1, <3>1
  <2> QED  BY <2>2, <2>3, <2>4
<1>10. ASSUME NEW s \in Subscriber,
              ProcessSemWait(s) \/ ReceiveEvents(s) \/ GoAway(s) \/ ComeBack(s)
       PROVE  TokenInv'
  BY <1>10, ClientStep DEF thread
<1>11. CASE UNCHANGED vars
  BY <1>11 DEF vars, thread
<1> QED
  BY <1>1, <1>2, <1>3, <1>4, <1>5, <1>6, <1>7, <1>8, <1>9, <1>10, <1>11
  DEF Next, NotifyThread

\* Events are numbered in the order of the queue; the notify thread works on
\* its front, which only it takes off.
LEMMA QueueNext == TypeInv /\ QueueInv /\ [Next]_vars => QueueInv'
<1> SUFFICES ASSUME TypeInv, QueueInv, [Next]_vars PROVE QueueInv'
  OBVIOUS
<1> USE DEF QueueInv, Loop
<1>0. /\ Len(notifyEvent) \in Nat /\ notified \in Nat
      /\ \A j \in 1..Len(notifyEvent) : notifyEvent[j].id \in Nat
  <2>1. \A e \in Notice : e.id \in Nat
    BY BoundAssumption DEF Notice
  <2>2. \A j \in 1..Len(notifyEvent) : notifyEvent[j] \in Notice
    BY ElementOfSeq DEF TypeInv
  <2> QED  BY <2>1, <2>2, BoundAssumption DEF TypeInv
<1>1. ASSUME NEW s \in Subscriber, NEW n \in Event \cup {All},
             RegisterEventSubscription(s, n)
      PROVE  QueueInv'
  BY <1>1 DEF RegisterEventSubscription, thread, history
<1>2. ASSUME NEW t \in Tokens(eventList), UnregisterEventSubscription(t)
      PROVE  QueueInv'
  BY <1>2 DEF UnregisterEventSubscription, thread
<1>3. ASSUME NEW n \in Event, NotifyEvent(n)
      PROVE  QueueInv'
  <2> DEFINE e == [eventNum |-> n, id |-> notified + 1]
  <2>1. notifyEvent' = Append(notifyEvent, e) /\ e \in Notice /\ e.id = notified + 1
    BY <1>3, BoundAssumption DEF NotifyEvent, TypeInv, Notice
  <2> HIDE DEF e
  <2>2. /\ Len(notifyEvent') = Len(notifyEvent) + 1
        /\ \A j \in 1..Len(notifyEvent) : notifyEvent'[j] = notifyEvent[j]
        /\ notifyEvent'[Len(notifyEvent) + 1] = e
    BY <2>1, PushBack DEF TypeInv
  <2>3. notified' = notified + 1 /\ UNCHANGED <<pc, entry>>
    BY <1>3 DEF NotifyEvent, thread
  <2>4. Loop => 1 \in 1..Len(notifyEvent)
    BY DEF TypeInv
  <2> QED  BY <1>0, <2>1, <2>2, <2>3, <2>4
<1>4. CASE WakeupThread
  BY <1>4 DEF WakeupThread, thread, history
<1>5. CASE SemWait
  BY <1>5 DEF SemWait, history
<1>6. CASE NextEvent
  BY <1>6 DEF NextEvent
<1>7. CASE Scan \/ SendEventConnect \/ SendEventProcess
  BY <1>7 DEF Scan, SendEventConnect, SendEventProcess, history
<1>8. CASE Erase
  <2>1. /\ Len(notifyEvent') = Len(notifyEvent) - 1
        /\ \A j \in 1..Len(notifyEvent') : notifyEvent'[j] = notifyEvent[j + 1]
    BY <1>8 DEF Erase, TypeInv
  <2>2. pc' = "test" /\ UNCHANGED notified
    BY <1>8 DEF Erase
  <2>3. \A j \in 1..Len(notifyEvent') : j + 1 \in 1..Len(notifyEvent)
    BY <1>0, <2>1
  <2>4. \A j, k \in 1..Len(notifyEvent') : j < k => notifyEvent'[j].id < notifyEvent'[k].id
    <3> SUFFICES ASSUME NEW j \in 1..Len(notifyEvent'), NEW k \in 1..Len(notifyEvent'), j < k
                 PROVE  notifyEvent[j + 1].id < notifyEvent[k + 1].id
      BY <2>1
    <3>1. j + 1 < k + 1
      BY <1>0, <2>1
    <3> QED  BY <2>3, <3>1
  <2> QED  BY <1>0, <2>1, <2>2, <2>3, <2>4
<1>9. ASSUME NEW s \in Subscriber,
             ProcessSemWait(s) \/ ReceiveEvents(s) \/ GoAway(s) \/ ComeBack(s)
      PROVE  QueueInv'
  BY <1>9, ClientStep DEF thread, history
<1>10. CASE UNCHANGED vars
  BY <1>10 DEF vars, thread, history
<1> QED
  BY <1>1, <1>2, <1>3, <1>4, <1>5, <1>6, <1>7, <1>8, <1>9, <1>10 DEF Next, NotifyThread
-----------------------------------------------------------------------------
(* What a subscriber hears                                                 *)

\* Messages are of their type.
LEMMA HeardType ==
    ASSUME TypeInv, NEW s \in Subscriber
    PROVE  /\ received[s] \in Seq(Msg) /\ processEvent[s] \in Seq(Msg)
           /\ Heard(s) \in Seq(Msg)
           /\ Len(Heard(s)) \in Nat
           /\ \A n \in 1..Len(Heard(s)) : Heard(s)[n] \in Msg
<1>1. received[s] \in Seq(Msg) /\ processEvent[s] \in Seq(Msg)
  BY DEF TypeInv
<1>2. Heard(s) \in Seq(Msg)
  BY <1>1 DEF Heard
<1> QED  BY <1>1, <1>2, ElementOfSeq

\* Moving the front of one queue to the back of the other changes nothing of
\* the two put together.
LEMMA MoveFront ==
    ASSUME NEW S, NEW p \in Seq(S), NEW q \in Seq(S), q # <<>>
    PROVE  Append(p, Head(q)) \o Tail(q) = p \o q
<1> DEFINE a == Append(p, Head(q)) \o Tail(q)
           b == p \o q
<1>1. Len(q) \in Nat \ {0} /\ Head(q) = q[1] /\ Len(p) \in Nat
  OBVIOUS
<1>2. /\ Head(q) \in S /\ Tail(q) \in Seq(S)
      /\ Len(Tail(q)) = Len(q) - 1
      /\ \A j \in 1..Len(Tail(q)) : Tail(q)[j] = q[j + 1]
  OBVIOUS
<1>3. /\ Append(p, Head(q)) \in Seq(S)
      /\ Len(Append(p, Head(q))) = Len(p) + 1
      /\ \A j \in 1..Len(p) : Append(p, Head(q))[j] = p[j]
      /\ Append(p, Head(q))[Len(p) + 1] = Head(q)
  BY <1>2, PushBack
<1>4. /\ a \in Seq(S) /\ Len(a) = Len(p) + Len(q)
      /\ \A j \in 1..(Len(p) + Len(q)) :
            a[j] = IF j <= Len(p) + 1 THEN Append(p, Head(q))[j] ELSE Tail(q)[j - (Len(p) + 1)]
  BY <1>1, <1>2, <1>3
<1>5. /\ b \in Seq(S) /\ Len(b) = Len(p) + Len(q)
      /\ \A j \in 1..(Len(p) + Len(q)) : b[j] = IF j <= Len(p) THEN p[j] ELSE q[j - Len(p)]
  OBVIOUS
<1>6. ASSUME NEW j \in 1..(Len(p) + Len(q)) PROVE a[j] = b[j]
  <2>1. CASE j <= Len(p)
    BY <1>1, <1>3, <1>4, <1>5, <2>1
  <2>2. CASE j = Len(p) + 1
    BY <1>1, <1>3, <1>4, <1>5, <2>2
  <2>3. CASE j > Len(p) + 1
    <3>1. j - (Len(p) + 1) \in 1..(Len(q) - 1) /\ (j - (Len(p) + 1)) + 1 = j - Len(p)
      BY <1>1, <2>3
    <3> QED  BY <1>1, <1>2, <1>4, <1>5, <2>3, <3>1
  <2> QED  BY <1>1, <2>1, <2>2, <2>3
<1> HIDE DEF a, b
<1>7. a = b
  BY <1>4, <1>5, <1>6, SeqEqual
<1> QED  BY <1>7 DEF a, b

\* Adding to the second of two queues adds to the two put together.
LEMMA ConcatPushBack ==
    ASSUME NEW S, NEW p \in Seq(S), NEW q \in Seq(S), NEW e \in S
    PROVE  p \o Append(q, e) = Append(p \o q, e)
<1>1. <<e>> \in Seq(S) /\ p \o q \in Seq(S)
  OBVIOUS
<1>2. Append(q, e) = q \o <<e>> /\ Append(p \o q, e) = (p \o q) \o <<e>>
  BY <1>1
<1>3. (p \o q) \o <<e>> = p \o (q \o <<e>>)
  BY <1>1
<1> QED  BY <1>2, <1>3

\* The first of two queues is where the two put together begin.
LEMMA ConcatPrefix ==
    ASSUME NEW S, NEW p \in Seq(S), NEW q \in Seq(S)
    PROVE  Len(p) <= Len(p \o q) /\ \A n \in 1..Len(p) : p[n] = (p \o q)[n]
<1>1. Len(p) \in Nat /\ Len(q) \in Nat
  OBVIOUS
<1>2. /\ Len(p \o q) = Len(p) + Len(q)
      /\ \A n \in 1..(Len(p) + Len(q)) :
            (p \o q)[n] = IF n <= Len(p) THEN p[n] ELSE q[n - Len(p)]
  OBVIOUS
<1> QED  BY <1>1, <1>2

\* The message SendEventProcess makes.
New == [id |-> entry.id, token |-> target.srvToken]

\* What a step does to what s has heard: some of its end is lost, or the event
\* at work is added.
LEMMA HeardNext ==
    ASSUME TypeInv, [Next]_vars, NEW s \in Subscriber
    PROVE  \/ /\ Len(Heard(s)') <= Len(Heard(s))
              /\ \A n \in 1..Len(Heard(s)') : Heard(s)'[n] = Heard(s)[n]
           \/ /\ SendEventProcess /\ New \in Msg
              /\ Heard(s)' = Append(Heard(s), New)
<1> DEFINE P == \/ /\ Len(Heard(s)') <= Len(Heard(s))
                   /\ \A n \in 1..Len(Heard(s)') : Heard(s)'[n] = Heard(s)[n]
                \/ /\ SendEventProcess /\ New \in Msg
                   /\ Heard(s)' = Append(Heard(s), New)
<1>0. /\ received[s] \in Seq(Msg) /\ processEvent[s] \in Seq(Msg)
      /\ Len(Heard(s)) \in Nat
  BY HeardType
<1>1. ASSUME Heard(s)' = Heard(s) PROVE P
  BY <1>0, <1>1
<1>2. ASSUME UNCHANGED <<received, processEvent>> PROVE P
  BY <1>1, <1>2 DEF Heard
<1>3. CASE SendEventProcess
  <2>1. New \in Msg /\ target.clt \in Subscriber
    BY <1>3 DEF SendEventProcess, TypeInv, AtWork, Loop, Entry, Notice, Msg, New
  <2>2. CASE target.clt = s /\ processEvent' # processEvent
    <3>1. received' = received /\ processEvent'[s] = Append(processEvent[s], New)
      BY <1>3, <2>2 DEF SendEventProcess, TypeInv, New
    <3>2. received[s] \o Append(processEvent[s], New) = Append(received[s] \o processEvent[s], New)
      <4> DEFINE p == received[s]
                 q == processEvent[s]
                 e == New
      <4>1. p \in Seq(Msg) /\ q \in Seq(Msg) /\ e \in Msg
        BY <1>0, <2>1
      <4> HIDE DEF p, q, e
      <4>2. p \o Append(q, e) = Append(p \o q, e)
        BY <4>1, ConcatPushBack
      <4> QED  BY <4>2 DEF p, q, e
    <3> QED  BY <1>3, <2>1, <3>1, <3>2 DEF Heard
  <2>3. CASE target.clt # s \/ processEvent' = processEvent
    <3>1. received'[s] = received[s] /\ processEvent'[s] = processEvent[s]
      BY <1>3, <2>3, <2>1 DEF SendEventProcess, TypeInv
    <3> QED  BY <1>1, <3>1 DEF Heard
  <2> QED  BY <2>2, <2>3
<1>4. ASSUME NEW u \in Subscriber, ReceiveEvents(u) PROVE P
  <2>1. CASE u = s /\ processEvent[s] # <<>>
    <3>1. /\ received'[s] = Append(received[s], Head(processEvent[s]))
          /\ processEvent'[s] = Tail(processEvent[s])
      BY <1>4, <2>1 DEF ReceiveEvents, TypeInv
    <3>2. Heard(s)' = Heard(s)
      BY <1>0, <2>1, <3>1, MoveFront DEF Heard
    <3> QED  BY <1>1, <3>2
  <2>2. CASE ~(u = s /\ processEvent[s] # <<>>)
    <3>1. received'[s] = received[s] /\ processEvent'[s] = processEvent[s]
      BY <1>4, <2>2 DEF ReceiveEvents, TypeInv
    <3> QED  BY <1>1, <3>1 DEF Heard
  <2> QED  BY <2>1, <2>2
<1>5. ASSUME NEW u \in Subscriber, GoAway(u) PROVE P
  <2>1. CASE u = s
    <3>1. received'[s] = received[s] /\ processEvent'[s] = <<>>
      BY <1>5, <2>1 DEF GoAway, TypeInv
    <3>2. Heard(s)' = received[s]
      BY <1>0, <3>1 DEF Heard
    <3>3. /\ Len(received[s]) <= Len(Heard(s))
          /\ \A n \in 1..Len(received[s]) : received[s][n] = Heard(s)[n]
      BY <1>0, ConcatPrefix DEF Heard
    <3> QED  BY <3>2, <3>3
  <2>2. CASE u # s
    <3>1. received'[s] = received[s] /\ processEvent'[s] = processEvent[s]
      BY <1>5, <2>2 DEF GoAway, TypeInv
    <3> QED  BY <1>1, <3>1 DEF Heard
  <2> QED  BY <2>1, <2>2
<1>6. CASE \/ \E u \in Subscriber, n \in Event \cup {All} : RegisterEventSubscription(u, n)
           \/ \E t \in Tokens(eventList) : UnregisterEventSubscription(t)
           \/ \E n \in Event : NotifyEvent(n)
           \/ WakeupThread \/ SemWait \/ NextEvent \/ Scan \/ SendEventConnect \/ Erase
           \/ \E u \in Subscriber : ProcessSemWait(u) \/ ComeBack(u)
           \/ UNCHANGED vars
  <2>1. UNCHANGED <<received, processEvent>>
    BY <1>6 DEF RegisterEventSubscription, UnregisterEventSubscription, NotifyEvent,
         WakeupThread, SemWait, NextEvent, Scan, SendEventConnect, Erase, ProcessSemWait,
         ComeBack, vars, client
  <2> QED  BY <1>2, <2>1
<1> QED  BY <1>3, <1>4, <1>5, <1>6 DEF Next, NotifyThread

\* A message that is past stays so: what is registered or notified later has a
\* larger token or number, and the loop only moves on.
LEMMA PastKept ==
    ASSUME TypeInv, TokenInv, QueueInv, [Next]_vars, NEW m \in Msg, Past(m)
    PROVE  Past(m)'
<1> USE DEF Past, Loop, AtWork
<1>0. /\ Len(eventList) \in Nat /\ AckToken \in Nat /\ i \in Nat /\ notified \in Nat
      /\ m.id \in Nat /\ m.token \in Nat
      /\ \A j \in 1..Len(eventList) : eventList[j].srvToken \in Nat
      /\ Len(notifyEvent) \in Nat
      /\ \A j \in 1..Len(notifyEvent) : notifyEvent[j].id \in Nat
      /\ AtWork => target.srvToken \in Nat
  <2>1. \A j \in 1..Len(eventList) : eventList[j].srvToken \in Nat
    BY Entries, BoundAssumption
  <2>2. \A j \in 1..Len(notifyEvent) : notifyEvent[j].id \in Nat
    <3>1. \A e \in Notice : e.id \in Nat
      BY BoundAssumption DEF Notice
    <3> QED  BY <3>1, ElementOfSeq DEF TypeInv
  <2>3. AtWork => target.srvToken \in Nat
    BY DEF TypeInv, Entry
  <2>4. m.id \in Nat /\ m.token \in Nat
    BY BoundAssumption DEF Msg
  <2> QED  BY <2>1, <2>2, <2>3, <2>4, BoundAssumption DEF TypeInv
<1>1. ASSUME NEW s \in Subscriber, NEW n \in Event \cup {All},
             RegisterEventSubscription(s, n)
      PROVE  Past(m)'
  <2> DEFINE e == [srvToken |-> AckToken + 1, clt |-> s, eventNum |-> n, deleteFlag |-> FALSE]
  <2>1. eventList' = Append(eventList, e) /\ e.srvToken = AckToken + 1 /\ e \in Entry
    BY <1>1, BoundAssumption DEF RegisterEventSubscription, TypeInv, Entry
  <2> HIDE DEF e
  <2>2. /\ Len(eventList') = Len(eventList) + 1
        /\ \A j \in 1..Len(eventList) : eventList'[j] = eventList[j]
        /\ eventList'[Len(eventList) + 1] = e
    BY <2>1, PushBack DEF TypeInv
  <2>3. AckToken' = AckToken + 1 /\ UNCHANGED <<pc, i, entry, target, notifyEvent, notified>>
    BY <1>1 DEF RegisterEventSubscription, thread, history
  <2>4. \A k \in 1..Len(eventList') : (k \in 1..Len(eventList) /\ eventList'[k] = eventList[k])
                                      \/ eventList'[k].srvToken = AckToken + 1
    BY <1>0, <2>1, <2>2
  <2>5. m.token <= AckToken + 1 /\ m.token < AckToken + 1
    BY <1>0
  <2>6. pc = "scan" /\ m.id = entry.id =>
          \A k \in 1..Len(eventList') : i <= k => m.token < eventList'[k].srvToken
    BY <2>4, <2>5
  <2> QED  BY <2>3, <2>5, <2>6
<1>2. ASSUME NEW t \in Tokens(eventList), UnregisterEventSubscription(t)
      PROVE  Past(m)'
  <2>1. Len(eventList') \in Nat
    BY <1>2, Removal DEF UnregisterEventSubscription
  <2>2. PICK f \in [1..Len(eventList') -> 1..Len(eventList)] :
          \A j \in 1..Len(eventList') : eventList'[j] = eventList[f[j]] /\ j <= f[j]
    BY <1>2, Removal DEF UnregisterEventSubscription
  <2>3. UNCHANGED <<AckToken, pc, i, entry, target, notifyEvent, notified>>
    BY <1>2 DEF UnregisterEventSubscription, thread
  <2>4. \A k \in 1..Len(eventList') : i <= k => i <= f[k]
    BY <1>0, <2>1, <2>2
  <2> QED  BY <1>0, <2>2, <2>3, <2>4
<1>3. ASSUME NEW n \in Event, NotifyEvent(n)
      PROVE  Past(m)'
  <2> DEFINE e == [eventNum |-> n, id |-> notified + 1]
  <2>1. notifyEvent' = Append(notifyEvent, e) /\ e \in Notice /\ e.id = notified + 1
    BY <1>3, BoundAssumption DEF NotifyEvent, TypeInv, Notice
  <2> HIDE DEF e
  <2>2. /\ Len(notifyEvent') = Len(notifyEvent) + 1
        /\ \A j \in 1..Len(notifyEvent) : notifyEvent'[j] = notifyEvent[j]
        /\ notifyEvent'[Len(notifyEvent) + 1] = e
    BY <2>1, PushBack DEF TypeInv
  <2>3. /\ notified' = notified + 1
        /\ UNCHANGED <<pc, entry, i, target, eventList, AckToken>>
    BY <1>3 DEF NotifyEvent, thread
  <2>4. \A j \in 1..Len(notifyEvent') :
          (j \in 1..Len(notifyEvent) /\ notifyEvent'[j] = notifyEvent[j])
          \/ notifyEvent'[j].id = notified + 1
    BY <1>0, <2>1, <2>2
  <2>5. m.id <= notified + 1 /\ m.id < notified + 1
    BY <1>0
  <2>6. \A j \in 1..Len(notifyEvent') :
          m.id < notifyEvent'[j].id \/ (Loop /\ j = 1 /\ m.id = entry.id)
    BY <2>4, <2>5
  <2> QED  BY <2>3, <2>5, <2>6
<1>4. CASE WakeupThread
  BY <1>4 DEF WakeupThread, thread, history
<1>5. CASE SemWait
  BY <1>5 DEF SemWait, history
<1>6. CASE NextEvent
  <2>1. UNCHANGED <<eventList, AckToken, notifyEvent, notified, target>>
    BY <1>6 DEF NextEvent
  <2>2. CASE notifyEvent = <<>>
    BY <1>6, <2>1, <2>2 DEF NextEvent
  <2>3. CASE notifyEvent # <<>>
    <3>1. 1 \in 1..Len(notifyEvent) /\ entry' = notifyEvent[1] /\ ~Loop
      BY <1>6, <2>3 DEF NextEvent, TypeInv
    <3>2. m.id < entry'.id
      BY <3>1
    <3> QED  BY <1>0, <2>1, <3>1, <3>2
  <2> QED  BY <2>2, <2>3
<1>7. CASE Scan
  <2>1. UNCHANGED <<eventList, AckToken, notifyEvent, notified, entry>>
    BY <1>7 DEF Scan, history
  <2>2. i >= 1
    BY <1>7 DEF Scan, TypeInv
  <2> QED  BY <1>0, <1>7, <2>1, <2>2 DEF Scan
<1>8. CASE SendEventConnect
  <2>1. UNCHANGED <<AckToken, notifyEvent, notified, entry>>
    BY <1>8 DEF SendEventConnect
  <2>2. CASE pc' = "rpc"
    BY <1>8, <2>1, <2>2 DEF SendEventConnect
  <2>3. CASE pc' = "scan" /\ i' = i + 1
    <3>1. \A k \in 1..Len(eventList') :
            k \in 1..Len(eventList) /\ eventList'[k].srvToken = eventList[k].srvToken
      BY <1>8, Flagging
    <3>2. \A k \in 1..Len(eventList) : i < k => target.srvToken < eventList[k].srvToken
      BY <1>8 DEF SendEventConnect, TokenInv
    <3>3. AtWork /\ (m.id = entry.id => m.token < target.srvToken)
      BY <1>8 DEF SendEventConnect
    <3>4. ASSUME m.id = entry.id, NEW k \in 1..Len(eventList'), i + 1 <= k
          PROVE  m.token < eventList'[k].srvToken
      <4>1. k \in 1..Len(eventList) /\ i < k
        BY <1>0, <3>1, <3>4
      <4>2. m.token < target.srvToken /\ target.srvToken < eventList[k].srvToken
        BY <3>2, <3>3, <3>4, <4>1
      <4> QED  BY <1>0, <3>1, <3>3, <4>1, <4>2
    <3>5. Loop
      BY <1>8 DEF SendEventConnect
    <3> QED  BY <2>1, <2>3, <3>4, <3>5
  <2> QED  BY <1>8, <2>2, <2>3 DEF SendEventConnect
<1>9. CASE SendEventProcess
  <2>1. /\ UNCHANGED <<AckToken, notifyEvent, notified, entry, eventList>>
        /\ pc' = "scan" /\ i' = i + 1 /\ AtWork
    BY <1>9 DEF SendEventProcess, history
  <2>2. \A k \in 1..Len(eventList) : i < k => target.srvToken < eventList[k].srvToken
    BY <2>1 DEF TokenInv
  <2>3. m.id = entry.id => \A k \in 1..Len(eventList) :
                              i + 1 <= k => m.token < eventList[k].srvToken
    BY <1>0, <2>1, <2>2
  <2> QED  BY <2>1, <2>3
<1>10. CASE Erase
  <2>1. /\ Len(notifyEvent') = Len(notifyEvent) - 1
        /\ \A j \in 1..Len(notifyEvent') : notifyEvent'[j] = notifyEvent[j + 1]
    BY <1>10 DEF Erase, TypeInv
  <2>2. pc' = "test" /\ UNCHANGED <<notified, AckToken>>
    BY <1>10 DEF Erase
  <2>3. \A j \in 1..Len(notifyEvent') : j + 1 \in 1..Len(notifyEvent) /\ j + 1 # 1
    BY <1>0, <2>1
  <2> QED  BY <1>0, <2>1, <2>2, <2>3
<1>11. ASSUME NEW s \in Subscriber,
              ProcessSemWait(s) \/ ReceiveEvents(s) \/ GoAway(s) \/ ComeBack(s)
       PROVE  Past(m)'
  BY <1>11, ClientStep DEF thread, history
<1>12. CASE UNCHANGED vars
  BY <1>12 DEF vars, thread, history
<1> QED
  BY <1>1, <1>2, <1>3, <1>4, <1>5, <1>6, <1>7, <1>8, <1>9, <1>10, <1>11, <1>12
  DEF Next, NotifyThread

\* The message just sent is past as well: its event is at the front, its token
\* below those of the entries the loop has yet to look at.
LEMMA PastNew ==
    ASSUME TypeInv, TokenInv, QueueInv, SendEventProcess, NEW m, m = New
    PROVE  Past(m)'
<1>1. /\ UNCHANGED <<AckToken, notifyEvent, notified, entry, eventList>>
      /\ pc = "rpc" /\ pc' = "scan" /\ i' = i + 1
  BY DEF SendEventProcess, history
<1>2. m.id = entry.id /\ m.token = target.srvToken
  BY DEF New
<1>3. entry = notifyEvent[1] /\ notifyEvent # <<>> /\ i \in Nat
  BY <1>1 DEF QueueInv, TypeInv, Loop
<1>4. 1 \in 1..Len(notifyEvent)
  BY <1>3 DEF TypeInv
<1>5. m.id <= notified /\ m.token <= AckToken
  BY <1>1, <1>2, <1>3, <1>4 DEF QueueInv, TokenInv, AtWork
<1>6. \A j \in 1..Len(notifyEvent) : m.id < notifyEvent[j].id \/ (j = 1 /\ m.id = entry.id)
  <2>1. Len(notifyEvent) \in Nat
    BY DEF TypeInv
  <2> QED  BY <1>2, <1>3, <1>4, <2>1 DEF QueueInv
<1>7. \A k \in 1..Len(eventList) : i + 1 <= k => m.token < eventList[k].srvToken
  <2>1. Len(eventList) \in Nat
    BY DEF TypeInv
  <2> QED  BY <1>1, <1>2, <1>3, <2>1 DEF TokenInv, AtWork
<1> QED  BY <1>1, <1>5, <1>6, <1>7 DEF Past, Loop, AtWork

\* All that a subscriber was sent is past.
LEMMA PastNext == TypeInv /\ TokenInv /\ QueueInv /\ PastInv /\ [Next]_vars => PastInv'
<1> SUFFICES ASSUME TypeInv, TokenInv, QueueInv, PastInv, [Next]_vars,
                    NEW s \in Subscriber, NEW n \in 1..Len(Heard(s)'),
                    NEW m, m = Heard(s)'[n]
             PROVE  Past(m)'
  BY DEF PastInv, Past
<1>1. Len(Heard(s)) \in Nat /\ \A k \in 1..Len(Heard(s)) : Heard(s)[k] \in Msg
  BY HeardType
<1>2. ASSUME NEW k \in 1..Len(Heard(s)), m = Heard(s)[k]
      PROVE  Past(m)'
  <2>1. m \in Msg /\ Past(m)
    BY <1>1, <1>2 DEF PastInv
  <2> QED  BY <2>1, PastKept
<1>3. CASE /\ Len(Heard(s)') <= Len(Heard(s))
           /\ \A k \in 1..Len(Heard(s)') : Heard(s)'[k] = Heard(s)[k]
  <2>1. n \in 1..Len(Heard(s)) /\ m = Heard(s)[n]
    BY <1>1, <1>3
  <2> QED  BY <1>2, <2>1
<1>4. CASE SendEventProcess /\ New \in Msg /\ Heard(s)' = Append(Heard(s), New)
  <2>1. /\ Len(Heard(s)') = Len(Heard(s)) + 1
        /\ \A k \in 1..Len(Heard(s)) : Heard(s)'[k] = Heard(s)[k]
        /\ Heard(s)'[Len(Heard(s)) + 1] = New
    BY <1>4, HeardType, PushBack
  <2>2. CASE n \in 1..Len(Heard(s))
    BY <1>2, <2>1, <2>2
  <2>3. CASE n = Len(Heard(s)) + 1
    BY <1>4, <2>1, <2>3, PastNew
  <2> QED  BY <1>1, <2>1, <2>2, <2>3
<1> QED  BY <1>3, <1>4, HeardNext

\* What a subscriber was sent is in order: what is added is newer than what
\* the same subscription got before.
LEMMA OrderNext ==
    TypeInv /\ QueueInv /\ PastInv /\ OrderInv /\ [Next]_vars => OrderInv'
<1> SUFFICES ASSUME TypeInv, QueueInv, PastInv, OrderInv, [Next]_vars,
                    NEW s \in Subscriber,
                    NEW j \in 1..Len(Heard(s)'), NEW k \in 1..Len(Heard(s)'),
                    j < k, Heard(s)'[j].token = Heard(s)'[k].token
             PROVE  Heard(s)'[j].id < Heard(s)'[k].id
  BY DEF OrderInv, InOrderPerToken
<1>1. Len(Heard(s)) \in Nat /\ \A n \in 1..Len(Heard(s)) : Heard(s)[n] \in Msg
  BY HeardType
<1>2. ASSUME j \in 1..Len(Heard(s)), k \in 1..Len(Heard(s)),
             Heard(s)'[j] = Heard(s)[j], Heard(s)'[k] = Heard(s)[k]
      PROVE  Heard(s)'[j].id < Heard(s)'[k].id
  BY <1>2 DEF OrderInv, InOrderPerToken
<1>3. CASE /\ Len(Heard(s)') <= Len(Heard(s))
           /\ \A n \in 1..Len(Heard(s)') : Heard(s)'[n] = Heard(s)[n]
  BY <1>1, <1>2, <1>3
<1>4. CASE SendEventProcess /\ New \in Msg /\ Heard(s)' = Append(Heard(s), New)
  <2>1. /\ Len(Heard(s)') = Len(Heard(s)) + 1
        /\ \A n \in 1..Len(Heard(s)) : Heard(s)'[n] = Heard(s)[n]
        /\ Heard(s)'[Len(Heard(s)) + 1] = New
    BY <1>4, HeardType, PushBack
  <2>2. CASE k \in 1..Len(Heard(s))
    BY <1>1, <1>2, <2>1, <2>2
  <2>3. CASE k = Len(Heard(s)) + 1
    <3>1. j \in 1..Len(Heard(s)) /\ Past(Heard(s)[j]) /\ Heard(s)[j] \in Msg
      BY <1>1, <2>1, <2>3 DEF PastInv
    <3>2. PICK m \in Msg : m = Heard(s)[j] /\ Past(m)
      BY <3>1
    <3>3. pc = "rpc" /\ m.token = target.srvToken /\ New.id = entry.id
      BY <1>4, <2>1, <2>3, <3>1, <3>2 DEF SendEventProcess, New
    <3>4. target.srvToken \in Nat
      BY <3>3, BoundAssumption DEF TypeInv, AtWork, Entry
    <3>5. m.id # entry.id
      BY <3>2, <3>3, <3>4 DEF Past, Loop, AtWork
    <3>6. entry = notifyEvent[1] /\ 1 \in 1..Len(notifyEvent)
      BY <3>3 DEF QueueInv, TypeInv, Loop
    <3>7. m.id < entry.id
      BY <3>2, <3>5, <3>6 DEF Past
    <3> QED  BY <2>1, <2>3, <3>1, <3>2, <3>3, <3>7
  <2> QED  BY <1>1, <2>1, <2>2, <2>3
<1> QED  BY <1>3, <1>4, HeardNext

\* For every number of subscribers and subscriptions: a subscription hears of
\* each event at most once and in order, whatever the threads interleave and
\* whoever unsubscribes, goes away or comes back.
THEOREM HeardInOrderOnce == Spec => []InOrderOnce
<1> DEFINE I == TypeInv /\ CountInv /\ TokenInv /\ QueueInv /\ PastInv /\ OrderInv
<1>1. Init => I
  <2> SUFFICES ASSUME Init PROVE I
    OBVIOUS
  <2>1. TypeInv /\ CountInv
    BY TypeInit
  <2>2. Len(<<>>) = 0 /\ 1..0 = {}
    OBVIOUS
  <2>3. TokenInv /\ QueueInv
    BY <2>2 DEF Init, TokenInv, QueueInv, AtWork, Loop
  <2>4. \A s \in Subscriber : Heard(s) = <<>>
    BY DEF Init, Heard
  <2>5. PastInv /\ OrderInv
    BY <2>2, <2>4 DEF PastInv, OrderInv, InOrderPerToken
  <2> QED  BY <2>1, <2>3, <2>5
<1>2. I /\ [Next]_vars => I'
  BY TypeNext, CountNext, TokenNext, QueueNext, PastNext, OrderNext
<1>3. I => InOrderOnce
  <2> SUFFICES ASSUME I, NEW s \in Subscriber,
                      NEW j \in DOMAIN received[s], NEW k \in DOMAIN received[s], j < k,
                      received[s][j].token = received[s][k].token
               PROVE  received[s][j].id < received[s][k].id
    BY DEF InOrderOnce
  <2>1. received[s] \in Seq(Msg) /\ processEvent[s] \in Seq(Msg)
    BY HeardType
  <2>2. j \in 1..Len(received[s]) /\ k \in 1..Len(received[s])
    BY <2>1
  <2>3. /\ Len(received[s]) <= Len(Heard(s))
        /\ \A n \in 1..Len(received[s]) : received[s][n] = Heard(s)[n]
    BY <2>1, ConcatPrefix DEF Heard
  <2>4. Len(received[s]) \in Nat /\ Len(Heard(s)) \in Nat
    BY <2>1, HeardType
  <2>5. j \in 1..Len(Heard(s)) /\ k \in 1..Len(Heard(s))
    BY <2>2, <2>3, <2>4
  <2> QED  BY <2>2, <2>3, <2>5 DEF OrderInv, InOrderPerToken
<1> QED  BY <1>1, <1>2, <1>3, PTL DEF Spec
-----------------------------------------------------------------------------
(* The loop over the subscriptions, without an unsubscribe during it       *)

\* A new subscription goes behind the others, unflagged.
LEMMA Registration ==
    ASSUME TypeInv, NEW s \in Subscriber, NEW n \in Event \cup {All},
           RegisterEventSubscription(s, n)
    PROVE  /\ AckToken' = AckToken + 1
           /\ Len(eventList') = Len(eventList) + 1
           /\ \A j \in 1..Len(eventList) : eventList'[j] = eventList[j]
           /\ eventList'[Len(eventList) + 1].srvToken = AckToken + 1
           /\ eventList'[Len(eventList) + 1].deleteFlag = FALSE
<1> DEFINE e == [srvToken |-> AckToken + 1, clt |-> s, eventNum |-> n, deleteFlag |-> FALSE]
<1>1. /\ AckToken' = AckToken + 1 /\ eventList' = Append(eventList, e)
      /\ e.srvToken = AckToken + 1 /\ e.deleteFlag = FALSE /\ e \in Entry
  BY BoundAssumption DEF RegisterEventSubscription, TypeInv, Entry
<1> HIDE DEF e
<1> QED  BY <1>1, PushBack DEF TypeInv

\* Without a clash, the list shrinks at the wait or at the end of a loop.
LEMMA NoClash ==
    ASSUME TypeInv, [Next]_vars, ~clash'
    PROVE  ~clash /\ \A t \in Tokens(eventList) : UnregisterEventSubscription(t) => pc = "wait"
<1>1. ASSUME NEW t \in Tokens(eventList), UnregisterEventSubscription(t)
      PROVE  ~clash /\ pc = "wait"
  BY <1>1 DEF UnregisterEventSubscription
<1>2. ASSUME ~ \E t \in Tokens(eventList) : UnregisterEventSubscription(t)
      PROVE  clash' = clash
  BY <1>2 DEF Next, RegisterEventSubscription, NotifyEvent, WakeupThread, NotifyThread,
     SemWait, NextEvent, Scan, SendEventConnect, SendEventProcess, Erase,
     ProcessSemWait, ReceiveEvents, GoAway, ComeBack, vars, history
<1> QED  BY <1>1, <1>2

\* The steps that leave the list and the notify thread as they are.
Aside ==
    UNCHANGED <<eventList, AckToken, pc, i, entry, target, known, tried, refused, dropped>>

\* Any step without a clash is one of these.
LEMMA LoopStep ==
    ASSUME TypeInv, [Next]_vars, ~clash'
    PROVE  \/ \E s \in Subscriber, n \in Event \cup {All} : RegisterEventSubscription(s, n)
           \/ pc = "wait" /\ \E t \in Tokens(eventList) : UnregisterEventSubscription(t)
           \/ SemWait \/ NextEvent \/ Scan \/ SendEventConnect \/ SendEventProcess \/ Erase
           \/ Aside
<1>1. ASSUME NEW n \in Event, NotifyEvent(n) PROVE Aside
  BY <1>1 DEF NotifyEvent, thread, Aside
<1>2. ASSUME WakeupThread PROVE Aside
  BY <1>2 DEF WakeupThread, thread, history, Aside
<1>3. ASSUME NEW s \in Subscriber,
             ProcessSemWait(s) \/ ReceiveEvents(s) \/ GoAway(s) \/ ComeBack(s)
      PROVE Aside
  BY <1>3 DEF ProcessSemWait, ReceiveEvents, GoAway, ComeBack, thread, history, Aside
<1>4. ASSUME UNCHANGED vars PROVE Aside
  BY <1>4 DEF vars, thread, history, Aside
<1> QED  BY <1>1, <1>2, <1>3, <1>4, NoClash DEF Next, NotifyThread

\* The entry at work stays the i-th.
LEMMA TargetNext == TypeInv /\ TargetInv /\ [Next]_vars => TargetInv'
<1> SUFFICES ASSUME TypeInv, TargetInv, [Next]_vars, ~clash', AtWork'
             PROVE  i' <= Len(eventList') /\ target' = eventList'[i']
  BY DEF TargetInv
<1> USE DEF AtWork
<1>0. /\ ~clash /\ Len(eventList) \in Nat /\ i \in Nat
      /\ AtWork => i \in 1..Len(eventList) /\ target = eventList[i]
  BY NoClash, Entries DEF TypeInv, TargetInv, Loop
<1>1. ASSUME NEW s \in Subscriber, NEW n \in Event \cup {All},
             RegisterEventSubscription(s, n)
      PROVE  i' <= Len(eventList') /\ target' = eventList'[i']
  <2>1. UNCHANGED <<pc, i, target>>
    BY <1>1 DEF RegisterEventSubscription, thread
  <2>2. i \in 1..Len(eventList) /\ target = eventList[i]
    BY <1>0, <2>1
  <2>3. /\ Len(eventList') = Len(eventList) + 1
        /\ \A j \in 1..Len(eventList) : eventList'[j] = eventList[j]
    BY <1>1, Registration
  <2> QED  BY <1>0, <2>1, <2>2, <2>3
<1>2. ASSUME NEW t \in Tokens(eventList), UnregisterEventSubscription(t), pc = "wait"
      PROVE  FALSE
  BY <1>2 DEF UnregisterEventSubscription, thread
<1>3. CASE Scan
  BY <1>0, <1>3 DEF Scan
<1>4. CASE SendEventConnect
  BY <1>0, <1>4 DEF SendEventConnect
<1>5. CASE SemWait \/ NextEvent \/ SendEventProcess \/ Erase
  BY <1>5 DEF SemWait, NextEvent, SendEventProcess, Erase
<1>6. CASE Aside
  BY <1>0, <1>6 DEF Aside
<1> QED  BY <1>1, <1>2, <1>3, <1>4, <1>5, <1>6, LoopStep

\* The tokens known are old ones, and the entry whose event is sent was tried.
LEMMA KnownNext ==
    TypeInv /\ TokenInv /\ PassedInv /\ [Next]_vars =>
        known' \subseteq 0..AckToken' /\ (pc' = "rpc" => target'.srvToken \in tried')
<1> SUFFICES ASSUME TypeInv, TokenInv, [Next]_vars,
                    known \subseteq 0..AckToken, pc = "rpc" => target.srvToken \in tried
             PROVE  known' \subseteq 0..AckToken' /\ (pc' = "rpc" => target'.srvToken \in tried')
  BY DEF PassedInv
<1>0. AckToken \in Nat
  BY BoundAssumption DEF TypeInv
<1>1. ASSUME NEW s \in Subscriber, NEW n \in Event \cup {All},
             RegisterEventSubscription(s, n)
      PROVE  known' \subseteq 0..AckToken' /\ (pc' = "rpc" => target'.srvToken \in tried')
  BY <1>0, <1>1 DEF RegisterEventSubscription, thread, history
<1>2. CASE NextEvent
  <2>1. Tokens(eventList) \subseteq 0..AckToken
    BY <1>0, Entries DEF Tokens, TokenInv
  <2> QED  BY <1>2, <2>1 DEF NextEvent
<1>3. CASE SendEventConnect
  BY <1>3 DEF SendEventConnect
<1>4. CASE SemWait \/ Scan \/ SendEventProcess
  BY <1>4 DEF SemWait, Scan, SendEventProcess, history
<1>5. CASE Erase
  BY <1>5 DEF Erase
<1>6. CASE UNCHANGED <<AckToken, known, tried, pc, target>>
  BY <1>6
<1>7. ASSUME NEW t \in Tokens(eventList), UnregisterEventSubscription(t)
      PROVE  UNCHANGED <<AckToken, known, tried, pc, target>>
  BY <1>7 DEF UnregisterEventSubscription, thread
<1>8. ASSUME NEW n \in Event, NotifyEvent(n)
      PROVE  UNCHANGED <<AckToken, known, tried, pc, target>>
  BY <1>8 DEF NotifyEvent, thread
<1>9. ASSUME NEW s \in Subscriber,
             ProcessSemWait(s) \/ ReceiveEvents(s) \/ GoAway(s) \/ ComeBack(s)
      PROVE  UNCHANGED <<AckToken, known, tried, pc, target>>
  BY <1>9 DEF ProcessSemWait, ReceiveEvents, GoAway, ComeBack, thread, history
<1>10. ASSUME WakeupThread \/ UNCHANGED vars
       PROVE  UNCHANGED <<AckToken, known, tried, pc, target>>
  BY <1>10 DEF WakeupThread, vars, thread, history
<1> QED  BY <1>1, <1>2, <1>3, <1>4, <1>5, <1>6, <1>7, <1>8, <1>9, <1>10
         DEF Next, NotifyThread

\* The loop leaves no matching subscription behind it untried: those that
\* register meanwhile come behind, and the size is read afresh.
LEMMA PassedNext ==
    TypeInv /\ TokenInv /\ TargetInv /\ PassedInv /\ [Next]_vars => PassedInv'
<1> SUFFICES ASSUME TypeInv, TokenInv, TargetInv, PassedInv, [Next]_vars, ~clash', Loop',
                    NEW j \in 1..Len(eventList'), j < i' \/ pc' = "erase",
                    eventList'[j].srvToken \in known', Wanted(eventList'[j], entry')
             PROVE  eventList'[j].srvToken \in tried'
  BY KnownNext DEF PassedInv
<1> USE DEF Loop
<1>0. /\ ~clash /\ Len(eventList) \in Nat /\ AckToken \in Nat /\ i \in Nat
      /\ known \subseteq 0..AckToken
  BY BoundAssumption, NoClash, Entries DEF TypeInv, PassedInv
<1>1. ASSUME Loop, j \in 1..Len(eventList), j < i \/ pc = "erase",
             eventList[j].srvToken \in known, Wanted(eventList[j], entry)
      PROVE  eventList[j].srvToken \in tried
  BY <1>0, <1>1 DEF PassedInv
<1>2. ASSUME NEW s \in Subscriber, NEW n \in Event \cup {All},
             RegisterEventSubscription(s, n)
      PROVE  eventList'[j].srvToken \in tried'
  <2>1. UNCHANGED <<pc, i, entry, known, tried>>
    BY <1>2 DEF RegisterEventSubscription, thread, history
  <2>2. /\ Len(eventList') = Len(eventList) + 1
        /\ \A k \in 1..Len(eventList) : eventList'[k] = eventList[k]
        /\ eventList'[Len(eventList) + 1].srvToken = AckToken + 1
    BY <1>2, Registration
  <2>3. CASE j \in 1..Len(eventList)
    BY <1>1, <2>1, <2>2, <2>3
  <2>4. CASE j = Len(eventList) + 1
    BY <1>0, <2>1, <2>2, <2>4
  <2> QED  BY <1>0, <2>2, <2>3, <2>4
<1>3. ASSUME NEW t \in Tokens(eventList), UnregisterEventSubscription(t), pc = "wait"
      PROVE  FALSE
  BY <1>3 DEF UnregisterEventSubscription, thread
<1>4. CASE SemWait \/ Erase
  BY <1>4 DEF SemWait, Erase
<1>5. CASE NextEvent
  <2>1. pc' = "wait" \/ (i' = 1 /\ pc' = "scan")
    BY <1>5 DEF NextEvent
  <2>2. pc' # "wait" /\ (j < i' \/ pc' = "erase")
    OBVIOUS
  <2> QED  BY ONLY <2>1, <2>2, j \in 1..Len(eventList')
<1>6. CASE Scan
  <2>1. UNCHANGED <<eventList, entry, known, tried>> /\ pc = "scan"
    BY <1>6 DEF Scan, history
  <2>2. j < i \/ (j = i /\ ~Wanted(eventList[i], entry))
    BY <1>0, <1>6, <2>1 DEF Scan
  <2> QED  BY <1>1, <2>1, <2>2
<1>7. CASE SendEventConnect
  <2>1. /\ UNCHANGED <<entry, known>> /\ pc = "connect" /\ pc' # "erase"
        /\ tried' = tried \cup {target.srvToken} /\ i' \in {i, i + 1}
    BY <1>7 DEF SendEventConnect
  <2>2. /\ j \in 1..Len(eventList) /\ eventList'[j].srvToken = eventList[j].srvToken
        /\ eventList'[j].eventNum = eventList[j].eventNum
    BY <1>7, Flagging
  <2>3. target = eventList[i]
    BY <1>0, <2>1 DEF TargetInv, AtWork
  <2>4. Wanted(eventList[j], entry)
    BY <2>1, <2>2 DEF Wanted
  <2>5. j < i \/ j = i
    BY <1>0, <2>1
  <2> QED  BY <1>1, <2>1, <2>2, <2>3, <2>4, <2>5
<1>8. CASE SendEventProcess
  <2>1. UNCHANGED <<eventList, entry, known, tried>> /\ pc = "rpc" /\ pc' = "scan" /\ i' = i + 1
    BY <1>8 DEF SendEventProcess, history
  <2>2. target = eventList[i] /\ target.srvToken \in tried
    BY <1>0, <2>1 DEF TargetInv, AtWork, PassedInv
  <2>3. j < i \/ j = i
    BY <1>0, <2>1
  <2> QED  BY <1>1, <2>1, <2>2, <2>3
<1>9. CASE Aside
  BY <1>1, <1>9 DEF Aside
<1> QED  BY <1>2, <1>3, <1>4, <1>5, <1>6, <1>7, <1>8, <1>9, LoopStep

\* The flagged entries are those that refused the event at work: one is
\* flagged when it refuses, and at the end of the loop none is left.
LEMMA FlagNext == TypeInv /\ TargetInv /\ FlagInv /\ [Next]_vars => FlagInv'
<1> SUFFICES ASSUME TypeInv, TargetInv, FlagInv, [Next]_vars, ~clash',
                    NEW j \in 1..Len(eventList'), eventList'[j].deleteFlag
             PROVE  Loop' /\ eventList'[j].srvToken \in refused'
  BY DEF FlagInv
<1> USE DEF Loop
<1>0. ~clash /\ Len(eventList) \in Nat
  BY NoClash, Entries
<1>1. \A k \in 1..Len(eventList) :
        eventList[k].deleteFlag => Loop /\ eventList[k].srvToken \in refused
  BY <1>0 DEF FlagInv
<1>2. ASSUME NEW s \in Subscriber, NEW n \in Event \cup {All},
             RegisterEventSubscription(s, n)
      PROVE  Loop' /\ eventList'[j].srvToken \in refused'
  <2>1. UNCHANGED <<pc, refused>>
    BY <1>2 DEF RegisterEventSubscription, thread, history
  <2>2. /\ Len(eventList') = Len(eventList) + 1
        /\ \A k \in 1..Len(eventList) : eventList'[k] = eventList[k]
        /\ eventList'[Len(eventList) + 1].deleteFlag = FALSE
    BY <1>2, Registration
  <2>3. j \in 1..Len(eventList)
    BY <1>0, <2>2
  <2> QED  BY <1>1, <2>1, <2>2, <2>3
<1>3. ASSUME NEW t \in Tokens(eventList), UnregisterEventSubscription(t), pc = "wait"
      PROVE  FALSE
  <2>1. \E k \in 1..Len(eventList) : eventList'[j] = eventList[k]
    BY <1>3, Removal DEF UnregisterEventSubscription
  <2> QED  BY <1>1, <1>3, <2>1
<1>4. CASE SemWait \/ NextEvent \/ Scan \/ SendEventProcess
  <2>1. UNCHANGED <<eventList, refused>> /\ (Loop => Loop')
    BY <1>4 DEF SemWait, NextEvent, Scan, SendEventProcess, history
  <2> QED  BY <1>1, <2>1
<1>5. CASE SendEventConnect
  <2>1. /\ j \in 1..Len(eventList) /\ eventList'[j].srvToken = eventList[j].srvToken
        /\ eventList[j].deleteFlag \/ (j = i /\ target.clt \notin listening)
    BY <1>5, Flagging
  <2>2. /\ pc = "connect" /\ Loop' /\ refused \subseteq refused'
        /\ target.clt \notin listening => target.srvToken \in refused'
    BY <1>5 DEF SendEventConnect
  <2>3. target = eventList[i]
    BY <1>0, <2>2 DEF TargetInv, AtWork
  <2> QED  BY <1>1, <2>1, <2>2, <2>3
<1>6. CASE Erase
  <2>1. \E k \in 1..Len(eventList) :
          eventList'[j] = eventList[k] /\ k \notin {m \in DOMAIN eventList : eventList[m].deleteFlag}
    BY <1>6, Removal DEF Erase
  <2> QED  BY <2>1, Entries
<1>7. CASE Aside
  BY <1>1, <1>7 DEF Aside
<1> QED  BY <1>2, <1>3, <1>4, <1>5, <1>6, <1>7, LoopStep

\* What Erase takes out was flagged, and so refused.
LEMMA DroppedNext == TypeInv /\ FlagInv /\ OnlyRefusedDropped /\ [Next]_vars => OnlyRefusedDropped'
<1> SUFFICES ASSUME TypeInv, FlagInv, OnlyRefusedDropped, [Next]_vars, ~clash'
             PROVE  dropped' = {}
  BY DEF OnlyRefusedDropped
<1>0. ~clash /\ dropped = {}
  BY NoClash DEF OnlyRefusedDropped
<1>1. CASE Erase
  <2> DEFINE Flagged == {m \in DOMAIN eventList : eventList[m].deleteFlag}
  <2>1. ASSUME NEW k \in 1..Len(eventList)
        PROVE  eventList[k].srvToken \in Tokens(eventList') \cup refused
    <3>1. CASE k \in Flagged
      BY <1>0, <3>1 DEF FlagInv
    <3>2. CASE k \notin Flagged
      <4>1. eventList' \in remove_if(eventList, Flagged)
        BY <1>1 DEF Erase
      <4> HIDE DEF Flagged
      <4>2. \E n \in 1..Len(eventList') : eventList'[n] = eventList[k]
        BY <3>2, <4>1, Removal
      <4>3. DOMAIN eventList' = 1..Len(eventList')
        <5>1. eventList' \in Seq(Entry)
          BY TypeNext DEF TypeInv
        <5> QED  BY <5>1
      <4> QED  BY <4>2, <4>3 DEF Tokens
    <3> QED  BY <3>1, <3>2
  <2>2. Tokens(eventList) \ (Tokens(eventList') \cup refused) = {}
    BY <2>1, Entries DEF Tokens
  <2> QED  BY <1>0, <1>1, <2>2 DEF Erase
<1>2. CASE ~Erase
  <2>1. dropped' = dropped
    BY <1>2, LoopStep DEF RegisterEventSubscription, UnregisterEventSubscription, SemWait,
       NextEvent, Scan, SendEventConnect, SendEventProcess, history, Aside
  <2> QED  BY <1>0, <2>1
<1> QED  BY <1>1, <1>2

LoopInv == TypeInv /\ TokenInv /\ TargetInv /\ PassedInv /\ FlagInv /\ OnlyRefusedDropped

\* What the loop knows holds through every step.
LEMMA LoopInvariant == Spec => []LoopInv
<1>1. Init => LoopInv
  <2> SUFFICES ASSUME Init PROVE LoopInv
    OBVIOUS
  <2>1. Len(eventList) = 0 /\ 1..0 = {}
    BY DEF Init
  <2>2. TokenInv /\ FlagInv
    BY <2>1 DEF Init, TokenInv, FlagInv, AtWork
  <2>3. TargetInv /\ PassedInv /\ OnlyRefusedDropped
    BY DEF Init, TargetInv, PassedInv, OnlyRefusedDropped, AtWork, Loop
  <2> QED  BY <2>2, <2>3, TypeInit DEF LoopInv
<1>2. LoopInv /\ [Next]_vars => LoopInv'
  BY TypeNext, TokenNext, TargetNext, PassedNext, FlagNext, DroppedNext DEF LoopInv
<1> QED  BY <1>1, <1>2, PTL DEF Spec

\* For every number of subscribers and subscriptions: without an unsubscribe
\* during the loop, no matching subscription that was there is passed over.
THEOREM NoSubscriptionSkipped == Spec => []NoneSkipped
<1>1. LoopInv => NoneSkipped
  BY Entries DEF LoopInv, PassedInv, NoneSkipped, Loop
<1> QED  BY <1>1, LoopInvariant, PTL

\* For every number of subscribers and subscriptions: without an unsubscribe
\* during the loop, a subscription is dropped only when it refused.
THEOREM DroppedRefused == Spec => []OnlyRefusedDropped
<1>1. LoopInv => OnlyRefusedDropped
  BY DEF LoopInv
<1> QED  BY <1>1, LoopInvariant, PTL

=============================================================================
