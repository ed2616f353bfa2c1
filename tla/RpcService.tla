----------------------------- MODULE RpcService -----------------------------
(***************************************************************************)
(* What the JSON-RPC pipeline of a service promises: the requests it       *)
(* accepts are served one at a time in the order in which they were        *)
(* accepted, none twice, and none is lost unless memory runs out; results  *)
(* and refusals are sent in the order in which they were made.             *)
(***************************************************************************)
EXTENDS Naturals, Sequences

CONSTANTS
    Request,        \* the requests
    OutOfMemory     \* whether an allocation may fail

VARIABLES
    queue,          \* accepted and not yet served
    outbox          \* answers made and not yet sent

svars == <<queue, outbox>>

Init == queue = <<>> /\ outbox = <<>>

Accept(r) == queue' = Append(queue, r) /\ UNCHANGED outbox

\* Something that is not a request is answered with an error at once.
Refuse(r) ==
    /\ outbox' = Append(outbox, [req |-> r, kind |-> "error"])
    /\ UNCHANGED queue

Serve ==
    /\ queue # <<>>
    /\ queue' = Tail(queue)
    /\ outbox' = Append(outbox, [req |-> Head(queue), kind |-> "result"])

Reply == outbox # <<>> /\ outbox' = Tail(outbox) /\ UNCHANGED queue

Lose ==
    /\ OutOfMemory
    /\ \E i \in DOMAIN queue :
          queue' = [j \in 1..(Len(queue) - 1) |-> IF j < i THEN queue[j] ELSE queue[j + 1]]
    /\ UNCHANGED outbox

Next == (\E r \in Request : Accept(r) \/ Refuse(r)) \/ Serve \/ Reply \/ Lose

Fairness == WF_svars(Serve) /\ WF_svars(Reply)

Spec == Init /\ [][Next]_svars /\ Fairness
=============================================================================
