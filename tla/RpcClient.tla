----------------------------- MODULE RpcClient -----------------------------
(***************************************************************************)
(* ADJsonRpcClient and ADNetClient: the calls one client object makes to a *)
(* service, one after the other, over one connection at a time.            *)
(*                                                                         *)
(* A call sends its request, calls recv once, and takes what recv returned *)
(* for its answer; neither the id in the answer nor the result of send is  *)
(* looked at.  A request has a number, req_id; its answer, a result or an  *)
(* error, is a head and a tail, so that recv (or the size of recv_buffer)  *)
(* can cut it.                                                             *)
(*                                                                         *)
(* The service is RpcService as one connection sees it: requests are       *)
(* accepted or refused as they are received, a refusal is answered at      *)
(* once, what is accepted is served in order.  A request whose bytes come  *)
(* with two recvs is two frames, neither of them a request.                *)
(*                                                                         *)
(* Callers differ: xmproxy gives up after a failed call, the command line  *)
(* client (ADThreadedSockClient) goes on with its next command.  Here a    *)
(* client does either.                                                     *)
(***************************************************************************)
EXTENDS Naturals, Sequences

CONSTANTS
    MaxCalls,       \* bound on the calls
    MaxConnects     \* bound on the connections

ASSUME RpcClientAssumption == MaxCalls \in Nat /\ MaxConnects \in Nat

VARIABLES
    connected,      \* the client's flag
    pc,             \* what the client is doing
    req_id,         \* the number of its latest request
    answer,         \* the request whose answer that call returned, or RESULT_UNKNOWN
    peer,           \* the service's side of the connection
    requests,       \* sent and not yet received by the service, whole or the rest of one
    queue,          \* accepted and not yet served
    stream,         \* answers sent and not yet received
    connects,       \* connections so far
    cut,            \* recv has cut an answer of this connection
    gotUnknown,     \* a call on this connection returned RESULT_UNKNOWN
    carriedOn,      \* and another call was made on it
    split,          \* a request of this connection came with two recvs
    refused,        \* the current request was answered with an error
    lost            \* the service dropped the current request

cltVars == <<connected, pc, req_id, answer>>
netVars == <<peer, requests, queue, stream>>
history == <<cut, gotUnknown, carriedOn, split, refused, lost>>
clientVars == <<cltVars, netVars, connects, history>>

RESULT_UNKNOWN == 0
Call == 1..MaxCalls
Request == [id : Call, part : {"whole", "rest"}]
Half == [id : Call, kind : {"result", "error"}, half : {"head", "tail"}]

ClientTypeOK ==
    /\ connected \in BOOLEAN
    /\ pc \in {"idle", "recv", "killed"}
    /\ req_id \in 0..MaxCalls
    /\ answer \in Call \cup {RESULT_UNKNOWN}
    /\ peer \in {"open", "closed", "reset", "gone"}
    /\ requests \in Seq(Request) /\ queue \in Seq(Call)
    /\ stream \in Seq(Half)
    /\ connects \in 0..MaxConnects
    /\ cut \in BOOLEAN /\ gotUnknown \in BOOLEAN /\ carriedOn \in BOOLEAN
    /\ split \in BOOLEAN /\ refused \in BOOLEAN /\ lost \in BOOLEAN

ClientInit ==
    /\ connected = FALSE /\ pc = "idle" /\ req_id = 0 /\ answer = RESULT_UNKNOWN
    /\ peer = "gone" /\ requests = <<>> /\ queue = <<>> /\ stream = <<>>
    /\ connects = 0
    /\ cut = FALSE /\ gotUnknown = FALSE /\ carriedOn = FALSE
    /\ split = FALSE /\ refused = FALSE /\ lost = FALSE
-----------------------------------------------------------------------------
(* Plausible mistakes in the code below.  No specification uses them.      *)

\* The client keeps its socket, and what is in it, for the next connection.
sock_connectKeepsStream ==
    /\ pc = "idle" /\ ~connected
    /\ connects < MaxConnects
    /\ connects' = connects + 1
    /\ connected' = TRUE /\ peer' = "open"
    /\ requests' = <<>> /\ queue' = <<>>
    /\ cut' = FALSE /\ gotUnknown' = FALSE /\ carriedOn' = FALSE /\ split' = FALSE
    /\ UNCHANGED <<pc, req_id, answer, stream, refused, lost>>

\* A request is sent in two pieces.
send_dataTwice ==
    /\ pc = "idle" /\ connected
    /\ req_id < MaxCalls
    /\ req_id' = req_id + 1
    /\ carriedOn' = gotUnknown
    /\ refused' = FALSE /\ lost' = FALSE
    /\ \/ /\ peer = "open"
          /\ requests' = Append(requests, [id |-> req_id', part |-> "whole"])
          /\ pc' = "recv" /\ UNCHANGED peer
       \/ /\ peer \in {"closed", "gone"}
          /\ peer' = "gone" /\ pc' = "killed" /\ UNCHANGED requests
    /\ UNCHANGED <<connected, answer, queue, stream, connects, cut, gotUnknown, split>>

\* The end of the connection does not end the call.
recvEofAgain ==
    /\ pc = "recv" /\ stream = <<>>
    /\ peer # "open"
    /\ peer' = "gone"
    /\ UNCHANGED <<cltVars, requests, queue, stream, connects, history>>
-----------------------------------------------------------------------------
(* The client                                                              *)

sock_connect ==
    /\ pc = "idle" /\ ~connected
    /\ connects < MaxConnects
    /\ connects' = connects + 1
    /\ connected' = TRUE /\ peer' = "open"
    /\ requests' = <<>> /\ queue' = <<>> /\ stream' = <<>>
    /\ cut' = FALSE /\ gotUnknown' = FALSE /\ carriedOn' = FALSE /\ split' = FALSE
    /\ UNCHANGED <<pc, req_id, answer, refused, lost>>

\* The service does not listen: callers give up.
sock_connectFails ==
    /\ pc = "idle" /\ ~connected
    /\ connects < MaxConnects
    /\ connects' = connects + 1
    /\ UNCHANGED <<cltVars, netVars, history>>

\* A call: the number is counted up and the request sent.  A send to a service
\* that has closed succeeds and provokes a reset, which may come late; the
\* first call of send or recv after a reset returns the error, and a send after
\* that raises SIGPIPE, which nobody handles.
send_data ==
    /\ pc = "idle" /\ connected
    /\ req_id < MaxCalls
    /\ req_id' = req_id + 1
    /\ carriedOn' = gotUnknown
    /\ refused' = FALSE /\ lost' = FALSE
    /\ \/ /\ peer = "open"
          /\ requests' = Append(requests, [id |-> req_id', part |-> "whole"])
          /\ pc' = "recv" /\ UNCHANGED peer
       \/ /\ peer = "closed"
          /\ peer' \in {"closed", "gone"} /\ pc' = "recv" /\ UNCHANGED requests
       \/ /\ peer = "reset"
          /\ peer' = "gone" /\ pc' = "recv" /\ UNCHANGED requests
       \/ /\ peer = "gone"
          /\ pc' = "killed" /\ UNCHANGED <<peer, requests>>
    /\ UNCHANGED <<connected, answer, queue, stream, connects, cut, gotUnknown, split>>

\* The call returns r.
Return(r) ==
    /\ answer' = r
    /\ pc' = "idle"
    /\ gotUnknown' = (gotUnknown \/ r = RESULT_UNKNOWN)
    /\ UNCHANGED <<connected, req_id, requests, queue, connects, carriedOn, split,
                   refused, lost>>

\* What find_json_result finds in the first n halves of the stream: JSON is
\* parsed from the start of the buffer to the end of the first object, which
\* has no "result" if it is an error.
find_json_result(n) ==
    IF n >= 2 /\ stream[1].half = "head" /\ stream[1].kind = "result"
    THEN stream[1].id ELSE RESULT_UNKNOWN

\* receive_data_blocking: recv waits for data, and returns what has come.
receive_data_blocking ==
    /\ pc = "recv"
    /\ \E n \in 1..Len(stream) :
          /\ Return(find_json_result(n))
          /\ stream' = SubSeq(stream, n + 1, Len(stream))
          /\ cut' = (cut \/ stream[n].half = "head")
    /\ UNCHANGED peer

\* recv returns 0, after a first -1 if the connection was reset: the buffer is
\* empty.  recv waits without limit, so the count of 4000 attempts after -1 is
\* never reached.
recvEof ==
    /\ pc = "recv" /\ stream = <<>>
    /\ peer # "open"
    /\ peer' = IF peer = "reset" THEN "gone" ELSE peer
    /\ Return(RESULT_UNKNOWN)
    /\ UNCHANGED <<stream, cut>>

sock_disconnect ==
    /\ pc = "idle" /\ connected
    /\ connected' = FALSE
    /\ peer' = "gone"
    /\ UNCHANGED <<pc, req_id, answer, requests, queue, stream, connects, history>>
-----------------------------------------------------------------------------
(* The service (see RpcPipeline)                                           *)

\* The answer to request r, as it is sent.
Whole(r, k) ==
    <<[id |-> r, kind |-> k, half |-> "head"], [id |-> r, kind |-> k, half |-> "tail"]>>

\* The service works on the connection.
ServiceStep ==
    /\ peer = "open"
    /\ UNCHANGED <<cltVars, peer, connects, cut, gotUnknown, carriedOn>>

\* json_process_request passes the request on.
Accept ==
    /\ ServiceStep
    /\ requests # <<>> /\ Head(requests).part = "whole"
    /\ requests' = Tail(requests)
    /\ queue' = Append(queue, Head(requests).id)
    /\ UNCHANGED <<stream, split, refused, lost>>

\* It answers with an error: no such method, no memory for the task, or the
\* rest of a split request.
Refuse ==
    /\ ServiceStep
    /\ requests # <<>>
    /\ requests' = Tail(requests)
    /\ stream' = stream \o Whole(Head(requests).id, "error")
    /\ refused' = (refused \/ Head(requests).id = req_id)
    /\ UNCHANGED <<queue, split, lost>>

\* recv returns in the middle of a request: what has come is a frame, and is
\* refused, memory permitting.
Split ==
    /\ ServiceStep
    /\ requests # <<>> /\ Head(requests).part = "whole"
    /\ requests' = <<[Head(requests) EXCEPT !.part = "rest"]>> \o Tail(requests)
    /\ split' = TRUE
    /\ \/ /\ stream' = stream \o Whole(Head(requests).id, "error")
          /\ refused' = (refused \/ Head(requests).id = req_id)
       \/ UNCHANGED <<stream, refused>>
    /\ UNCHANGED <<queue, lost>>

\* The handler has run and the result is sent.
Serve ==
    /\ ServiceStep
    /\ queue # <<>>
    /\ queue' = Tail(queue)
    /\ stream' = stream \o Whole(Head(queue), "result")
    /\ UNCHANGED <<requests, split, refused, lost>>

\* An allocation fails, or the answer does not fit the socket's buffer.
DropRequest ==
    /\ ServiceStep
    /\ requests # <<>>
    /\ requests' = Tail(requests)
    /\ lost' = (lost \/ Head(requests).id = req_id)
    /\ UNCHANGED <<queue, stream, split, refused>>

DropResult ==
    /\ ServiceStep
    /\ queue # <<>>
    /\ queue' = Tail(queue)
    /\ lost' = (lost \/ Head(queue) = req_id)
    /\ UNCHANGED <<requests, stream, split, refused>>

\* The service ends; a request it has not received makes this a reset.
Stop ==
    /\ peer = "open"
    /\ peer' = IF requests = <<>> THEN "closed" ELSE "reset"
    /\ requests' = <<>> /\ queue' = <<>>
    /\ UNCHANGED <<cltVars, stream, connects, history>>

Listen == Accept \/ Refuse \/ Split \/ DropRequest

ClientNext ==
    \/ sock_connect \/ sock_connectFails \/ send_data \/ receive_data_blocking
    \/ recvEof \/ sock_disconnect
    \/ Listen \/ Serve \/ DropResult \/ Stop

ClientSpec == ClientInit /\ [][ClientNext]_clientVars

\* recv returns when there is something to return; the service receives every
\* request, and its handlers return.
ClientFairSpec ==
    /\ ClientSpec
    /\ WF_clientVars(receive_data_blocking \/ recvEof)
    /\ WF_clientVars(Listen) /\ WF_clientVars(Serve \/ DropResult)
-----------------------------------------------------------------------------
(* Properties                                                              *)

\* Ids are not compared, yet until recv cuts an answer of the connection or the
\* service receives a request of it in two pieces, a call returns the result of
\* its own request, or RESULT_UNKNOWN because that request was refused or the
\* service has gone.  A new connection makes good what a cut or a split has
\* spoilt.
OwnAnswer ==
    [][pc = "recv" /\ pc' = "idle" /\ ~cut' /\ ~split =>
          \/ answer' = req_id
          \/ answer' = RESULT_UNKNOWN /\ (refused \/ peer # "open")]_clientVars

\* A client is killed by SIGPIPE only if it goes on calling after a call that
\* failed: one that gives up then, as xmproxy does, survives any service.
KilledOnlyIfCarriedOn ==
    pc = "killed" => carriedOn

\* What makes OwnAnswer and KilledOnlyIfCarriedOn inductive.  Until an answer is
\* cut or a request split, at most one request is out; it is on its way, accepted
\* or answered whole.
Sound == ~cut /\ ~split

Clean ==
    /\ ~connected => pc = "idle" /\ peer = "gone"
    /\ connected /\ peer # "open" => requests = <<>> /\ queue = <<>>
    /\ pc = "recv" => req_id > 0
    /\ Sound /\ connected /\ pc = "idle" =>
           requests = <<>> /\ queue = <<>> /\ stream = <<>>
    /\ Sound /\ pc = "recv" =>
           \/ /\ requests = <<>> /\ queue = <<>>
              /\ \/ stream = <<>>
                 \/ stream = Whole(req_id, "result")
                 \/ refused /\ stream = Whole(req_id, "error")
           \/ /\ requests = <<[id |-> req_id, part |-> "whole"]>>
              /\ queue = <<>> /\ stream = <<>>
           \/ requests = <<>> /\ queue = <<req_id>> /\ stream = <<>>

\* A connection that is reset belongs to a client that knows of a failed call,
\* or is about to: until it knows, a split request has drawn only errors.
Alive ==
    /\ cut => gotUnknown
    /\ split /\ ~gotUnknown =>
           /\ pc = "recv" /\ queue = <<>>
           /\ \A i \in 1..Len(requests) : requests[i].part = "rest"
           /\ stream # <<>> => stream[1].kind = "error"
    /\ pc = "idle" /\ connected /\ peer \in {"reset", "gone"} => gotUnknown
    /\ pc = "recv" /\ peer \in {"reset", "gone"} => gotUnknown \/ split \/ stream = <<>>
    /\ pc = "killed" => carriedOn /\ peer = "gone"

ClientIInv == ClientTypeOK /\ Clean /\ Alive

\* A call returns, unless the service dropped its request.
CallReturns ==
    pc = "recv" ~> pc = "idle" \/ lost
=============================================================================
