---------------------------- MODULE RpcPipeline ----------------------------
(***************************************************************************)
(* ADNetServer, ADJsonRpcProxy and ADJsonRpcMapper: the way of a request   *)
(* from its connection to its handler and of the answer back.              *)
(*                                                                         *)
(* Four threads of a service pass requests on: the listen thread (accept,  *)
(* recv, close, parsing), the mapper's ReqThread (the handler), the        *)
(* proxy's RespThread and the server's response_thread (send).  Between    *)
(* them are chains; each thread takes one element per post of its          *)
(* semaphore, and every chain_put is followed by its post, so a thread has *)
(* work exactly when its chain is not empty.                               *)
(*                                                                         *)
(* A request is sent as two halves, so that recv can end between them.  An *)
(* answer is addressed by file descriptor, and the lowest free descriptor  *)
(* goes to the next connection.                                            *)
(***************************************************************************)
EXTENDS GenericChain, StdVector

CONSTANTS
    MaxConn,        \* bound on the connections made
    MaxFd,          \* bound on the connections open at once
    MaxReq,         \* bound on the requests sent
    Unknown,        \* the requests that have no id or name no registered method
    OutOfMemory     \* whether an allocation may fail

ASSUME BoundAssumption == MaxConn \in Nat /\ MaxFd \in Nat /\ MaxReq \in Nat
ASSUME UnknownAssumption == Unknown \subseteq 1..MaxReq
ASSUME OutOfMemoryAssumption == OutOfMemory \in BOOLEAN

VARIABLES
    link,               \* per connection, what the client has done with it
    fd,                 \* per connection, the server's descriptor, 0 if none
    stream,             \* per connection, halves sent and not yet received
    owner,              \* per request sent, its connection
    clientInfo_chain,   \* what register_client_info remembers by descriptor
    request_chain,      \* frames received and not yet looked at
    notifying,          \* the listen thread is in notify_data_arrival
    ReqRespChain,       \* requests whose answer is not yet on its way
    ReqChain,           \* requests waiting for the mapper
    mapping,            \* the request the mapper works on, 0 if none
    RespChain,          \* requests whose result is known
    response_chain,     \* answers waiting to be sent
    answers,            \* history: answers sent, with the connection reached
    split,              \* history: requests whose halves came in two recvs
    reused,             \* a descriptor was given out with answers due on it
    wasReset            \* a connection ended in an error of recv

net == <<link, fd, stream, owner, clientInfo_chain, request_chain, notifying>>
chains == <<ReqRespChain, ReqChain, mapping, RespChain, response_chain>>
history == <<answers, split, reused, wasReset>>
vars == <<net, chains, history>>

Conn == 1..MaxConn
Fd   == 1..MaxFd
Req  == 1..MaxReq
Half == [req : Req, half : {"head", "tail"}]
Frame == [req : Req, ok : BOOLEAN, fd : Fd, cltid : Conn \cup {0}]
Task  == [ident : Req, fd : Fd, cltid : Conn \cup {0}]
Answer == [req : Req, fd : Fd, kind : {"result", "error"}]

TypeOK ==
    /\ link \in [Conn -> {"new", "open", "fin", "rst", "gone"}]
    /\ fd \in [Conn -> Fd \cup {0}]
    /\ stream \in [Conn -> Seq(Half)]
    /\ owner \in Seq(Conn) /\ Len(owner) <= MaxReq
    /\ clientInfo_chain \in Seq([ident : Fd, conn : Conn])
    /\ request_chain \in Seq(Frame) /\ notifying \in BOOLEAN
    /\ ReqRespChain \in Seq(Task)
    /\ ReqChain \in Seq(Req) /\ RespChain \in Seq(Req)
    /\ mapping \in Req \cup {0}
    /\ response_chain \in Seq(Answer)
    /\ answers \in Seq([req : Req, conn : Conn, kind : {"result", "error"}])
    /\ split \subseteq Req
    /\ reused \in BOOLEAN /\ wasReset \in BOOLEAN

Init ==
    /\ link = [c \in Conn |-> "new"]
    /\ fd = [c \in Conn |-> 0]
    /\ stream = [c \in Conn |-> <<>>]
    /\ owner = <<>>
    /\ clientInfo_chain = <<>> /\ request_chain = <<>> /\ notifying = FALSE
    /\ ReqRespChain = <<>> /\ ReqChain = <<>> /\ mapping = 0
    /\ RespChain = <<>> /\ response_chain = <<>>
    /\ answers = <<>> /\ split = {} /\ reused = FALSE /\ wasReset = FALSE

Used == {fd[c] : c \in Conn}
FreeFd == CHOOSE f \in Fd \ Used : \A g \in Fd \ Used : f <= g
\* Some request received on descriptor f is still without its answer.
Due(f) ==
    \/ \E i \in DOMAIN request_chain : request_chain[i].fd = f
    \/ \E i \in DOMAIN ReqRespChain : ReqRespChain[i].fd = f
    \/ \E i \in DOMAIN response_chain : response_chain[i].fd = f
-----------------------------------------------------------------------------
(* The clients                                                             *)

Send(c) ==
    /\ link[c] = "open"
    /\ Len(owner) < MaxReq
    /\ owner' = Append(owner, c)
    /\ stream' = [stream EXCEPT ![c] =
            @ \o <<[req |-> Len(owner'), half |-> "head"],
                   [req |-> Len(owner'), half |-> "tail"]>>]
    /\ UNCHANGED <<link, fd, clientInfo_chain, request_chain, notifying, chains, history>>

\* The client closes, or is cut off; what it has not sent yet is lost then.
Close(c) ==
    /\ link[c] = "open"
    /\ link' = [link EXCEPT ![c] = "fin"]
    /\ UNCHANGED <<fd, stream, owner, clientInfo_chain, request_chain, notifying,
                   chains, history>>

Reset(c) ==
    /\ link[c] = "open"
    /\ link' = [link EXCEPT ![c] = "rst"]
    /\ stream' = [stream EXCEPT ![c] = <<>>]
    /\ UNCHANGED <<fd, owner, clientInfo_chain, request_chain, notifying, chains, history>>
-----------------------------------------------------------------------------
(* Plausible mistakes in the code.  No specification uses them.            *)

\* The end of a connection keeps the client's entry.
RecvEofNoDeregister(c) ==
    /\ ~notifying
    /\ fd[c] # 0 /\ link[c] = "fin" /\ stream[c] = <<>>
    /\ fd' = [fd EXCEPT ![c] = 0]
    /\ link' = [link EXCEPT ![c] = "gone"]
    /\ UNCHANGED <<stream, owner, clientInfo_chain, request_chain, notifying, chains, history>>

\* The descriptor is the mapper's last one, not the task's.
ProcessResponseLastFd ==
    /\ RespChain # <<>>
    /\ LET i == chain_get_by_ident(ReqRespChain, chain_get(RespChain))
       IN  response_chain' = chain_put(response_chain,
               [req |-> ReqRespChain[i].ident,
                fd |-> ReqRespChain[Len(ReqRespChain)].fd, kind |-> "result"])
    /\ ReqRespChain' = chain_remove_by_ident(ReqRespChain, chain_get(RespChain))
    /\ RespChain' = chain_rest(RespChain)
    /\ UNCHANGED <<net, ReqChain, mapping, history>>

\* A frame is handed to the mapper before the one in front of it.
DispatchFront ==
    /\ notifying /\ Head(request_chain).ok
    /\ Head(request_chain).req \notin Unknown
    /\ LET f == Head(request_chain)
       IN  /\ ReqRespChain' = chain_put(ReqRespChain,
                  [ident |-> f.req, fd |-> f.fd, cltid |-> f.cltid])
           /\ ReqChain' = <<f.req>> \o ReqChain
    /\ request_chain' = Tail(request_chain)
    /\ notifying' = (request_chain' # <<>>)
    /\ UNCHANGED <<link, fd, stream, owner, clientInfo_chain, mapping, RespChain,
                   response_chain, history>>

\* The request is cleared before its number is put into RespChain.
MapperDoneCleared ==
    /\ mapping # 0
    /\ mapping' = 0
    /\ RespChain' = chain_put(RespChain, mapping')
    /\ UNCHANGED <<net, ReqRespChain, ReqChain, response_chain, history>>

\* The mapper forgets the request when its parameters do not map.
MapperDoneForgets ==
    /\ mapping # 0
    /\ mapping' = 0
    /\ \/ RespChain' = chain_put(RespChain, mapping)
       \/ UNCHANGED RespChain
    /\ UNCHANGED <<net, ReqRespChain, ReqChain, response_chain, history>>
-----------------------------------------------------------------------------
(* Operations on the chains; each may run out of memory                    *)

register_client_info(c, f) ==
    \/ clientInfo_chain' = chain_put(clientInfo_chain, [ident |-> f, conn |-> c])
    \/ OutOfMemory /\ UNCHANGED clientInfo_chain

deregister_client_info(f) ==
    clientInfo_chain' = chain_remove_by_ident(clientInfo_chain, f)

\* The client remembered for descriptor f, the oldest if there are several.
get_client_info(f) ==
    LET i == chain_get_by_ident(clientInfo_chain, f)
    IN  IF i = 0 THEN 0 ELSE clientInfo_chain[i].conn

schedule_response(r, f, kind) ==
    \/ response_chain' = chain_put(response_chain, [req |-> r, fd |-> f, kind |-> kind])
    \/ OutOfMemory /\ UNCHANGED response_chain

rpc_call_notification(r) ==
    \/ ReqChain' = chain_put(ReqChain, r)
    \/ OutOfMemory /\ UNCHANGED ReqChain

json_send_response(r) ==
    \/ RespChain' = chain_put(RespChain, r)
    \/ OutOfMemory /\ UNCHANGED RespChain
-----------------------------------------------------------------------------
(* The listen thread                                                       *)

\* A client connects and is accepted: register_client_info.
Accept(c) ==
    /\ ~notifying
    /\ link[c] = "new"
    /\ \A d \in 1..(c - 1) : link[d] # "new"
    /\ Fd \ Used # {}
    /\ link' = [link EXCEPT ![c] = "open"]
    /\ fd' = [fd EXCEPT ![c] = FreeFd]
    /\ register_client_info(c, FreeFd)
    /\ reused' = (reused \/ Due(FreeFd))
    /\ UNCHANGED <<stream, owner, request_chain, notifying, chains, answers, split, wasReset>>

\* Mistake: what one recv returned is one frame, without a cut between "}{".
FramesUncut(c, n) ==
    {<<[req |-> stream[c][1].req, fd |-> fd[c], cltid |-> get_client_info(fd[c]),
        ok |-> n = 2 /\ stream[c][1].half = "head"]>>}

\* The frames json_receive_data_and_notify_consumer makes of n halves of a
\* stream: it cuts between "}" and "{", and what is left over at either end is
\* a frame as well.  Each carries the client that get_client_info finds.  The
\* sequence of frames is the only member of Frames.
Whole(c, n, k) == \E j \in 1..n : j # k /\ stream[c][j].req = stream[c][k].req
First(c, n) == {k \in 1..n : stream[c][k].half = "head" \/ ~Whole(c, n, k)}
frame(c, n, k) ==
    [req |-> stream[c][k].req, ok |-> Whole(c, n, k), fd |-> fd[c],
     cltid |-> get_client_info(fd[c])]
Frames(c, n) ==
    {[m \in DOMAIN f |-> frame(c, n, f[m])] : f \in InOrder(First(c, n), n)}

\* recv returns the first n halves of what has arrived.  If a frame cannot be
\* allocated, those before it stay in request_chain until the next recv.
Recv(c) ==
    /\ ~notifying
    /\ fd[c] # 0
    /\ \E n \in 1..Len(stream[c]) :
          /\ \E frames \in Frames(c, n) :
             \/ /\ request_chain' = request_chain \o frames
                /\ notifying' = TRUE
             \/ /\ OutOfMemory
                /\ \E m \in 0..(Len(frames) - 1) :
                      request_chain' = request_chain \o SubSeq(frames, 1, m)
                /\ UNCHANGED notifying
          /\ stream' = [stream EXCEPT ![c] = SubSeq(@, n + 1, Len(@))]
          /\ split' = split \cup
                 (IF stream[c][n].half = "head" THEN {stream[c][n].req} ELSE {})
    /\ UNCHANGED <<link, fd, owner, clientInfo_chain, chains, answers, reused, wasReset>>

\* recv returns 0: deregister_client_info and close.
RecvEof(c) ==
    /\ ~notifying
    /\ fd[c] # 0 /\ link[c] = "fin" /\ stream[c] = <<>>
    /\ deregister_client_info(fd[c])
    /\ fd' = [fd EXCEPT ![c] = 0]
    /\ link' = [link EXCEPT ![c] = "gone"]
    /\ UNCHANGED <<stream, owner, request_chain, notifying, chains, history>>

\* recv fails: close alone.
RecvError(c) ==
    /\ ~notifying
    /\ fd[c] # 0 /\ link[c] = "rst"
    /\ fd' = [fd EXCEPT ![c] = 0]
    /\ link' = [link EXCEPT ![c] = "gone"]
    /\ wasReset' = TRUE
    /\ UNCHANGED <<stream, owner, clientInfo_chain, request_chain, notifying, chains,
                   answers, split, reused>>

\* json_process_request: a frame that is not a request is answered here, or
\* not at all if that answer cannot be allocated.
DispatchError ==
    /\ notifying
    /\ LET f == Head(request_chain)
       IN  /\ ~f.ok \/ f.req \in Unknown \/ OutOfMemory
           /\ schedule_response(f.req, f.fd, "error")
    /\ request_chain' = Tail(request_chain)
    /\ notifying' = (request_chain' # <<>>)
    /\ UNCHANGED <<link, fd, stream, owner, clientInfo_chain, ReqRespChain, ReqChain,
                   mapping, RespChain, history>>

\* A request goes into ReqRespChain and, by rpc_call_notification, to the
\* mapper.  That the second chain_put failed is not looked at.
Dispatch ==
    /\ notifying /\ Head(request_chain).ok
    /\ Head(request_chain).req \notin Unknown
    /\ LET f == Head(request_chain)
       IN  /\ ReqRespChain' = chain_put(ReqRespChain,
                  [ident |-> f.req, fd |-> f.fd, cltid |-> f.cltid])
           /\ rpc_call_notification(f.req)
    /\ request_chain' = Tail(request_chain)
    /\ notifying' = (request_chain' # <<>>)
    /\ UNCHANGED <<link, fd, stream, owner, clientInfo_chain, mapping, RespChain,
                   response_chain, history>>
-----------------------------------------------------------------------------
(* The mapper's ReqThread, the proxy's RespThread, the response_thread     *)

MapperGet ==
    /\ mapping = 0 /\ ReqChain # <<>>
    /\ mapping' = chain_get(ReqChain)
    /\ ReqChain' = chain_rest(ReqChain)
    /\ UNCHANGED <<net, ReqRespChain, RespChain, response_chain, history>>

\* The handler has run, or its parameters did not map: json_send_response.
MapperDone ==
    /\ mapping # 0
    /\ mapping' = 0
    /\ json_send_response(mapping)
    /\ UNCHANGED <<net, ReqRespChain, ReqChain, response_chain, history>>

\* json_process_rsponse: the request leaves ReqRespChain and its answer is
\* scheduled on the descriptor it came from.
ProcessResponse ==
    /\ RespChain # <<>>
    /\ LET i == chain_get_by_ident(ReqRespChain, chain_get(RespChain))
       IN  IF i = 0 THEN UNCHANGED response_chain
           ELSE schedule_response(ReqRespChain[i].ident, ReqRespChain[i].fd, "result")
    /\ ReqRespChain' = chain_remove_by_ident(ReqRespChain, chain_get(RespChain))
    /\ RespChain' = chain_rest(RespChain)
    /\ UNCHANGED <<net, ReqChain, mapping, history>>

\* If the descriptor is connected, the answer is sent there; a full socket
\* buffer or a client that has gone loses it.
SendResponse ==
    /\ response_chain # <<>>
    /\ LET a == chain_get(response_chain)
       IN  \/ \E c \in Conn :
                /\ fd[c] = a.fd /\ link[c] \in {"open", "fin"}
                /\ answers' = Append(answers, [req |-> a.req, conn |-> c, kind |-> a.kind])
           \/ UNCHANGED answers
    /\ response_chain' = chain_rest(response_chain)
    /\ UNCHANGED <<net, ReqRespChain, ReqChain, mapping, RespChain, split, reused, wasReset>>

Next ==
    \/ \E c \in Conn :
         \/ Send(c) \/ Close(c) \/ Reset(c)
         \/ Accept(c) \/ Recv(c) \/ RecvEof(c) \/ RecvError(c)
    \/ DispatchError \/ Dispatch
    \/ MapperGet \/ MapperDone \/ ProcessResponse \/ SendResponse

\* Every thread that has work goes on: handlers return, send does not block.
Fairness ==
    /\ WF_vars(DispatchError \/ Dispatch)
    /\ WF_vars(MapperGet \/ MapperDone)
    /\ WF_vars(ProcessResponse)
    /\ WF_vars(SendResponse)

Spec == Init /\ [][Next]_vars /\ Fairness
-----------------------------------------------------------------------------
(* Properties                                                              *)

\* The results of a connection's requests are sent in the order in which the
\* requests were, and at most once each, whoever gets them.  (An error is made
\* before the request reaches a handler and may overtake earlier results, and a
\* request that recv splits draws two.)
ResultsInOrder ==
    \A i, j \in DOMAIN answers :
        (/\ i < j
         /\ answers[i].kind = "result" /\ answers[j].kind = "result"
         /\ owner[answers[i].req] = owner[answers[j].req])
            => answers[i].req < answers[j].req

\* Unless a descriptor was given out again while answers were due on it, an
\* answer reaches the connection its request came from.
AnswerToSender ==
    ~reused => \A i \in DOMAIN answers : answers[i].conn = owner[answers[i].req]

\* Memory permitting and unless a connection ended in an error, what
\* get_client_info adds to a request (the address events are sent to later) is
\* its sender's.
ClientInfoOfSender ==
    ~wasReset /\ ~OutOfMemory => \A i \in DOMAIN ReqRespChain :
        ReqRespChain[i].cltid = owner[ReqRespChain[i].ident]

\* Requests that arrive whole are not refused for the company they arrive in:
\* memory permitting, only a request that is unknown, or between whose halves
\* recv returned, is answered with an error.
ErrorOnlyIfCut ==
    ~OutOfMemory => \A i \in DOMAIN answers :
        answers[i].kind = "error" => answers[i].req \in Unknown \cup split

\* Memory permitting, ReqRespChain holds the requests that are in the hands of
\* the mapper or of the RespThread, and no other: none leaks, none is freed
\* early.
EachInOnePlace ==
    ~OutOfMemory =>
        {ReqRespChain[i].ident : i \in DOMAIN ReqRespChain} =
            {ReqChain[i] : i \in DOMAIN ReqChain} \cup
            {RespChain[i] : i \in DOMAIN RespChain} \cup ({mapping} \ {0})

\* The two chains around the mapper and the request it works on are one queue;
\* what waits to be sent is one of answers.
Queue == RespChain \o (IF mapping = 0 THEN <<>> ELSE <<mapping>>) \o ReqChain
Outbox ==
    [i \in DOMAIN response_chain |->
        [req |-> response_chain[i].req, kind |-> response_chain[i].kind]]

Service == INSTANCE RpcService WITH Request <- Req, queue <- Queue, outbox <- Outbox

\* Every step of the pipeline is one of RpcService: accepted requests are served
\* in the order in which they came, once, none is lost while there is memory,
\* and answers are sent in the order in which they were made.
ServesInOrder == Service!Init /\ [][Service!Next]_Service!svars

\* The pipeline implements RpcService: besides, each request that is not lost is
\* served in the end, and each answer leaves.
ImplementsService == Service!Spec
=============================================================================
