-------------------------- MODULE RpcAnswerProofs ---------------------------
(***************************************************************************)
(* Every request of a service is accounted for and its answer finds its    *)
(* way: what is refused, where an answer goes, whose client info a request *)
(* carries, that the chains together are one queue, and that the pipeline  *)
(* implements RpcService.                                                  *)
(***************************************************************************)
EXTENDS RpcPipelineProofs

\* The provers that every leaf is given to.
USE ZenonT(1), SMTT(20), Zenon

USE DEF net, chains, history
-----------------------------------------------------------------------------
(* The inductive invariants                                                *)

\* Memory permitting, what is refused is unknown or was split.
CutInv ==
    ~OutOfMemory =>
        /\ \A f \in Range(request_chain) : ~f.ok => f.req \in split
        /\ \A a \in Range(response_chain) \cup Range(answers) :
              a.kind = "error" => a.req \in Unknown \cup split

\* A descriptor belongs to one connection.
FdInv ==
    /\ \A c, d \in Conn : fd[c] = fd[d] /\ fd[c] # 0 => c = d
    /\ \A c \in Conn : link[c] = "new" => fd[c] = 0

\* Until a descriptor is given out too early, whoever has the descriptor of a
\* request on its way sent that request.
Addressed(f, r) == \A c \in Conn : fd[c] = f => owner[r] = c
AddressInv ==
    ~reused =>
        /\ \A f \in Range(request_chain) : Addressed(f.fd, f.req)
        /\ \A t \in Range(ReqRespChain) : Addressed(t.fd, t.ident)
        /\ \A a \in Range(response_chain) : Addressed(a.fd, a.req)
        /\ \A a \in Range(answers) : a.conn = owner[a.req]

\* Memory permitting and before any reset, each open connection has one entry
\* in clientInfo_chain, and no other is there.
InfoInv ==
    ~wasReset /\ ~OutOfMemory =>
        /\ \A i \in 1..Len(clientInfo_chain) :
              fd[clientInfo_chain[i].conn] = clientInfo_chain[i].ident
        /\ \A i, j \in 1..Len(clientInfo_chain) :
              clientInfo_chain[i].ident = clientInfo_chain[j].ident => i = j
        /\ \A c \in Conn : fd[c] # 0 =>
              \E i \in 1..Len(clientInfo_chain) : clientInfo_chain[i].ident = fd[c]
        /\ \A f \in Range(request_chain) : f.cltid = owner[f.req]
        /\ \A t \in Range(ReqRespChain) : t.cltid = owner[t.ident]

\* Memory permitting, ReqRespChain is the queue with descriptors and clients.
QueueInv ==
    ~OutOfMemory =>
        /\ Len(ReqRespChain) = Len(Queue)
        /\ \A i \in 1..Len(Queue) : ReqRespChain[i].ident = Queue[i]
-----------------------------------------------------------------------------
(* What is refused                                                         *)

\* At the start nothing is refused.
LEMMA CutInit == Init => CutInv
<1> SUFFICES ASSUME Init PROVE CutInv
  OBVIOUS
<1>1. Range(<<>>) = {}
  BY DEF Range
<1> QED  BY <1>1 DEF Init, CutInv

\* A frame that is not a whole request is one of the two halves of a request
\* that recv has cut, now or before.
LEMMA PartIsSplit ==
    ASSUME TypeOK, StreamInv, NEW c \in Conn, NEW n \in 1..Len(stream[c]),
           NEW k \in 1..n, ~Whole(c, n, k)
    PROVE  stream[c][k].req \in split \/ (k = n /\ stream[c][n].half = "head")
<1> DEFINE s == stream[c]
<1>1. Len(s) \in Nat /\ n \in Nat /\ k \in Nat /\ k \in 1..Len(s)
  BY DEF TypeOK
<1>2. /\ s[k].half \in {"head", "tail"}
      /\ s[k].half = "head" => k < Len(s) /\ s[k + 1].req = s[k].req
      /\ s[k].half = "tail" =>
            \/ k = 1 /\ s[k].req \in split
            \/ k > 1 /\ s[k - 1].req = s[k].req
  BY <1>1, Fields DEF StreamInv, StreamOf
<1>3. \A j \in 1..n : j # k => s[j].req # s[k].req
  BY DEF Whole
<1> HIDE DEF s
<1>4. CASE s[k].half = "head"
  <2>1. ~(k + 1 \in 1..n)
    BY <1>1, <1>2, <1>3, <1>4, SMTT(30)
  <2>2. k = n
    BY <1>1, <2>1
  <2> QED  BY <1>4, <2>2 DEF s
<1>5. CASE s[k].half = "tail"
  <2>1. ~(k - 1 \in 1..n) \/ ~(k > 1)
    BY <1>1, <1>2, <1>3, <1>5
  <2>2. ~(k > 1)
    BY <1>1, <2>1
  <2> QED  BY <1>2, <1>5, <2>2 DEF s
<1> QED  BY <1>2, <1>4, <1>5

\* Every step refuses only what is unknown or was split.
LEMMA CutNext == TypeInv /\ StreamInv /\ CutInv /\ [Next]_vars => CutInv'
<1> SUFFICES ASSUME TypeInv, StreamInv, CutInv, ~OutOfMemory, [Next]_vars PROVE CutInv'
  BY DEF CutInv
<1>0. TypeOK
  BY DEF TypeInv
<1>1. ASSUME NEW c \in Conn, Recv(c) PROVE CutInv'
  <2>1. PICK n \in 1..Len(stream[c]), m \in Nat :
           \E f \in [1..m -> 1..n] : Received(c, n, m, f)
    BY <1>0, <1>1, RecvEffect
  <2>2. PICK f \in [1..m -> 1..n] : Received(c, n, m, f)
    BY <2>1
  <2>3. split' = split \cup (IF stream[c][n].half = "head" THEN {stream[c][n].req} ELSE {})
    BY <2>2 DEF Received
  <2>4. ASSUME NEW k \in First(c, n), ~frame(c, n, k).ok
        PROVE  frame(c, n, k).req \in split'
    <3>1. k \in 1..n /\ ~Whole(c, n, k) /\ frame(c, n, k).req = stream[c][k].req
      BY <2>4 DEF First, frame
    <3>2. stream[c][k].req \in split \/ (k = n /\ stream[c][n].half = "head")
      BY <1>0, <3>1, PartIsSplit
    <3> QED  BY <2>3, <3>1, <3>2
  <2>5. Range(request_chain') \subseteq
           Range(request_chain) \cup {frame(c, n, k) : k \in First(c, n)}
    BY <1>0, <2>2, ReceivedFrames
  <2>6. \A g \in Range(request_chain') : ~g.ok => g.req \in split'
    BY <2>3, <2>4, <2>5 DEF CutInv
  <2>7. UNCHANGED <<chains, answers>>
    BY <1>1 DEF Recv
  <2> QED  BY <2>3, <2>6, <2>7 DEF CutInv
<1>2. CASE DispatchError
  <2>1. PICK f \in Range(request_chain) :
           /\ ~f.ok \/ f.req \in Unknown
           /\ Range(response_chain') \subseteq Range(response_chain) \cup
                 {[req |-> f.req, fd |-> f.fd, kind |-> "error"]}
    BY <1>2, DispatchErrorEffect
  <2>2. f.req \in Unknown \cup split
    BY <2>1 DEF CutInv
  <2>3. \A a \in Range(response_chain') : a.kind = "error" => a.req \in Unknown \cup split
    BY <2>1, <2>2 DEF CutInv
  <2>4. Range(request_chain') \subseteq Range(request_chain)
    BY <1>2, DispatchErrorEffect
  <2> QED  BY <1>2, <2>3, <2>4 DEF DispatchError, CutInv
<1>3. CASE Dispatch
  BY <1>3, DispatchEffect DEF Dispatch, CutInv
<1>4. CASE ProcessResponse
  <2>1. \A a \in Range(response_chain') : a.kind = "error" => a.req \in Unknown \cup split
    <3>1. CASE UNCHANGED response_chain
      BY <3>1 DEF CutInv
    <3>2. CASE \E t \in Range(ReqRespChain) :
                  Range(response_chain') = Range(response_chain) \cup
                     {[req |-> t.ident, fd |-> t.fd, kind |-> "result"]}
      BY <3>2 DEF CutInv
    <3> QED  BY <1>0, <1>4, <3>1, <3>2, ProcessResponseEffect
  <2> QED  BY <1>4, <2>1 DEF ProcessResponse, CutInv
<1>5. CASE SendResponse
  <2> DEFINE b == chain_get(response_chain)
  <2>1. b \in Range(response_chain) /\ Range(response_chain') \subseteq Range(response_chain)
    BY <1>0, <1>5, SendResponseEffect
  <2>2. CASE UNCHANGED answers
    BY <1>5, <2>1, <2>2 DEF SendResponse, CutInv
  <2>3. CASE \E c \in Conn : Range(answers') = Range(answers) \cup
                {[req |-> b.req, conn |-> c, kind |-> b.kind]}
    <3>1. b.kind = "error" => b.req \in Unknown \cup split
      BY <2>1 DEF CutInv
    <3>2. \A a \in Range(answers') : a.kind = "error" => a.req \in Unknown \cup split
      BY <2>3, <3>1, SMTT(30) DEF CutInv
    <3> QED  BY <1>5, <2>1, <3>2 DEF SendResponse, CutInv
  <2> QED  BY <1>0, <1>5, <2>2, <2>3, SendResponseEffect
<1>6. ASSUME UNCHANGED <<request_chain, response_chain, answers, split>> PROVE CutInv'
  BY <1>6 DEF CutInv
<1>7. ASSUME NEW c \in Conn, \/ Send(c) \/ Close(c) \/ Reset(c) \/ Accept(c)
                             \/ RecvEof(c) \/ RecvError(c)
      PROVE  UNCHANGED <<request_chain, response_chain, answers, split>>
  BY <1>7 DEF Send, Close, Reset, Accept, RecvEof, RecvError
<1>8. ASSUME MapperGet \/ MapperDone \/ UNCHANGED vars
      PROVE  UNCHANGED <<request_chain, response_chain, answers, split>>
  BY <1>8 DEF MapperGet, MapperDone, vars
<1> QED  BY <1>1, <1>2, <1>3, <1>4, <1>5, <1>6, <1>7, <1>8 DEF Next
-----------------------------------------------------------------------------
(* Where an answer goes                                                    *)

\* At the start no descriptor is in use.
LEMMA FdInit == Init => FdInv
BY DEF Init, FdInv

\* A descriptor is given to one connection, and lost by it alone.
LEMMA FdNext == TypeInv /\ FdInv /\ [Next]_vars => FdInv'
<1> SUFFICES ASSUME TypeInv, FdInv, [Next]_vars PROVE FdInv'
  OBVIOUS
<1>0. DOMAIN fd = Conn /\ DOMAIN link = Conn
  BY DEF TypeInv, TypeOK
<1>1. ASSUME NEW c \in Conn, Accept(c) PROVE FdInv'
  <2>1. \A d \in Conn : fd[d] # FreeFd
    BY <1>1, FreeFdFree DEF Accept
  <2>2. /\ \A d \in Conn : fd'[d] = IF d = c THEN FreeFd ELSE fd[d]
        /\ \A d \in Conn : link'[d] = IF d = c THEN "open" ELSE link[d]
    BY <1>0, <1>1 DEF Accept
  <2> QED  BY <2>1, <2>2 DEF FdInv
<1>2. ASSUME NEW c \in Conn, RecvEof(c) \/ RecvError(c) PROVE FdInv'
  <2>1. /\ \A d \in Conn : fd'[d] = IF d = c THEN 0 ELSE fd[d]
        /\ \A d \in Conn : link'[d] = IF d = c THEN "gone" ELSE link[d]
    BY <1>0, <1>2 DEF RecvEof, RecvError
  <2> QED  BY <2>1 DEF FdInv
<1>3. ASSUME NEW c \in Conn, Send(c) \/ Close(c) \/ Reset(c) \/ Recv(c) PROVE FdInv'
  <2>1. fd' = fd /\ \A d \in Conn : link'[d] = "new" => link[d] = "new"
    BY <1>0, <1>3 DEF Send, Close, Reset, Recv
  <2> QED  BY <2>1 DEF FdInv
<1>4. ASSUME \/ DispatchError \/ Dispatch \/ MapperGet \/ MapperDone
             \/ ProcessResponse \/ SendResponse \/ UNCHANGED vars
      PROVE  FdInv'
  <2>1. UNCHANGED <<fd, link>>
    BY <1>4 DEF DispatchError, Dispatch, MapperGet, MapperDone, ProcessResponse,
                SendResponse, vars
  <2> QED  BY <2>1 DEF FdInv
<1> QED  BY <1>1, <1>2, <1>3, <1>4 DEF Next

\* At the start nothing is addressed.
LEMMA AddressInit == Init => AddressInv
<1> SUFFICES ASSUME Init PROVE AddressInv
  OBVIOUS
<1>1. Range(<<>>) = {}
  BY DEF Range
<1> QED  BY <1>1 DEF Init, AddressInv

\* The descriptors in the chains are descriptors.
LEMMA ChainFds ==
    ASSUME TypeOK
    PROVE  /\ \A f \in Range(request_chain) : f.fd \in Fd
           /\ \A t \in Range(ReqRespChain) : t.fd \in Fd
           /\ \A a \in Range(response_chain) : a.fd \in Fd
<1>1. /\ Range(request_chain) \subseteq Frame
      /\ Range(ReqRespChain) \subseteq Task
      /\ Range(response_chain) \subseteq Answer
  BY Elements DEF TypeOK
<1> QED  BY <1>1 DEF Frame, Task, Answer

\* accept records in reused that answers are due on the descriptor it gives out.
LEMMA AcceptAddress ==
    ASSUME TypeOK, AddressInv, NEW c \in Conn, Accept(c)
    PROVE  AddressInv'
<1> SUFFICES ASSUME ~reused' PROVE AddressInv'
  BY DEF AddressInv
<1>1. ~reused /\ ~Due(FreeFd)
  BY DEF Accept
<1>2. \A d \in Conn : fd'[d] = IF d = c THEN FreeFd ELSE fd[d]
  BY DEF Accept, TypeOK
<1>3. UNCHANGED <<owner, request_chain, ReqRespChain, response_chain, answers>>
  BY DEF Accept
<1>4. /\ \A f \in Range(request_chain) : f.fd # FreeFd
      /\ \A t \in Range(ReqRespChain) : t.fd # FreeFd
      /\ \A a \in Range(response_chain) : a.fd # FreeFd
  BY <1>1 DEF Due, Range
<1>5. ASSUME NEW f, NEW r, f # FreeFd, Addressed(f, r) PROVE Addressed(f, r)'
  BY <1>2, <1>3, <1>5 DEF Addressed
<1> QED  BY <1>1, <1>3, <1>4, <1>5 DEF AddressInv

\* An answer on its way is addressed to the sender of its request, or to nobody,
\* until a descriptor is given out too early.
LEMMA AddressNext ==
    TypeInv /\ SentInv /\ StreamInv /\ FdInv /\ AddressInv /\ [Next]_vars => AddressInv'
<1> SUFFICES ASSUME TypeInv, SentInv, StreamInv, FdInv, AddressInv, [Next]_vars
             PROVE  AddressInv'
  OBVIOUS
<1>0. TypeOK
  BY DEF TypeInv
<1>1. ASSUME NEW c \in Conn, Send(c) PROVE AddressInv'
  <2>1. UNCHANGED <<fd, reused, request_chain, ReqRespChain, response_chain, answers>>
    BY <1>1 DEF Send
  <2>2. \A r \in Sent : owner'[r] = owner[r]
    BY <1>0, <1>1, SendEffect
  <2>3. ASSUME NEW f, NEW r \in Sent, Addressed(f, r) PROVE Addressed(f, r)'
    BY <2>1, <2>2, <2>3 DEF Addressed
  <2> QED  BY <2>1, <2>2, <2>3 DEF AddressInv, SentInv
<1>2. ASSUME NEW c \in Conn, Accept(c) PROVE AddressInv'
  BY <1>0, <1>2, AcceptAddress
<1>3. ASSUME NEW c \in Conn, Recv(c) PROVE AddressInv'
  <2>1. PICK n \in 1..Len(stream[c]), m \in Nat :
           \E f \in [1..m -> 1..n] : Received(c, n, m, f)
    BY <1>0, <1>3, RecvEffect
  <2>2. PICK f \in [1..m -> 1..n] : Received(c, n, m, f)
    BY <2>1
  <2>3. fd[c] # 0 /\ UNCHANGED <<fd, owner, reused, ReqRespChain, response_chain, answers>>
    BY <1>3 DEF Recv
  <2>4. Len(stream[c]) \in Nat
    BY <1>0 DEF TypeOK
  <2>5. ASSUME NEW k \in First(c, n)
        PROVE  Addressed(frame(c, n, k).fd, frame(c, n, k).req)
    <3>1. k \in 1..Len(stream[c])
      BY <2>4 DEF First
    <3>2. owner[stream[c][k].req] = c
      BY <3>1 DEF StreamInv, StreamOf
    <3> QED  BY <2>3, <3>2 DEF Addressed, FdInv, frame
  <2>6. Range(request_chain') \subseteq
           Range(request_chain) \cup {frame(c, n, k) : k \in First(c, n)}
    BY <1>0, <2>2, ReceivedFrames
  <2>7. ~reused => \A g \in Range(request_chain') : Addressed(g.fd, g.req)
    BY <2>5, <2>6 DEF AddressInv
  <2> QED  BY <2>3, <2>7 DEF AddressInv, Addressed
<1>4. ASSUME NEW c \in Conn, RecvEof(c) \/ RecvError(c) PROVE AddressInv'
  <2>1. /\ UNCHANGED <<owner, reused, request_chain, ReqRespChain, response_chain, answers>>
        /\ \A d \in Conn : fd'[d] = IF d = c THEN 0 ELSE fd[d]
    BY <1>0, <1>4 DEF RecvEof, RecvError, TypeOK
  <2>2. ASSUME NEW f \in Fd, NEW r, Addressed(f, r) PROVE Addressed(f, r)'
    BY <2>1, <2>2, Numbers DEF Addressed
  <2>3. /\ \A f \in Range(request_chain) : f.fd \in Fd
        /\ \A t \in Range(ReqRespChain) : t.fd \in Fd
        /\ \A a \in Range(response_chain) : a.fd \in Fd
    BY <1>0, ChainFds
  <2> QED  BY <2>1, <2>2, <2>3 DEF AddressInv
<1>5. CASE DispatchError
  <2>1. PICK f \in Range(request_chain) :
           Range(response_chain') \subseteq Range(response_chain) \cup
              {[req |-> f.req, fd |-> f.fd, kind |-> "error"]}
    BY <1>5, DispatchErrorEffect
  <2>2. ~reused => \A a \in Range(response_chain') : Addressed(a.fd, a.req)
    BY <2>1 DEF AddressInv
  <2>3. Range(request_chain') \subseteq Range(request_chain)
    BY <1>5, DispatchErrorEffect
  <2> QED  BY <1>5, <2>2, <2>3 DEF DispatchError, AddressInv, Addressed
<1>6. CASE Dispatch
  <2>1. PICK f \in Range(request_chain) :
           Range(ReqRespChain') \subseteq Range(ReqRespChain) \cup
              {[ident |-> f.req, fd |-> f.fd, cltid |-> f.cltid]}
    BY <1>6, DispatchEffect
  <2>2. ~reused => \A t \in Range(ReqRespChain') : Addressed(t.fd, t.ident)
    BY <2>1 DEF AddressInv
  <2>3. Range(request_chain') \subseteq Range(request_chain)
    BY <1>6, DispatchEffect
  <2> QED  BY <1>6, <2>2, <2>3 DEF Dispatch, AddressInv, Addressed
<1>7. CASE ProcessResponse
  <2>1. ~reused => \A a \in Range(response_chain') : Addressed(a.fd, a.req)
    <3>1. CASE UNCHANGED response_chain
      BY <3>1 DEF AddressInv
    <3>2. CASE \E t \in Range(ReqRespChain) :
                  Range(response_chain') = Range(response_chain) \cup
                     {[req |-> t.ident, fd |-> t.fd, kind |-> "result"]}
      BY <3>2 DEF AddressInv
    <3> QED  BY <1>0, <1>7, <3>1, <3>2, ProcessResponseEffect
  <2>2. Range(ReqRespChain') \subseteq Range(ReqRespChain)
    BY <1>0, <1>7, ProcessResponseEffect
  <2> QED  BY <1>7, <2>1, <2>2 DEF ProcessResponse, AddressInv, Addressed
<1>8. CASE SendResponse
  <2> DEFINE b == chain_get(response_chain)
  <2>1. b \in Range(response_chain) /\ Range(response_chain') \subseteq Range(response_chain)
    BY <1>0, <1>8, SendResponseEffect
  <2>2. ~reused => \A a \in Range(answers') : a.conn = owner[a.req]
    <3>1. CASE UNCHANGED answers
      BY <3>1 DEF AddressInv
    <3>2. CASE \E c \in Conn : fd[c] = b.fd /\ Range(answers') = Range(answers) \cup
                  {[req |-> b.req, conn |-> c, kind |-> b.kind]}
      BY <2>1, <3>2 DEF AddressInv, Addressed
    <3> QED  BY <1>0, <1>8, <3>1, <3>2, SendResponseEffect
  <2> QED  BY <1>8, <2>1, <2>2 DEF SendResponse, AddressInv, Addressed
<1>9. ASSUME \/ \E c \in Conn : Close(c) \/ Reset(c)
             \/ MapperGet \/ MapperDone \/ UNCHANGED vars
      PROVE  AddressInv'
  <2>1. UNCHANGED <<fd, owner, reused, request_chain, ReqRespChain, response_chain, answers>>
    BY <1>9 DEF Close, Reset, MapperGet, MapperDone, vars
  <2> QED  BY <2>1 DEF AddressInv, Addressed
<1> QED  BY <1>1, <1>2, <1>3, <1>4, <1>5, <1>6, <1>7, <1>8, <1>9 DEF Next
-----------------------------------------------------------------------------
(* Whose client info a request carries                                     *)

\* At the start there are no connections and no entries.
LEMMA InfoInit == Init => InfoInv
<1> SUFFICES ASSUME Init PROVE InfoInv
  OBVIOUS
<1>1. Range(<<>>) = {} /\ 1..Len(<<>>) = {}
  BY DEF Range
<1>2. \A c \in Conn : fd[c] = 0
  BY DEF Init
<1> QED  BY <1>1, <1>2 DEF Init, InfoInv

\* The entries of clientInfo_chain alone.
Entries ==
    /\ \A i \in 1..Len(clientInfo_chain) :
          fd[clientInfo_chain[i].conn] = clientInfo_chain[i].ident
    /\ \A i, j \in 1..Len(clientInfo_chain) :
          clientInfo_chain[i].ident = clientInfo_chain[j].ident => i = j
    /\ \A c \in Conn : fd[c] # 0 =>
          \E i \in 1..Len(clientInfo_chain) : clientInfo_chain[i].ident = fd[c]

\* The fields of the entries of clientInfo_chain.
LEMMA EntryFields ==
    ASSUME TypeOK
    PROVE  /\ Len(clientInfo_chain) \in Nat
           /\ \A i \in 1..Len(clientInfo_chain) :
                /\ clientInfo_chain[i].ident \in Fd /\ clientInfo_chain[i].ident # 0
                /\ clientInfo_chain[i].conn \in Conn
<1> DEFINE S == [ident : Fd, conn : Conn]
<1>1. clientInfo_chain \in Seq(S)
  BY DEF TypeOK
<1>2. \A i \in 1..Len(clientInfo_chain) : clientInfo_chain[i] \in S
  <2> HIDE DEF S
  <2> QED  BY <1>1, ElementOfSeq
<1>3. Len(clientInfo_chain) \in Nat
  BY <1>1
<1> QED  BY <1>2, <1>3, Numbers

\* register_client_info adds the entry of the new connection.
LEMMA AcceptEntries ==
    ASSUME TypeOK, FdInv, Entries, ~OutOfMemory, NEW c \in Conn, Accept(c)
    PROVE  Entries'
<1> DEFINE q == clientInfo_chain
           n == Len(q)
           e == [ident |-> FreeFd, conn |-> c]
           S == [ident : Fd, conn : Conn]
<1>1. FreeFd \in Fd /\ \A d \in Conn : fd[d] # FreeFd
  BY FreeFdFree DEF Accept
<1>2. fd[c] = 0 /\ \A d \in Conn : fd'[d] = IF d = c THEN FreeFd ELSE fd[d]
  BY DEF Accept, FdInv, TypeOK
<1>3. q' = chain_put(q, e)
  BY DEF Accept, register_client_info
<1>4. n \in Nat /\ \A i \in 1..n : q[i].ident # 0 /\ q[i].conn \in Conn
  BY EntryFields
<1>5. Len(q') = n + 1 /\ (\A i \in 1..n : q'[i] = q[i]) /\ q'[n + 1] = e
  <2>1. q \in Seq(S) /\ e \in S
    BY <1>1 DEF TypeOK
  <2> HIDE DEF S, e
  <2>2. /\ Len(chain_put(q, e)) = Len(q) + 1
        /\ \A i \in 1..Len(q) : chain_put(q, e)[i] = q[i]
        /\ chain_put(q, e)[Len(q) + 1] = e
    BY <2>1, Put
  <2> QED  BY <1>3, <2>2
<1>6. \A i \in 1..n : fd[q[i].conn] = q[i].ident /\ q[i].conn # c /\ q[i].ident # FreeFd
  BY <1>1, <1>2, <1>4 DEF Entries
<1>7. q'[n + 1].ident = FreeFd /\ q'[n + 1].conn = c
  BY <1>5
<1>8. \A i \in 1..Len(q') : i \in 1..n \/ i = n + 1
  BY <1>4, <1>5
<1>9. 1..n \subseteq 1..Len(q') /\ n + 1 \in 1..Len(q')
  BY <1>4, <1>5
<1>10. \A i, j \in 1..n : q[i].ident = q[j].ident => i = j
  BY DEF Entries
<1>11. \A d \in Conn : fd[d] # 0 => \E i \in 1..n : q[i].ident = fd[d]
  BY DEF Entries
<1> HIDE DEF q, n
<1>12. \A i \in 1..Len(q') : fd'[q'[i].conn] = q'[i].ident
  BY <1>2, <1>4, <1>5, <1>6, <1>7, <1>8
<1>13. \A i, j \in 1..Len(q') : q'[i].ident = q'[j].ident => i = j
  BY <1>5, <1>6, <1>7, <1>8, <1>10
<1>14. \A d \in Conn : fd'[d] # 0 => \E i \in 1..Len(q') : q'[i].ident = fd'[d]
  BY <1>2, <1>5, <1>7, <1>9, <1>11
<1> QED  BY <1>12, <1>13, <1>14 DEF Entries, q

\* deregister_client_info removes the entry of the connection that has ended.
LEMMA RecvEofEntries ==
    ASSUME TypeOK, FdInv, Entries, NEW c \in Conn, RecvEof(c)
    PROVE  Entries'
<1> DEFINE q == clientInfo_chain
           n == Len(q)
           S == [ident : Fd, conn : Conn]
<1>1. fd[c] # 0 /\ \A d \in Conn : fd'[d] = IF d = c THEN 0 ELSE fd[d]
  BY DEF RecvEof, TypeOK
<1>2. q \in Seq(S) /\ q' = chain_remove_by_ident(q, fd[c])
  BY DEF TypeOK, RecvEof, deregister_client_info
<1>3. n \in Nat /\ \A i \in 1..n : q[i].ident # 0 /\ q[i].conn \in Conn
  BY EntryFields
<1>4. /\ \A i \in 1..n : fd[q[i].conn] = q[i].ident
      /\ \A i, j \in 1..n : q[i].ident = q[j].ident => i = j
      /\ \A d \in Conn : fd[d] # 0 => \E i \in 1..n : q[i].ident = fd[d]
  BY DEF Entries
<1>5. PICK i \in 1..n :
         /\ q[i].ident = fd[c]
         /\ Len(q') = n - 1
         /\ \A j \in 1..(n - 1) : q'[j] = IF j < i THEN q[j] ELSE q[j + 1]
  <2> HIDE DEF S
  <2> QED  BY <1>1, <1>2, <1>4, RemoveByIdentShape
<1> HIDE DEF q, n
<1> DEFINE g(j) == IF j < i THEN j ELSE j + 1
<1>6. \A j \in 1..(n - 1) : g(j) \in 1..n /\ g(j) # i /\ q'[j] = q[g(j)]
  BY <1>3, <1>5
<1>7. \A j, k \in 1..(n - 1) : g(j) = g(k) => j = k
  BY <1>3, <1>5
<1>8. \A k \in 1..n : k # i => \E j \in 1..(n - 1) : g(j) = k
  <2> SUFFICES ASSUME NEW k \in 1..n, k # i PROVE \E j \in 1..(n - 1) : g(j) = k
    OBVIOUS
  <2>1. CASE k < i
    <3>1. k \in 1..(n - 1) /\ g(k) = k
      BY <1>3, <1>5, <2>1
    <3> QED  BY <3>1
  <2>2. CASE k > i
    <3>1. k - 1 \in 1..(n - 1) /\ g(k - 1) = k
      BY <1>3, <1>5, <2>2
    <3> QED  BY <3>1
  <2> QED  BY <1>3, <2>1, <2>2
<1> HIDE DEF g
<1>9. \A k \in 1..n : k # i => q[k].conn # c /\ q[k].ident # fd[c]
  BY <1>4, <1>5
<1>10. \A j \in 1..(n - 1) : fd'[q'[j].conn] = q'[j].ident
  BY <1>1, <1>3, <1>4, <1>6, <1>9
<1>11. \A j, k \in 1..(n - 1) : q'[j].ident = q'[k].ident => j = k
  BY <1>4, <1>6, <1>7
<1>12. ASSUME NEW d \in Conn, fd'[d] # 0
       PROVE  \E j \in 1..(n - 1) : q'[j].ident = fd'[d]
  <2>1. d # c /\ fd'[d] = fd[d] /\ fd[d] # 0
    BY <1>1, <1>12
  <2>2. fd[d] # fd[c]
    BY <1>1, <2>1 DEF FdInv
  <2>3. PICK k \in 1..n : q[k].ident = fd[d]
    BY <1>4, <2>1
  <2>4. k # i
    BY <1>5, <2>2, <2>3
  <2> QED  BY <1>6, <1>8, <2>1, <2>3, <2>4
<1> QED  BY <1>5, <1>10, <1>11, <1>12 DEF Entries, q

\* A request carries the client info of its sender into ReqRespChain, memory
\* permitting and before any reset.
LEMMA InfoNext ==
    TypeInv /\ SentInv /\ StreamInv /\ FdInv /\ InfoInv /\ [Next]_vars => InfoInv'
<1> SUFFICES ASSUME TypeInv, SentInv, StreamInv, FdInv, InfoInv, [Next]_vars,
                    ~OutOfMemory, ~wasReset'
             PROVE  InfoInv'
  BY DEF InfoInv
<1>0. TypeOK
  BY DEF TypeInv
<1>1. ~wasReset
  <2>1. ASSUME NEW c \in Conn, \/ Send(c) \/ Close(c) \/ Reset(c) \/ Accept(c)
                               \/ Recv(c) \/ RecvEof(c) \/ RecvError(c)
        PROVE  wasReset' = wasReset \/ wasReset'
    BY <2>1 DEF Send, Close, Reset, Accept, Recv, RecvEof, RecvError
  <2>2. ASSUME \/ DispatchError \/ Dispatch \/ MapperGet \/ MapperDone
               \/ ProcessResponse \/ SendResponse \/ UNCHANGED vars
        PROVE  wasReset' = wasReset
    BY <2>2 DEF DispatchError, Dispatch, MapperGet, MapperDone, ProcessResponse,
                SendResponse, vars
  <2> QED  BY <2>1, <2>2 DEF Next
<1>2. /\ Entries
      /\ \A f \in Range(request_chain) : f.cltid = owner[f.req]
      /\ \A t \in Range(ReqRespChain) : t.cltid = owner[t.ident]
  BY <1>1 DEF InfoInv, Entries
<1> SUFFICES /\ Entries'
             /\ \A f \in Range(request_chain') : f.cltid = owner'[f.req]
             /\ \A t \in Range(ReqRespChain') : t.cltid = owner'[t.ident]
  BY DEF InfoInv, Entries
<1> DEFINE Goal == /\ Entries'
                   /\ \A f \in Range(request_chain') : f.cltid = owner'[f.req]
                   /\ \A t \in Range(ReqRespChain') : t.cltid = owner'[t.ident]
<1>3. ASSUME NEW c \in Conn, Send(c) PROVE Goal
  <2>1. UNCHANGED <<fd, clientInfo_chain, request_chain, ReqRespChain>>
    BY <1>3 DEF Send
  <2>2. \A r \in Sent : owner'[r] = owner[r]
    BY <1>0, <1>3, SendEffect
  <2> QED  BY <1>2, <2>1, <2>2 DEF Entries, SentInv
<1>4. ASSUME NEW c \in Conn, Accept(c) PROVE Goal
  <2>1. Entries'
    BY <1>0, <1>2, <1>4, AcceptEntries
  <2> QED  BY <1>2, <1>4, <2>1 DEF Accept
<1>5. ASSUME NEW c \in Conn, Recv(c) PROVE Goal
  <2>1. PICK n \in 1..Len(stream[c]), m \in Nat :
           \E f \in [1..m -> 1..n] : Received(c, n, m, f)
    BY <1>0, <1>5, RecvEffect
  <2>2. PICK f \in [1..m -> 1..n] : Received(c, n, m, f)
    BY <2>1
  <2>3. fd[c] # 0 /\ UNCHANGED <<fd, owner, clientInfo_chain, ReqRespChain>>
    BY <1>5 DEF Recv
  <2>4. get_client_info(fd[c]) = c
    <3>1. PICK i \in 1..Len(clientInfo_chain) :
             /\ clientInfo_chain[i].ident = fd[c]
             /\ get_client_info(fd[c]) = clientInfo_chain[i].conn
             /\ get_client_info(fd[c]) \in Conn
      BY <1>0, <1>2, <2>3, GetClientInfo DEF Entries
    <3> QED  BY <1>2, <2>3, <3>1, SMTT(30) DEF Entries, FdInv
  <2>5. Len(stream[c]) \in Nat
    BY <1>0 DEF TypeOK
  <2>6. ASSUME NEW k \in First(c, n)
        PROVE  frame(c, n, k).cltid = owner[frame(c, n, k).req]
    <3>1. k \in 1..Len(stream[c])
      BY <2>5 DEF First
    <3>2. owner[stream[c][k].req] = c
      BY <3>1 DEF StreamInv, StreamOf
    <3> QED  BY <2>4, <3>2 DEF frame
  <2>7. Range(request_chain') \subseteq
           Range(request_chain) \cup {frame(c, n, k) : k \in First(c, n)}
    BY <1>0, <2>2, ReceivedFrames
  <2>8. \A g \in Range(request_chain') : g.cltid = owner[g.req]
    BY <1>2, <2>6, <2>7
  <2> QED  BY <1>2, <2>3, <2>8 DEF Entries
<1>6. ASSUME NEW c \in Conn, RecvEof(c) PROVE Goal
  <2>1. Entries'
    BY <1>0, <1>2, <1>6, RecvEofEntries
  <2> QED  BY <1>2, <1>6, <2>1 DEF RecvEof
<1>7. ASSUME NEW c \in Conn, RecvError(c) PROVE Goal
  BY <1>7 DEF RecvError
<1>8. CASE DispatchError
  BY <1>2, <1>8, DispatchErrorEffect DEF DispatchError, Entries
<1>9. CASE Dispatch
  <2>1. PICK f \in Range(request_chain) :
           Range(ReqRespChain') \subseteq Range(ReqRespChain) \cup
              {[ident |-> f.req, fd |-> f.fd, cltid |-> f.cltid]}
    BY <1>9, DispatchEffect
  <2>2. \A t \in Range(ReqRespChain') : t.cltid = owner[t.ident]
    BY <1>2, <2>1
  <2>3. Range(request_chain') \subseteq Range(request_chain)
    BY <1>9, DispatchEffect
  <2> QED  BY <1>2, <1>9, <2>2, <2>3 DEF Dispatch, Entries
<1>10. CASE ProcessResponse
  BY <1>0, <1>2, <1>10, ProcessResponseEffect DEF ProcessResponse, Entries
<1>11. ASSUME \/ \E c \in Conn : Close(c) \/ Reset(c)
              \/ MapperGet \/ MapperDone \/ SendResponse \/ UNCHANGED vars
       PROVE  Goal
  <2>1. UNCHANGED <<fd, owner, clientInfo_chain, request_chain, ReqRespChain>>
    BY <1>11 DEF Close, Reset, MapperGet, MapperDone, SendResponse, vars
  <2> QED  BY <1>2, <2>1 DEF Entries
<1> QED  BY <1>3, <1>4, <1>5, <1>6, <1>7, <1>8, <1>9, <1>10, <1>11 DEF Next
-----------------------------------------------------------------------------
(* The queue                                                               *)

\* The requests x whose result is known, the one m the mapper works on, 0 for
\* none, and those, y, that wait for it.
Chained(x, m, y) == x \o (IF m = 0 THEN <<>> ELSE <<m>>) \o y

Bit(m) == IF m = 0 THEN 0 ELSE 1

Shape(q, x, m, y) ==
    /\ Len(q) = Len(x) + Bit(m) + Len(y)
    /\ \A i \in 1..Len(x) : q[i] = x[i]
    /\ m # 0 => q[Len(x) + 1] = m
    /\ \A i \in 1..Len(y) : q[Len(x) + Bit(m) + i] = y[i]

\* Chained has the elements of its three parts at their places.
LEMMA ChainedShape ==
    ASSUME NEW S, NEW x \in Seq(S), NEW y \in Seq(S), NEW m \in S \cup {0}
    PROVE  Chained(x, m, y) \in Seq(S) /\ Shape(Chained(x, m, y), x, m, y)
<1> DEFINE z == IF m = 0 THEN <<>> ELSE <<m>>
           b == Bit(m)
<1>1. z \in Seq(S) /\ Len(z) = b /\ (m # 0 => z[1] = m)
  BY DEF Bit
<1>2. Len(x) \in Nat /\ Len(y) \in Nat /\ b \in Nat /\ (m # 0 => b = 1)
  BY DEF Bit
<1> HIDE DEF z, b
<1>3. /\ x \o z \in Seq(S) /\ Len(x \o z) = Len(x) + b
      /\ \A i \in 1..(Len(x) + b) :
            (x \o z)[i] = IF i <= Len(x) THEN x[i] ELSE z[i - Len(x)]
  BY <1>1, <1>2
<1> DEFINE q == (x \o z) \o y
<1>4. /\ q \in Seq(S) /\ Len(q) = Len(x) + b + Len(y)
      /\ \A i \in 1..(Len(x) + b + Len(y)) :
            q[i] = IF i <= Len(x) + b THEN (x \o z)[i] ELSE y[i - (Len(x) + b)]
  BY <1>3
<1> HIDE DEF q
<1>5. ASSUME NEW i \in 1..Len(x) PROVE q[i] = x[i]
  <2>1. i \in 1..(Len(x) + b) /\ i \in 1..(Len(x) + b + Len(y)) /\ i <= Len(x) + b /\ i <= Len(x)
    BY <1>2
  <2> QED  BY <1>3, <1>4, <2>1
<1>6. ASSUME m # 0 PROVE q[Len(x) + 1] = m
  <2> DEFINE i == Len(x) + 1
  <2>1. i \in 1..(Len(x) + b) /\ i \in 1..(Len(x) + b + Len(y)) /\ i <= Len(x) + b
        /\ ~(i <= Len(x)) /\ i - Len(x) = 1
    BY <1>2, <1>6
  <2> HIDE DEF i
  <2>2. q[i] = (x \o z)[i]
    BY <1>4, <2>1
  <2>3. (x \o z)[i] = z[1]
    BY <1>3, <2>1
  <2> QED  BY <1>1, <1>6, <2>2, <2>3 DEF i
<1>7. ASSUME NEW i \in 1..Len(y) PROVE q[Len(x) + b + i] = y[i]
  <2> DEFINE k == Len(x) + b + i
  <2>1. k \in 1..(Len(x) + b + Len(y)) /\ ~(k <= Len(x) + b) /\ k - (Len(x) + b) = i
    BY <1>2
  <2> HIDE DEF k
  <2>2. q[k] = y[k - (Len(x) + b)]
    BY <1>4, <2>1
  <2> QED  BY <2>1, <2>2 DEF k
<1>8. Chained(x, m, y) = q
  BY DEF Chained, q, z
<1> QED  BY <1>4, <1>5, <1>6, <1>7, <1>8 DEF b, Shape

\* A sequence is its first element and the rest.
LEMMA Cons ==
    ASSUME NEW S, NEW h \in S, NEW s \in Seq(S)
    PROVE  <<h>> \o s # <<>> /\ Head(<<h>> \o s) = h /\ Tail(<<h>> \o s) = s
<1> DEFINE o == <<h>>
           q == o \o s
<1>1. o \in Seq(S) /\ Len(o) = 1 /\ o[1] = h /\ Len(s) \in Nat
  OBVIOUS
<1> HIDE DEF o
<1>2. /\ q \in Seq(S) /\ Len(q) = 1 + Len(s)
      /\ \A i \in 1..(1 + Len(s)) : q[i] = IF i <= 1 THEN o[i] ELSE s[i - 1]
  <2>1. o \in Seq(S)
    BY <1>1
  <2>2. /\ q \in Seq(S) /\ Len(q) = Len(o) + Len(s)
        /\ \A i \in 1..(Len(o) + Len(s)) : q[i] = IF i <= Len(o) THEN o[i] ELSE s[i - Len(o)]
    BY <2>1
  <2> QED  BY <1>1, <2>2
<1> HIDE DEF q
<1>3. q # <<>>
  BY <1>1, <1>2
<1>4. /\ Tail(q) \in Seq(S) /\ Len(Tail(q)) = Len(q) - 1 /\ Head(q) = q[1]
      /\ \A i \in 1..(Len(q) - 1) : Tail(q)[i] = q[i + 1]
  BY <1>2, <1>3, PopFront
<1>5. ASSUME NEW i \in 1..Len(s) PROVE s[i] = Tail(q)[i]
  <2>1. i + 1 \in 1..(1 + Len(s)) /\ ~(i + 1 <= 1) /\ (i + 1) - 1 = i /\ i \in 1..(Len(q) - 1)
    BY <1>1, <1>2
  <2>2. q[i + 1] = s[(i + 1) - 1]
    BY <1>2, <2>1
  <2> QED  BY <1>4, <2>1, <2>2
<1>6. Tail(q) = s
  BY <1>1, <1>2, <1>4, <1>5
<1>7. Head(q) = h
  BY <1>1, <1>2, <1>4
<1> QED  BY <1>3, <1>6, <1>7 DEF q, o

\* A chain is its first element and the rest.
LEMMA Uncons ==
    ASSUME NEW S, NEW s \in Seq(S), s # <<>>
    PROVE  Head(s) \in S /\ Tail(s) \in Seq(S) /\ s = <<Head(s)>> \o Tail(s)
<1>1. Len(s) \in Nat \ {0} /\ Head(s) = s[1] /\ Head(s) \in S /\ Tail(s) \in Seq(S)
  BY PopFront
<1>2. 1 \in 1..Len(s) /\ Len(s) \in 1..Len(s) /\ 1 + 1 = 2
  BY <1>1
<1>3. SubSeq(s, 1, Len(s)) = <<s[1]>> \o SubSeq(s, 2, Len(s))
  BY <1>2
<1>4. SubSeq(s, 1, Len(s)) = s /\ Tail(s) = SubSeq(s, 2, Len(s))
  OBVIOUS
<1> QED  BY <1>1, <1>3, <1>4

\* A request put behind y is put behind the queue.
LEMMA ChainedPut ==
    ASSUME NEW S, NEW x \in Seq(S), NEW y \in Seq(S), NEW m \in S \cup {0}, NEW r \in S
    PROVE  Chained(x, m, Append(y, r)) = Append(Chained(x, m, y), r)
<1> DEFINE z == IF m = 0 THEN <<>> ELSE <<m>>
           o == <<r>>
<1>1. z \in Seq(S) /\ o \in Seq(S)
  OBVIOUS
<1>2. Append(y, r) = y \o o
  OBVIOUS
<1> HIDE DEF z
<1>3. x \o z \in Seq(S) /\ (x \o z) \o y \in Seq(S)
  BY <1>1
<1>4. Append((x \o z) \o y, r) = ((x \o z) \o y) \o o
  BY <1>3
<1> HIDE DEF o
<1>5. ((x \o z) \o y) \o o = (x \o z) \o (y \o o)
  BY <1>1, <1>3
<1> QED  BY <1>2, <1>4, <1>5 DEF Chained, z

\* The first of y becoming the one the mapper works on leaves the queue alone.
LEMMA ChainedGet ==
    ASSUME NEW S, NEW x \in Seq(S), NEW y \in Seq(S), y # <<>>, 0 \notin S
    PROVE  Chained(x, Head(y), Tail(y)) = Chained(x, 0, y)
<1> DEFINE h == Head(y)
           o == <<h>>
           t == Tail(y)
<1>1. h \in S /\ h # 0 /\ t \in Seq(S) /\ y = o \o t /\ o \in Seq(S)
  BY Uncons
<1>2. x \o <<>> = x
  OBVIOUS
<1> HIDE DEF o, t
<1>3. (x \o o) \o t = x \o (o \o t)
  BY <1>1
<1> QED  BY <1>1, <1>2, <1>3 DEF Chained, o, t

\* Nor does the one the mapper has done becoming the last of x change it.
LEMMA ChainedDone ==
    ASSUME NEW S, NEW x \in Seq(S), NEW y \in Seq(S), NEW m \in S, m # 0
    PROVE  Chained(Append(x, m), 0, y) = Chained(x, m, y)
<1>1. Append(x, m) = x \o <<m>> /\ Append(x, m) \in Seq(S)
  OBVIOUS
<1>2. Append(x, m) \o <<>> = Append(x, m)
  BY <1>1
<1> QED  BY <1>1, <1>2 DEF Chained

\* The concatenation, for steps that need only its laws.
Cat(s, t) == s \o t

\* Concatenation is associative.
LEMMA CatLaws ==
    ASSUME NEW S, NEW s \in Seq(S), NEW t \in Seq(S), NEW u \in Seq(S)
    PROVE  Cat(s, t) \in Seq(S) /\ Cat(Cat(s, t), u) = Cat(s, Cat(t, u))
<1>1. (s \o t) \o u = s \o (t \o u)
  OBVIOUS
<1>2. s \o t \in Seq(S)
  OBVIOUS
<1> QED  BY <1>1, <1>2 DEF Cat

\* The first of x is the first of the queue.
LEMMA ChainedRest ==
    ASSUME NEW S, NEW x \in Seq(S), NEW y \in Seq(S), NEW m \in S \cup {0}, x # <<>>
    PROVE  /\ Chained(x, m, y) # <<>>
           /\ Head(Chained(x, m, y)) = Head(x)
           /\ Tail(Chained(x, m, y)) = Chained(Tail(x), m, y)
<1> DEFINE z == IF m = 0 THEN <<>> ELSE <<m>>
           h == Head(x)
           o == <<h>>
           t == Tail(x)
<1>1. z \in Seq(S)
  OBVIOUS
<1>2. h \in S /\ t \in Seq(S) /\ x = Cat(o, t) /\ o \in Seq(S)
  BY Uncons DEF Cat
<1>3. Chained(x, m, y) = Cat(Cat(x, z), y) /\ Chained(t, m, y) = Cat(Cat(t, z), y)
  BY DEF Chained, Cat
<1> HIDE DEF z, t
<1>4. Cat(Cat(t, z), y) \in Seq(S)
  BY <1>1, <1>2, CatLaws
<1>5. /\ Cat(o, Cat(Cat(t, z), y)) # <<>>
      /\ Head(Cat(o, Cat(Cat(t, z), y))) = h
      /\ Tail(Cat(o, Cat(Cat(t, z), y))) = Cat(Cat(t, z), y)
  <2> DEFINE w == Cat(Cat(t, z), y)
  <2> HIDE DEF w
  <2>1. w \in Seq(S)
    BY <1>4 DEF w
  <2>2. o \o w # <<>> /\ Head(o \o w) = h /\ Tail(o \o w) = w
    BY <1>2, <2>1, Cons
  <2>3. Cat(o, w) # <<>> /\ Head(Cat(o, w)) = h /\ Tail(Cat(o, w)) = w
    BY <2>2 DEF Cat
  <2> QED  BY <2>3 DEF w
<1> HIDE DEF o, h
<1>6. Cat(Cat(o, t), z) = Cat(o, Cat(t, z)) /\ Cat(t, z) \in Seq(S)
  BY <1>1, <1>2, CatLaws
<1>7. Cat(Cat(o, Cat(t, z)), y) = Cat(o, Cat(Cat(t, z), y))
  BY <1>2, <1>6, CatLaws
<1>8. Cat(Cat(x, z), y) = Cat(o, Cat(Cat(t, z), y))
  BY <1>2, <1>6, <1>7
<1> QED  BY <1>3, <1>5, <1>8 DEF h, t

\* The one the mapper works on is gone: the queue without it.
LEMMA ChainedLose ==
    ASSUME NEW S, NEW x \in Seq(S), NEW y \in Seq(S), NEW m \in S, m # 0, NEW z, z = 0
    PROVE  /\ Len(x) + 1 \in 1..Len(Chained(x, m, y))
           /\ Chained(x, z, y) = unlink(Chained(x, m, y), Len(x) + 1)
<1> DEFINE q == Chained(x, m, y)
           t == Chained(x, z, y)
           n == Len(x) + 1
           u == unlink(q, n)
<1>1. /\ q \in Seq(S) /\ Len(x) \in Nat /\ Len(y) \in Nat
      /\ Len(q) = Len(x) + 1 + Len(y)
      /\ \A i \in 1..Len(x) : q[i] = x[i]
      /\ \A i \in 1..Len(y) : q[Len(x) + 1 + i] = y[i]
  <2>1. m \in S \cup {0} /\ Bit(m) = 1
    BY DEF Bit
  <2>2. q \in Seq(S) /\ Shape(q, x, m, y)
    BY <2>1, ChainedShape
  <2> HIDE DEF q
  <2> QED  BY <2>1, <2>2 DEF Shape
<1>2. /\ t \in Seq(S) /\ Len(t) = Len(x) + Len(y)
      /\ \A i \in 1..Len(x) : t[i] = x[i]
      /\ \A i \in 1..Len(y) : t[Len(x) + i] = y[i]
  <2>1. z \in S \cup {0} /\ Bit(z) = 0
    BY DEF Bit
  <2>2. t \in Seq(S) /\ Shape(t, x, z, y)
    BY <2>1, ChainedShape
  <2> HIDE DEF t
  <2> QED  BY <1>1, <2>1, <2>2 DEF Shape
<1>3. n \in 1..Len(q)
  BY <1>1
<1> HIDE DEF q, t
<1>4. /\ u \in Seq(S) /\ Len(u) = Len(q) - 1
      /\ \A j \in 1..(Len(q) - 1) : u[j] = IF j < n THEN q[j] ELSE q[j + 1]
  BY <1>1, <1>3, Unlink
<1> HIDE DEF u
<1>5. ASSUME NEW j \in 1..Len(t) PROVE t[j] = u[j]
  <2>1. j \in 1..(Len(q) - 1)
    BY <1>1, <1>2
  <2>2. CASE j <= Len(x)
    <3>1. j \in 1..Len(x) /\ j < n
      BY <1>1, <2>2
    <3> QED  BY <1>1, <1>2, <1>4, <2>1, <3>1
  <2>3. CASE ~(j <= Len(x))
    <3> DEFINE k == j - Len(x)
    <3>1. k \in 1..Len(y) /\ ~(j < n) /\ j = Len(x) + k /\ j + 1 = Len(x) + 1 + k
      BY <1>1, <1>2, <2>3
    <3> HIDE DEF k, n
    <3>2. u[j] = q[j + 1]
      BY <1>4, <2>1, <3>1
    <3> QED  BY <1>1, <1>2, <3>1, <3>2
  <2> QED  BY <2>2, <2>3
<1>6. t = u
  <2>1. Len(t) = Len(u)
    BY <1>1, <1>2, <1>4
  <2> QED  BY <1>2, <1>4, <1>5, <2>1
<1> QED  BY <1>3, <1>6 DEF q, t, u

\* What the steps of the threads do to the queue.
LEMMA QueueChained ==
    /\ Queue = Chained(RespChain, mapping, ReqChain)
    /\ Queue' = Chained(RespChain', mapping', ReqChain')
BY DEF Queue, Chained

\* Dispatch puts its request at the end of the queue, or loses it.
LEMMA DispatchQueue ==
    ASSUME TypeInv, Dispatch
    PROVE  LET r == Head(request_chain).req
           IN  r \in Req /\ (Queue' = Append(Queue, r) \/ (OutOfMemory /\ Queue' = Queue))
<1> DEFINE r == Head(request_chain).req
<1>0. TypeOK /\ RespChain \in Seq(Req) /\ ReqChain \in Seq(Req) /\ mapping \in Req \cup {0}
  BY DEF TypeInv, TypeOK
<1>1. r \in Req
  <2>1. request_chain \in Seq(Frame) /\ request_chain # <<>>
    BY DEF TypeInv, TypeOK, Dispatch
  <2>2. Head(request_chain) \in Frame
    <3> HIDE DEF Frame
    <3> QED  BY <2>1, PopFront
  <2> QED  BY <2>2 DEF Frame
<1> HIDE DEF r
<1>2. /\ UNCHANGED <<RespChain, mapping>>
      /\ ReqChain' = Append(ReqChain, r) \/ (OutOfMemory /\ ReqChain' = ReqChain)
  BY DEF Dispatch, rpc_call_notification, chain_put, r
<1>3. Chained(RespChain, mapping, Append(ReqChain, r)) = Append(Queue, r)
  BY <1>0, <1>1, ChainedPut, QueueChained
<1>4. Queue' = Append(Queue, r) \/ (OutOfMemory /\ Queue' = Queue)
  BY <1>2, <1>3, QueueChained
<1> QED  BY <1>1, <1>4 DEF r

\* Taking a request from ReqChain leaves the queue as it is.
LEMMA MapperGetQueue ==
    ASSUME TypeOK, MapperGet
    PROVE  Queue' = Queue
<1>1. RespChain \in Seq(Req) /\ ReqChain \in Seq(Req) /\ ReqChain # <<>> /\ 0 \notin Req
  BY Numbers DEF TypeOK, MapperGet
<1>2. Chained(RespChain, Head(ReqChain), Tail(ReqChain)) = Chained(RespChain, 0, ReqChain)
  BY <1>1, ChainedGet
<1>3. /\ mapping = 0 /\ mapping' = Head(ReqChain)
      /\ ReqChain' = Tail(ReqChain) /\ RespChain' = RespChain
  BY DEF MapperGet, chain_get, chain_rest
<1> QED  BY <1>2, <1>3, QueueChained

\* Handing a request to RespChain leaves the queue as it is, or loses it.
LEMMA MapperDoneQueue ==
    ASSUME TypeOK, MapperDone
    PROVE  \/ Queue' = Queue
           \/ OutOfMemory /\ \E i \in 1..Len(Queue) : Queue' = unlink(Queue, i)
<1>1. RespChain \in Seq(Req) /\ ReqChain \in Seq(Req) /\ mapping \in Req /\ mapping # 0
  BY Numbers DEF TypeOK, MapperDone
<1>2. mapping' = 0 /\ ReqChain' = ReqChain
  BY DEF MapperDone
<1>3. CASE RespChain' = chain_put(RespChain, mapping)
  <2>1. Chained(Append(RespChain, mapping), 0, ReqChain) = Chained(RespChain, mapping, ReqChain)
    BY <1>1, ChainedDone
  <2> QED  BY <1>2, <1>3, <2>1, QueueChained DEF chain_put
<1>4. CASE OutOfMemory /\ UNCHANGED RespChain
  <2>1. /\ Len(RespChain) + 1 \in 1..Len(Queue)
        /\ Chained(RespChain, mapping', ReqChain) = unlink(Queue, Len(RespChain) + 1)
    BY <1>1, <1>2, ChainedLose, QueueChained
  <2>2. Queue' = unlink(Queue, Len(RespChain) + 1)
    BY <1>2, <1>4, <2>1, QueueChained
  <2> QED  BY <1>4, <2>1, <2>2
<1> QED  BY <1>3, <1>4 DEF MapperDone, json_send_response

\* RespThread serves the first request of the queue.
LEMMA ProcessResponseQueue ==
    ASSUME TypeOK, ProcessResponse
    PROVE  Queue # <<>> /\ Head(Queue) = Head(RespChain) /\ Queue' = Tail(Queue)
<1>1. RespChain \in Seq(Req) /\ ReqChain \in Seq(Req) /\ mapping \in Req \cup {0}
      /\ RespChain # <<>>
  BY DEF TypeOK, ProcessResponse
<1>2. /\ Queue # <<>> /\ Head(Queue) = Head(RespChain)
      /\ Tail(Queue) = Chained(Tail(RespChain), mapping, ReqChain)
  BY <1>1, ChainedRest, QueueChained
<1>3. RespChain' = Tail(RespChain) /\ UNCHANGED <<mapping, ReqChain>>
  BY DEF ProcessResponse, chain_rest
<1> QED  BY <1>2, <1>3, QueueChained

\* The queue is a sequence of requests.
LEMMA QueueType ==
    ASSUME TypeOK
    PROVE  Queue \in Seq(Req)
<1>1. RespChain \in Seq(Req) /\ ReqChain \in Seq(Req) /\ mapping \in Req \cup {0}
  BY DEF TypeOK
<1> QED  BY <1>1, ChainedShape, QueueChained

\* At the start the queue and ReqRespChain are empty.
LEMMA QueueInit == Init => QueueInv
<1> SUFFICES ASSUME Init PROVE QueueInv
  OBVIOUS
<1>1. Queue = <<>> /\ ReqRespChain = <<>>
  BY DEF Init, Queue
<1> QED  BY <1>1 DEF QueueInv

\* Dispatch adds to both ends alike, and the answer to the first of the queue is
\* the first ProcessResponse finds.
LEMMA QueueNext == TypeInv /\ QueueInv /\ [Next]_vars => QueueInv'
<1> SUFFICES ASSUME TypeInv, QueueInv, [Next]_vars, ~OutOfMemory
             PROVE  /\ Len(ReqRespChain') = Len(Queue')
                    /\ \A i \in 1..Len(Queue') : ReqRespChain'[i].ident = Queue'[i]
  BY DEF QueueInv
<1> DEFINE Goal == /\ Len(ReqRespChain') = Len(Queue')
                   /\ \A i \in 1..Len(Queue') : ReqRespChain'[i].ident = Queue'[i]
<1>0. TypeOK /\ ReqRespChain \in Seq(Task) /\ Queue \in Seq(Req) /\ Len(Queue) \in Nat
  BY QueueType DEF TypeInv, TypeOK
<1>1. /\ Len(ReqRespChain) = Len(Queue)
      /\ \A i \in 1..Len(Queue) : ReqRespChain[i].ident = Queue[i]
  BY DEF QueueInv
<1>2. CASE Dispatch
  <2> DEFINE h == Head(request_chain)
             r == h.req
             e == [ident |-> r, fd |-> h.fd, cltid |-> h.cltid]
  <2>1. r \in Req /\ Queue' = Append(Queue, r)
    BY <1>2, DispatchQueue
  <2>2. ReqRespChain' = Append(ReqRespChain, e) /\ e \in Task
    <3>1. request_chain \in Seq(Frame) /\ request_chain # <<>>
      BY <1>2 DEF TypeInv, TypeOK, Dispatch
    <3>2. h \in Frame
      <4> HIDE DEF Frame
      <4> QED  BY <3>1, PopFront
    <3> QED  BY <1>2, <3>2 DEF Dispatch, chain_put, Frame, Task
  <2>3. e.ident = r
    OBVIOUS
  <2> HIDE DEF r, e
  <2>4. /\ Len(Queue') = Len(Queue) + 1 /\ Queue'[Len(Queue) + 1] = r
        /\ \A i \in 1..Len(Queue) : Queue'[i] = Queue[i]
    BY <1>0, <2>1
  <2>5. /\ Len(ReqRespChain') = Len(ReqRespChain) + 1
        /\ ReqRespChain'[Len(ReqRespChain) + 1] = e
        /\ \A i \in 1..Len(ReqRespChain) : ReqRespChain'[i] = ReqRespChain[i]
    BY <1>0, <2>2
  <2>6. \A i \in 1..(Len(Queue) + 1) : i \in 1..Len(Queue) \/ i = Len(Queue) + 1
    BY <1>0
  <2> QED  BY <1>1, <2>3, <2>4, <2>5, <2>6
<1>3. CASE ProcessResponse
  <2>1. Queue # <<>> /\ Queue' = Tail(Queue)
    BY <1>0, <1>3, ProcessResponseQueue
  <2>2. /\ Len(Queue) \in Nat \ {0} /\ Head(Queue) = Queue[1]
        /\ Len(Queue') = Len(Queue) - 1
        /\ \A j \in 1..(Len(Queue) - 1) : Queue'[j] = Queue[j + 1]
    BY <1>0, <2>1, PopFront
  <2>3. ReqRespChain' = chain_remove_by_ident(ReqRespChain, Queue[1])
    BY <1>0, <1>3, <2>2, ProcessResponseQueue DEF ProcessResponse, chain_get
  <2>4. 1 \in 1..Len(ReqRespChain) /\ ReqRespChain[1].ident = Queue[1]
    BY <1>1, <2>2
  <2>5. PICK i \in 1..Len(ReqRespChain) :
           /\ \A j \in 1..Len(ReqRespChain) : ReqRespChain[j].ident = Queue[1] => i <= j
           /\ Len(ReqRespChain') = Len(ReqRespChain) - 1
           /\ \A j \in 1..(Len(ReqRespChain) - 1) : ReqRespChain'[j] =
                 IF j < i THEN ReqRespChain[j] ELSE ReqRespChain[j + 1]
    <3> DEFINE k == Queue[1]
    <3>1. /\ ReqRespChain \in Seq(Task) /\ ReqRespChain' = chain_remove_by_ident(ReqRespChain, k)
          /\ 1 \in 1..Len(ReqRespChain) /\ ReqRespChain[1].ident = k
      BY <1>0, <2>3, <2>4
    <3> HIDE DEF k, Task
    <3>2. \E i \in 1..Len(ReqRespChain) :
           /\ \A j \in 1..Len(ReqRespChain) : ReqRespChain[j].ident = k => i <= j
           /\ Len(ReqRespChain') = Len(ReqRespChain) - 1
           /\ \A j \in 1..(Len(ReqRespChain) - 1) : ReqRespChain'[j] =
                 IF j < i THEN ReqRespChain[j] ELSE ReqRespChain[j + 1]
      BY <3>1, RemoveByIdentShape
    <3> QED  BY <3>2 DEF k
  <2>6. i = 1
    BY <2>4, <2>5
  <2>7. \A j \in 1..(Len(Queue) - 1) : j + 1 \in 1..Len(Queue) /\ ~(j < 1)
    BY <2>2
  <2>8. \A j \in 1..(Len(Queue) - 1) : ReqRespChain'[j] = ReqRespChain[j + 1]
    BY <1>1, <2>5, <2>6, <2>7
  <2> QED  BY <1>1, <2>2, <2>5, <2>7, <2>8
<1>4. CASE MapperGet
  <2>1. Queue' = Queue /\ ReqRespChain' = ReqRespChain
    BY <1>0, <1>4, MapperGetQueue DEF MapperGet
  <2> QED  BY <1>1, <2>1
<1>5. CASE MapperDone
  <2>1. Queue' = Queue /\ ReqRespChain' = ReqRespChain
    BY <1>0, <1>5, MapperDoneQueue DEF MapperDone
  <2> QED  BY <1>1, <2>1
<1>6. CASE \/ \E c \in Conn : \/ Send(c) \/ Close(c) \/ Reset(c) \/ Accept(c)
                             \/ Recv(c) \/ RecvEof(c) \/ RecvError(c)
           \/ DispatchError \/ SendResponse \/ UNCHANGED vars
  <2>1. UNCHANGED <<ReqRespChain, ReqChain, mapping, RespChain>>
    BY <1>6 DEF Send, Close, Reset, Accept, Recv, RecvEof, RecvError, DispatchError,
                SendResponse, vars
  <2>2. Queue' = Queue
    BY <2>1, QueueChained
  <2> QED  BY <1>1, <2>1, <2>2
<1> QED  BY <1>2, <1>3, <1>4, <1>5, <1>6 DEF Next
-----------------------------------------------------------------------------
(* RpcService                                                              *)

\* The answers of a chain without their descriptors.
Posted == [req : Req, kind : {"result", "error"}]
Post == [a \in Answer |-> [req |-> a.req, kind |-> a.kind]]
Out(s) == Image(Post, s)

\* What the abstract service keeps of an answer.
LEMMA PostType == Post \in [Answer -> Posted]
BY DEF Post, Answer, Posted

\* An answer scheduled is one added to the outbox, and one sent is taken from it.
LEMMA OutPut ==
    ASSUME NEW q \in Seq(Answer), NEW a \in Answer
    PROVE  Out(Append(q, a)) = Append(Out(q), [req |-> a.req, kind |-> a.kind])
<1>1. Image(Post, Append(q, a)) = Append(Image(Post, q), Post[a])
  BY PostType, ImagePut
<1> QED  BY <1>1 DEF Out, Post

\* Sending the first answer sends the first of the outbox.
LEMMA OutRest ==
    ASSUME NEW q \in Seq(Answer), q # <<>>
    PROVE  Out(q) # <<>> /\ Out(Tail(q)) = Tail(Out(q))
BY PostType, ImageRest DEF Out, FirstAndRest

\* To lose the first of the queue is to have the rest of it.
LEMMA TailUnlink ==
    ASSUME NEW S, NEW q \in Seq(S), q # <<>>
    PROVE  1 \in 1..Len(q) /\ Tail(q) = unlink(q, 1)
<1> DEFINE u == unlink(q, 1)
           t == Tail(q)
<1>1. /\ Len(q) \in Nat \ {0} /\ t \in Seq(S) /\ Len(t) = Len(q) - 1
      /\ \A j \in 1..(Len(q) - 1) : t[j] = q[j + 1]
  BY PopFront
<1>2. 1 \in 1..Len(q)
  BY <1>1
<1>3. /\ u \in Seq(S) /\ Len(u) = Len(q) - 1
      /\ \A j \in 1..(Len(q) - 1) : u[j] = IF j < 1 THEN q[j] ELSE q[j + 1]
  BY <1>2, Unlink
<1> HIDE DEF u, t
<1>4. \A j \in 1..Len(t) : t[j] = u[j]
  BY <1>1, <1>3
<1>5. t = u
  BY <1>1, <1>3, <1>4
<1> QED  BY <1>2, <1>5 DEF t, u

\* The outbox is the image of response_chain, before and after a step.
LEMMA OutboxOut ==
    ASSUME TypeOK, TypeOK'
    PROVE  Outbox = Out(response_chain) /\ Outbox' = Out(response_chain')
<1>1. ASSUME NEW s \in Seq(Answer)
      PROVE  [i \in DOMAIN s |-> [req |-> s[i].req, kind |-> s[i].kind]] = Out(s)
  <2>1. DOMAIN s = 1..Len(s) /\ \A i \in 1..Len(s) : s[i] \in Answer
    OBVIOUS
  <2>2. \A i \in 1..Len(s) : Post[s[i]] = [req |-> s[i].req, kind |-> s[i].kind]
    BY <2>1 DEF Post
  <2> QED  BY <2>1, <2>2 DEF Out, Image
<1>2. response_chain \in Seq(Answer) /\ response_chain' \in Seq(Answer)
  BY DEF TypeOK
<1> QED  BY <1>1, <1>2 DEF Outbox

\* schedule_response adds to the outbox, or memory has run out.
LEMMA ScheduleResponse ==
    ASSUME TypeOK, TypeOK', NEW r \in Req, NEW f \in Fd,
           NEW kind \in {"result", "error"}, schedule_response(r, f, kind)
    PROVE  \/ Outbox' = Append(Outbox, [req |-> r, kind |-> kind])
           \/ OutOfMemory /\ Outbox' = Outbox
<1> DEFINE a == [req |-> r, fd |-> f, kind |-> kind]
<1>1. /\ response_chain \in Seq(Answer) /\ a \in Answer
      /\ a.req = r /\ a.kind = kind
  BY DEF TypeOK, Answer
<1>2. response_chain' = Append(response_chain, a) \/ (OutOfMemory /\ response_chain' = response_chain)
  BY DEF schedule_response, chain_put
<1> HIDE DEF a
<1>3. Out(Append(response_chain, a)) = Append(Out(response_chain), [req |-> a.req, kind |-> a.kind])
  BY <1>1, OutPut
<1> QED  BY <1>1, <1>2, <1>3, OutboxOut

\* A service that starts is an abstract service that starts.
LEMMA ServiceInit == Init => Service!Init
<1> SUFFICES ASSUME Init PROVE Service!Init
  OBVIOUS
<1>1. Queue = <<>>
  BY DEF Init, Queue
<1>2. Outbox = <<>>
  <2>1. response_chain = <<>>
    BY DEF Init
  <2> QED  BY <2>1 DEF Outbox
<1> QED  BY <1>1, <1>2 DEF Service!Init

\* A step of the pipeline is a step of RpcService, or it changes neither the
\* queue nor the outbox.
LEMMA ServiceNext ==
    TypeInv /\ TypeInv' /\ QueueInv /\ [Next]_vars => [Service!Next]_Service!svars
<1> SUFFICES ASSUME TypeInv, TypeInv', QueueInv, [Next]_vars
             PROVE  Service!Next \/ (Queue' = Queue /\ Outbox' = Outbox)
  BY DEF Service!svars
<1> DEFINE Goal == Service!Next \/ (Queue' = Queue /\ Outbox' = Outbox)
<1>0. TypeOK /\ TypeOK' /\ Queue \in Seq(Req) /\ DOMAIN Queue = 1..Len(Queue)
  BY QueueType DEF TypeInv
<1>1. CASE \/ \E c \in Conn : \/ Send(c) \/ Close(c) \/ Reset(c) \/ Accept(c)
                             \/ Recv(c) \/ RecvEof(c) \/ RecvError(c)
           \/ UNCHANGED vars
  <2>1. UNCHANGED <<ReqChain, mapping, RespChain, response_chain>>
    BY <1>1 DEF Send, Close, Reset, Accept, Recv, RecvEof, RecvError, vars
  <2> QED  BY <1>0, <2>1, QueueChained, OutboxOut
<1>2. CASE DispatchError
  <2> DEFINE h == Head(request_chain)
  <2>1. UNCHANGED <<ReqChain, mapping, RespChain>> /\ schedule_response(h.req, h.fd, "error")
    BY <1>2 DEF DispatchError
  <2>2. h.req \in Req /\ h.fd \in Fd
    <3>1. request_chain \in Seq(Frame) /\ request_chain # <<>>
      BY <1>2 DEF TypeInv, TypeOK, DispatchError
    <3>2. h \in Frame
      <4> HIDE DEF Frame
      <4> QED  BY <3>1, PopFront
    <3> QED  BY <3>2 DEF Frame
  <2>3. \/ Outbox' = Append(Outbox, [req |-> h.req, kind |-> "error"])
        \/ OutOfMemory /\ Outbox' = Outbox
    <3> HIDE DEF h
    <3> QED  BY <1>0, <2>1, <2>2, ScheduleResponse
  <2>4. Queue' = Queue
    BY <2>1, QueueChained
  <2>5. CASE Outbox' = Append(Outbox, [req |-> h.req, kind |-> "error"])
    <3>1. Service!Refuse(h.req)
      BY <2>4, <2>5 DEF Service!Refuse
    <3> QED  BY <2>2, <3>1 DEF Service!Next
  <2> QED  BY <2>3, <2>4, <2>5
<1>3. CASE Dispatch
  <2> DEFINE r == Head(request_chain).req
  <2>1. r \in Req /\ (Queue' = Append(Queue, r) \/ (OutOfMemory /\ Queue' = Queue))
    BY <1>3, DispatchQueue
  <2>2. Outbox' = Outbox
    BY <1>0, <1>3, OutboxOut DEF Dispatch
  <2>3. CASE Queue' = Append(Queue, r)
    <3>1. Service!Accept(r)
      BY <2>2, <2>3 DEF Service!Accept
    <3> QED  BY <2>1, <3>1 DEF Service!Next
  <2> QED  BY <2>1, <2>2, <2>3
<1>4. CASE MapperGet
  BY <1>0, <1>4, MapperGetQueue, OutboxOut DEF MapperGet
<1>5. CASE MapperDone
  <2>1. Outbox' = Outbox
    BY <1>0, <1>5, OutboxOut DEF MapperDone
  <2>2. CASE OutOfMemory /\ \E i \in 1..Len(Queue) : Queue' = unlink(Queue, i)
    <3>1. Service!Lose
      BY <1>0, <2>1, <2>2 DEF Service!Lose, unlink
    <3> QED  BY <3>1 DEF Service!Next
  <2> QED  BY <1>0, <1>5, <2>1, <2>2, MapperDoneQueue
<1>6. CASE ProcessResponse
  <2> DEFINE i == chain_get_by_ident(ReqRespChain, Head(Queue))
  <2>1. Queue # <<>> /\ Head(Queue) = Head(RespChain) /\ Queue' = Tail(Queue)
    BY <1>0, <1>6, ProcessResponseQueue
  <2>2. IF i = 0 THEN response_chain' = response_chain
        ELSE schedule_response(ReqRespChain[i].ident, ReqRespChain[i].fd, "result")
    BY <1>6, <2>1 DEF ProcessResponse, chain_get
  <2>3. \/ /\ i = 0
           /\ \A j \in 1..Len(ReqRespChain) : ReqRespChain[j].ident # Head(Queue)
        \/ i \in 1..Len(ReqRespChain) /\ ReqRespChain[i].ident = Head(Queue)
    <3>1. ReqRespChain \in Seq(Task)
      BY <1>0 DEF TypeOK
    <3> HIDE DEF Task
    <3> QED  BY <3>1, GetByIdent
  <2>4. ASSUME OutOfMemory, Outbox' = Outbox PROVE Goal
    <3>1. 1 \in 1..Len(Queue) /\ Queue' = unlink(Queue, 1)
      BY <1>0, <2>1, TailUnlink
    <3>2. Service!Lose
      BY <1>0, <2>4, <3>1 DEF Service!Lose, unlink
    <3> QED  BY <3>2 DEF Service!Next
  <2>5. CASE i = 0
    <3>1. Outbox' = Outbox
      BY <1>0, <2>2, <2>5, OutboxOut
    <3>2. OutOfMemory
      <4> SUFFICES ASSUME ~OutOfMemory PROVE FALSE
        OBVIOUS
      <4>1. Len(Queue) \in Nat \ {0} /\ Head(Queue) = Queue[1]
        BY <1>0, <2>1, PopFront
      <4>2. 1 \in 1..Len(Queue) /\ Len(ReqRespChain) = Len(Queue)
            /\ ReqRespChain[1].ident = Queue[1]
        BY <4>1 DEF QueueInv
      <4>3. \A j \in 1..Len(ReqRespChain) : ReqRespChain[j].ident # Head(Queue) /\ j # 0
        BY <2>3, <2>5
      <4> QED  BY <4>1, <4>2, <4>3
    <3> QED  BY <2>4, <3>1, <3>2
  <2>6. CASE i # 0
    <3>1. /\ i \in 1..Len(ReqRespChain) /\ ReqRespChain[i].ident = Head(Queue)
          /\ schedule_response(ReqRespChain[i].ident, ReqRespChain[i].fd, "result")
      BY <2>2, <2>3, <2>6
    <3> HIDE DEF i
    <3>2. ReqRespChain[i].ident \in Req /\ ReqRespChain[i].fd \in Fd
      BY <1>0, <3>1, Fields
    <3>3. \/ Outbox' = Append(Outbox, [req |-> ReqRespChain[i].ident, kind |-> "result"])
          \/ OutOfMemory /\ Outbox' = Outbox
      BY <1>0, <3>1, <3>2, ScheduleResponse
    <3>4. CASE Outbox' = Append(Outbox, [req |-> ReqRespChain[i].ident, kind |-> "result"])
      <4>1. Service!Serve
        BY <2>1, <3>1, <3>4 DEF Service!Serve
      <4> QED  BY <4>1 DEF Service!Next
    <3> QED  BY <2>4, <3>3, <3>4
  <2> QED  BY <2>5, <2>6
<1>7. CASE SendResponse
  <2>1. /\ response_chain \in Seq(Answer) /\ response_chain # <<>>
        /\ response_chain' = Tail(response_chain)
    BY <1>0, <1>7 DEF TypeOK, SendResponse, chain_rest
  <2>2. Outbox # <<>> /\ Outbox' = Tail(Outbox)
    BY <1>0, <2>1, OutRest, OutboxOut
  <2>3. Queue' = Queue
    BY <1>7, QueueChained DEF SendResponse
  <2>4. Service!Reply
    BY <2>2, <2>3 DEF Service!Reply
  <2> QED  BY <2>4 DEF Service!Next
<1> QED  BY <1>1, <1>2, <1>3, <1>4, <1>5, <1>6, <1>7 DEF Next
-----------------------------------------------------------------------------
(* The theorems                                                            *)

AnswerInv ==
    PipelineInv /\ CutInv /\ FdInv /\ AddressInv /\ InfoInv /\ QueueInv

\* Refusals, descriptors, addresses, client infos and the queue keep their
\* invariant through every interleaving of the clients and the four threads.
THEOREM AnswerInvariance == Spec => []AnswerInv
<1> Init => CutInv /\ FdInv /\ AddressInv /\ InfoInv /\ QueueInv
  BY CutInit, FdInit, AddressInit, InfoInit, QueueInit
<1> AnswerInv /\ [Next]_vars => CutInv' /\ FdInv' /\ AddressInv' /\ InfoInv' /\ QueueInv'
  BY CutNext, FdNext, AddressNext, InfoNext, QueueNext DEF AnswerInv, PipelineInv
<1> QED  BY PipelineInvariance, PTL DEF Spec, AnswerInv

\* Until accept gives out a descriptor on which answers are still due, every
\* answer that is sent reaches the connection whose request it answers.
THEOREM AnswersReachSender == Spec => []AnswerToSender
<1> AnswerInv => AnswerToSender
  BY DEF AnswerInv, AddressInv, AnswerToSender, Range
<1> QED  BY AnswerInvariance, PTL

\* While no connection ends in an error and memory lasts, the client info that
\* recv attaches to a request is the one accept registered for its sender.
THEOREM InfoIsSenders == Spec => []ClientInfoOfSender
<1> AnswerInv => ClientInfoOfSender
  BY DEF AnswerInv, InfoInv, ClientInfoOfSender, Range
<1> QED  BY AnswerInvariance, PTL

\* While memory lasts, json_process_request refuses only frames that are unknown
\* or between whose halves recv returned, whatever else arrived with them.
THEOREM OnlyCutRefused == Spec => []ErrorOnlyIfCut
<1> AnswerInv => ErrorOnlyIfCut
  BY DEF AnswerInv, CutInv, ErrorOnlyIfCut, Range
<1> QED  BY AnswerInvariance, PTL

\* While memory lasts, ReqRespChain holds exactly the requests that are with the
\* mapper or with RespThread: no task leaks and none is freed early.
THEOREM NoTaskLeaks == Spec => []EachInOnePlace
<1> AnswerInv => EachInOnePlace
  <2> SUFFICES ASSUME AnswerInv, ~OutOfMemory
               PROVE  {ReqRespChain[i].ident : i \in DOMAIN ReqRespChain} =
                        {ReqChain[i] : i \in DOMAIN ReqChain} \cup
                        {RespChain[i] : i \in DOMAIN RespChain} \cup ({mapping} \ {0})
    BY DEF EachInOnePlace
  <2> DEFINE q == Queue
             x == Len(RespChain)
             y == Len(ReqChain)
             b == Bit(mapping)
  <2>1. /\ TypeOK /\ RespChain \in Seq(Req) /\ ReqChain \in Seq(Req)
        /\ ReqRespChain \in Seq(Task) /\ mapping \in Req \cup {0}
    BY DEF AnswerInv, PipelineInv, TypeInv, TypeOK
  <2>2. /\ x \in Nat /\ y \in Nat /\ DOMAIN RespChain = 1..x /\ DOMAIN ReqChain = 1..y
        /\ DOMAIN ReqRespChain = 1..Len(ReqRespChain)
    BY <2>1
  <2>3. Shape(q, RespChain, mapping, ReqChain)
    BY <2>1, ChainedShape, QueueChained
  <2>4. Len(ReqRespChain) = Len(q) /\ \A i \in 1..Len(q) : ReqRespChain[i].ident = q[i]
    BY DEF AnswerInv, PipelineInv, QueueInv
  <2> HIDE DEF q
  <2>5. /\ Len(q) = x + b + y /\ b \in {0, 1} /\ (b = 1 <=> mapping # 0)
        /\ \A i \in 1..x : q[i] = RespChain[i]
        /\ mapping # 0 => q[x + 1] = mapping
        /\ \A i \in 1..y : q[x + b + i] = ReqChain[i]
    BY <2>3 DEF Shape, Bit
  <2> HIDE DEF b, x, y
  <2>6. {ReqRespChain[i].ident : i \in DOMAIN ReqRespChain} = {q[i] : i \in 1..Len(q)}
    BY <2>2, <2>4
  <2>7. ASSUME NEW i \in 1..Len(q)
        PROVE  \/ \E j \in 1..x : q[i] = RespChain[j]
               \/ \E j \in 1..y : q[i] = ReqChain[j]
               \/ mapping # 0 /\ q[i] = mapping
    <3>1. CASE i <= x
      BY <2>2, <3>1, <2>5
    <3>2. CASE i = x + 1 /\ b = 1
      BY <2>5, <3>2
    <3>3. CASE i > x + b
      <4> i - (x + b) \in 1..y /\ i = x + b + (i - (x + b))
        BY <2>2, <2>5, <3>3
      <4> QED  BY <2>5
    <3> QED  BY <2>2, <2>5, <3>1, <3>2, <3>3
  <2> \A j \in 1..x : j \in 1..Len(q) /\ q[j] = RespChain[j]
    BY <2>2, <2>5
  <2> \A j \in 1..y : x + b + j \in 1..Len(q) /\ q[x + b + j] = ReqChain[j]
    BY <2>2, <2>5
  <2> mapping # 0 => x + 1 \in 1..Len(q) /\ q[x + 1] = mapping
    BY <2>2, <2>5
  <2> {q[i] : i \in 1..Len(q)} =
         {ReqChain[i] : i \in 1..y} \cup {RespChain[i] : i \in 1..x} \cup ({mapping} \ {0})
    BY <2>7
  <2> QED  BY <2>2, <2>6
<1> QED  BY AnswerInvariance, PTL

\* The pipeline implements the steps of RpcService: one queue of requests served
\* in order, and one outbox sent in order.
THEOREM PipelineServesInOrder == Spec => ServesInOrder
<1> Init => Service!Init
  BY ServiceInit
<1> AnswerInv /\ AnswerInv' /\ [Next]_vars => [Service!Next]_Service!svars
  BY ServiceNext DEF AnswerInv, PipelineInv
<1> QED  BY AnswerInvariance, PTL DEF Spec, ServesInOrder
=============================================================================
