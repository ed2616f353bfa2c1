------------------------- MODULE RpcPipelineProofs --------------------------
(***************************************************************************)
(* The pipeline of a service, for any connections, descriptors and         *)
(* requests, with and without failing allocations: its types, what each    *)
(* step does to the elements of its chains, and that what is left of a     *)
(* connection's stream is in the order in which it was sent.               *)
(***************************************************************************)
EXTENDS RpcPipeline, ContainerProofs

\* The provers that every leaf is given to.
USE ZenonT(1), SMTT(20), Zenon
-----------------------------------------------------------------------------
(* The inductive invariants                                                *)

\* A frame is being looked at only while there is one.
TypeInv == TypeOK /\ (notifying => request_chain # <<>>)

\* Every request anywhere has been sent.
Sent == 1..Len(owner)
SentInv ==
    /\ \A c \in Conn : \A j \in 1..Len(stream[c]) : stream[c][j].req \in Sent
    /\ \A f \in Range(request_chain) : f.req \in Sent
    /\ \A t \in Range(ReqRespChain) : t.ident \in Sent
    /\ Range(ReqChain) \subseteq Sent
    /\ mapping \in Sent \cup {0}
    /\ Range(RespChain) \subseteq Sent
    /\ \A a \in Range(response_chain) : a.req \in Sent
    /\ \A a \in Range(answers) : a.req \in Sent

\* A stream holds the requests of its own connection, oldest first, both halves
\* of each next to each other; a tail without its head is in front, and split.
StreamOf(c) ==
    \A j \in 1..Len(stream[c]) :
        /\ owner[stream[c][j].req] = c
        /\ \A k \in 1..Len(stream[c]) : j < k =>
              \/ stream[c][j].req < stream[c][k].req
              \/ /\ k = j + 1
                 /\ stream[c][j].req = stream[c][k].req
                 /\ stream[c][j].half = "head" /\ stream[c][k].half = "tail"
        /\ stream[c][j].half = "head" =>
              j < Len(stream[c]) /\ stream[c][j + 1].req = stream[c][j].req
        /\ stream[c][j].half = "tail" =>
              \/ j = 1 /\ stream[c][j].req \in split
              \/ j > 1 /\ stream[c][j - 1].req = stream[c][j].req
StreamInv == \A c \in Conn : StreamOf(c)
-----------------------------------------------------------------------------
(* What the operators of the model return                                  *)

USE DEF net, chains, history

\* The numbers of connections, descriptors and requests.
LEMMA Numbers ==
    /\ Conn \subseteq Nat /\ 0 \notin Conn
    /\ Fd \subseteq Nat /\ 0 \notin Fd
    /\ Req \subseteq Nat /\ 0 \notin Req
  BY BoundAssumption DEF Conn, Fd, Req

\* accept gives out a descriptor that no connection has.
LEMMA FreeFdFree ==
    ASSUME Fd \ Used # {}
    PROVE  FreeFd \in Fd /\ \A c \in Conn : fd[c] # FreeFd
<1> DEFINE T == Fd \ Used
<1>1. T \subseteq Nat
  BY Numbers
<1>2. \E f \in T : \A g \in T : f <= g
  <2> HIDE DEF T
  <2> QED  BY <1>1, LeastNatural DEF T
<1>3. FreeFd \in T
  BY <1>2 DEF FreeFd
<1> QED  BY <1>3 DEF Used

\* get_client_info finds a connection remembered for the descriptor, if any.
LEMMA GetClientInfo ==
    ASSUME TypeOK, NEW f
    PROVE  \/ /\ get_client_info(f) = 0
              /\ \A i \in 1..Len(clientInfo_chain) : clientInfo_chain[i].ident # f
           \/ \E i \in 1..Len(clientInfo_chain) :
                /\ clientInfo_chain[i].ident = f
                /\ get_client_info(f) = clientInfo_chain[i].conn
                /\ get_client_info(f) \in Conn
<1> DEFINE S == [ident : Fd, conn : Conn]
           i == chain_get_by_ident(clientInfo_chain, f)
<1>1. clientInfo_chain \in Seq(S)
  BY DEF TypeOK
<1>2. \/ /\ i = 0
         /\ \A j \in 1..Len(clientInfo_chain) : clientInfo_chain[j].ident # f
      \/ /\ i \in 1..Len(clientInfo_chain)
         /\ clientInfo_chain[i].ident = f
  <2> HIDE DEF S
  <2> QED  BY <1>1, GetByIdent
<1>3. get_client_info(f) = IF i = 0 THEN 0 ELSE clientInfo_chain[i].conn
  BY DEF get_client_info
<1>4. \A j \in 1..Len(clientInfo_chain) : clientInfo_chain[j].conn \in Conn /\ j # 0
  <2> SUFFICES ASSUME NEW j \in 1..Len(clientInfo_chain)
               PROVE  clientInfo_chain[j].conn \in Conn /\ j # 0
    OBVIOUS
  <2>1. clientInfo_chain[j] \in S
    <3> HIDE DEF S
    <3> QED  BY <1>1, ElementOfSeq
  <2> QED  BY <2>1
<1> HIDE DEF i
<1> QED  BY <1>2, <1>3, <1>4

\* What recv makes of n halves: f says at which half each frame begins.
LEMMA FramesShape ==
    ASSUME TypeOK, NEW c \in Conn, fd[c] # 0,
           NEW n \in 1..Len(stream[c]), NEW frames \in Frames(c, n)
    PROVE  /\ frames \in Seq(Frame)
           /\ \E f \in [1..Len(frames) -> 1..n] :
                /\ \A j \in 1..Len(frames) :
                      f[j] \in First(c, n) /\ frames[j] = frame(c, n, f[j])
                /\ \A j, k \in 1..Len(frames) : j < k => f[j] < f[k]
                /\ \A k \in First(c, n) : \E j \in 1..Len(frames) : f[j] = k
<1>1. stream[c] \in Seq(Half) /\ fd[c] \in Fd
  BY DEF TypeOK
<1>2. Len(stream[c]) \in Nat /\ n \in Nat
  BY <1>1
<1>3. PICK f \in InOrder(First(c, n), n) : frames = [j \in DOMAIN f |-> frame(c, n, f[j])]
  BY DEF Frames
<1>4. PICK m \in 0..n : f \in [1..m -> First(c, n)]
  BY <1>3 DEF InOrder
<1>5. First(c, n) \subseteq 1..n
  BY DEF First
<1>6. \A k \in 1..n : frame(c, n, k) \in Frame
  <2> SUFFICES ASSUME NEW k \in 1..n PROVE frame(c, n, k) \in Frame
    OBVIOUS
  <2>1. stream[c][k].req \in Req
    <3>1. stream[c][k] \in Half
      BY <1>1, <1>2
    <3> QED  BY <3>1 DEF Half
  <2>2. get_client_info(fd[c]) \in Conn \cup {0}
    BY GetClientInfo
  <2>3. Whole(c, n, k) \in BOOLEAN
    BY DEF Whole
  <2> QED  BY <1>1, <2>1, <2>2, <2>3 DEF frame, Frame
<1>7. m \in Nat /\ DOMAIN f = 1..m /\ f \in [1..m -> 1..n]
  BY <1>2, <1>4, <1>5
<1>8. frames = [j \in 1..m |-> frame(c, n, f[j])]
  BY <1>3, <1>7
<1>9. frames \in Seq(Frame) /\ Len(frames) = m
  BY <1>6, <1>7, <1>8
<1>10. /\ \A k \in First(c, n) : \E j \in 1..m : f[j] = k
       /\ \A j, k \in 1..m : j < k => f[j] < f[k]
  BY <1>3, <1>7 DEF InOrder
<1>11. \A j \in 1..m : f[j] \in First(c, n) /\ frames[j] = frame(c, n, f[j])
  BY <1>4, <1>8
<1> QED
  <2>1. f \in [1..Len(frames) -> 1..n]
    BY <1>7, <1>9
  <2> QED  BY <1>9, <1>10, <1>11, <2>1

\* The fields of what is in the chains and on the streams.
LEMMA Fields ==
    ASSUME TypeOK
    PROVE  /\ \A c \in Conn : \A j \in 1..Len(stream[c]) :
                stream[c][j].req \in Req /\ stream[c][j].half \in {"head", "tail"}
           /\ \A i \in 1..Len(request_chain) :
                /\ request_chain[i].req \in Req /\ request_chain[i].fd \in Fd
                /\ request_chain[i].ok \in BOOLEAN
                /\ request_chain[i].cltid \in Conn \cup {0}
           /\ \A i \in 1..Len(ReqRespChain) :
                ReqRespChain[i].ident \in Req /\ ReqRespChain[i].fd \in Fd
           /\ \A i \in 1..Len(response_chain) :
                /\ response_chain[i].req \in Req /\ response_chain[i].fd \in Fd
                /\ response_chain[i].kind \in {"result", "error"}
<1>1. \A c \in Conn : \A j \in 1..Len(stream[c]) :
         stream[c][j].req \in Req /\ stream[c][j].half \in {"head", "tail"}
  <2> SUFFICES ASSUME NEW c \in Conn, NEW j \in 1..Len(stream[c])
               PROVE  stream[c][j].req \in Req /\ stream[c][j].half \in {"head", "tail"}
    OBVIOUS
  <2>1. stream[c] \in Seq(Half)
    BY DEF TypeOK
  <2>2. stream[c][j] \in Half
    BY <2>1
  <2> QED  BY <2>2 DEF Half
<1>2. \A i \in 1..Len(request_chain) : request_chain[i] \in Frame
  BY DEF TypeOK
<1>3. \A i \in 1..Len(ReqRespChain) : ReqRespChain[i] \in Task
  BY DEF TypeOK
<1>4. \A i \in 1..Len(response_chain) : response_chain[i] \in Answer
  BY DEF TypeOK
<1> QED  BY <1>1, <1>2, <1>3, <1>4 DEF Frame, Task, Answer

\* What Recv(c) does when it takes n halves: m frames are added, of which the
\* j-th begins at half f[j].
Received(c, n, m, f) ==
    /\ \A j \in 1..m : f[j] \in First(c, n)
    /\ \A j, k \in 1..m : j < k => f[j] < f[k]
    /\ notifying' => \A k \in First(c, n) : \E j \in 1..m : f[j] = k
    /\ request_chain' \in Seq(Frame)
    /\ Len(request_chain') = Len(request_chain) + m
    /\ \A i \in 1..Len(request_chain) : request_chain'[i] = request_chain[i]
    /\ \A j \in 1..m : request_chain'[Len(request_chain) + j] = frame(c, n, f[j])
    /\ stream' \in [Conn -> Seq(Half)]
    /\ \A d \in Conn \ {c} : stream'[d] = stream[d]
    /\ Len(stream'[c]) = Len(stream[c]) - n
    /\ \A j \in 1..(Len(stream[c]) - n) : stream'[c][j] = stream[c][n + j]
    /\ split' = split \cup
                   (IF stream[c][n].half = "head" THEN {stream[c][n].req} ELSE {})

\* Every recv is such a step.
LEMMA RecvEffect ==
    ASSUME TypeOK, NEW c \in Conn, Recv(c)
    PROVE  \E n \in 1..Len(stream[c]), m \in Nat : \E f \in [1..m -> 1..n] :
              Received(c, n, m, f)
<1>0. PICK n \in 1..Len(stream[c]) :
         /\ \E frames \in Frames(c, n) :
            \/ /\ request_chain' = request_chain \o frames
               /\ notifying' = TRUE
            \/ /\ OutOfMemory
               /\ \E m \in 0..(Len(frames) - 1) :
                     request_chain' = request_chain \o SubSeq(frames, 1, m)
               /\ UNCHANGED notifying
         /\ stream' = [stream EXCEPT ![c] = SubSeq(@, n + 1, Len(@))]
         /\ split' = split \cup
                (IF stream[c][n].half = "head" THEN {stream[c][n].req} ELSE {})
  BY Zenon DEF Recv
<1>1. PICK frames \in Frames(c, n) :
         \/ request_chain' = request_chain \o frames
         \/ /\ UNCHANGED notifying
            /\ \E m \in 0..(Len(frames) - 1) :
                  request_chain' = request_chain \o SubSeq(frames, 1, m)
  BY <1>0, Zenon
<1>2. fd[c] # 0 /\ ~notifying
  BY DEF Recv
<1>3. frames \in Seq(Frame)
  BY <1>2, FramesShape
<1>4. PICK f \in [1..Len(frames) -> 1..n] :
         /\ \A j \in 1..Len(frames) :
               f[j] \in First(c, n) /\ frames[j] = frame(c, n, f[j])
         /\ \A j, k \in 1..Len(frames) : j < k => f[j] < f[k]
         /\ \A k \in First(c, n) : \E j \in 1..Len(frames) : f[j] = k
  BY <1>2, FramesShape
<1>5. /\ stream \in [Conn -> Seq(Half)] /\ request_chain \in Seq(Frame)
      /\ stream[c] \in Seq(Half) /\ Len(stream[c]) \in Nat /\ Len(frames) \in Nat
      /\ Len(request_chain) \in Nat
  BY <1>3 DEF TypeOK
<1>6. PICK m \in 0..Len(frames) :
         /\ request_chain' = request_chain \o SubSeq(frames, 1, m)
         /\ notifying' => m = Len(frames)
  <2>1. CASE request_chain' = request_chain \o frames
    <3>1. SubSeq(frames, 1, Len(frames)) = frames
      BY <1>3
    <3>2. Len(frames) \in 0..Len(frames)
      BY <1>5
    <3> QED  BY <2>1, <3>1, <3>2
  <2>2. CASE /\ UNCHANGED notifying
             /\ \E k \in 0..(Len(frames) - 1) :
                   request_chain' = request_chain \o SubSeq(frames, 1, k)
    <3>1. PICK k \in 0..(Len(frames) - 1) :
             request_chain' = request_chain \o SubSeq(frames, 1, k)
      BY <2>2
    <3>2. k \in 0..Len(frames)
      BY <1>5
    <3> QED  BY <1>2, <2>2, <3>1, <3>2
  <2> QED  BY <1>1, <2>1, <2>2
<1>7. /\ SubSeq(frames, 1, m) \in Seq(Frame)
      /\ Len(SubSeq(frames, 1, m)) = m
      /\ \A j \in 1..m : SubSeq(frames, 1, m)[j] = frames[j]
  <2>1. \A j \in 1..m : frames[j] \in Frame
    BY <1>3, <1>5, <1>6
  <2>2. m \in Nat
    BY <1>5, <1>6
  <2> QED  BY <2>1, <2>2
<1>8. /\ request_chain' \in Seq(Frame)
      /\ Len(request_chain') = Len(request_chain) + m
      /\ \A i \in 1..(Len(request_chain) + m) : request_chain'[i] =
            IF i <= Len(request_chain) THEN request_chain[i]
                                       ELSE SubSeq(frames, 1, m)[i - Len(request_chain)]
  BY <1>5, <1>6, <1>7
<1>9. /\ SubSeq(stream[c], n + 1, Len(stream[c])) \in Seq(Half)
      /\ Len(SubSeq(stream[c], n + 1, Len(stream[c]))) = Len(stream[c]) - n
      /\ \A j \in 1..(Len(stream[c]) - n) :
            SubSeq(stream[c], n + 1, Len(stream[c]))[j] = stream[c][n + j]
  <2>1. \A j \in (n + 1)..Len(stream[c]) : stream[c][j] \in Half
    BY <1>5
  <2> DEFINE s == SubSeq(stream[c], n + 1, Len(stream[c]))
  <2>2. /\ s \in Seq(Half)
        /\ Len(s) = IF n + 1 <= Len(stream[c]) THEN Len(stream[c]) - (n + 1) + 1 ELSE 0
        /\ \A j \in 1..(Len(stream[c]) - (n + 1) + 1) : s[j] = stream[c][(n + 1) + j - 1]
    BY <1>5, <2>1
  <2> HIDE DEF s
  <2>3. Len(s) = Len(stream[c]) - n
    BY <1>5, <2>2
  <2>4. \A j \in 1..(Len(stream[c]) - n) : s[j] = stream[c][n + j]
    <3> SUFFICES ASSUME NEW j \in 1..(Len(stream[c]) - n) PROVE s[j] = stream[c][n + j]
      OBVIOUS
    <3>1. j \in 1..(Len(stream[c]) - (n + 1) + 1) /\ (n + 1) + j - 1 = n + j
      BY <1>5
    <3> QED  BY <2>2, <3>1
  <2> QED  BY <2>2, <2>3, <2>4 DEF s
<1>10. /\ stream' \in [Conn -> Seq(Half)]
       /\ \A d \in Conn \ {c} : stream'[d] = stream[d]
       /\ stream'[c] = SubSeq(stream[c], n + 1, Len(stream[c]))
  BY <1>0, <1>5, <1>9
<1> DEFINE g == [j \in 1..m |-> f[j]]
<1>11. m \in Nat /\ g \in [1..m -> 1..n] /\ \A j \in 1..m : g[j] = f[j] /\ j \in 1..Len(frames)
  <2>1. m \in Nat /\ \A j \in 1..m : j \in 1..Len(frames)
    BY <1>5, <1>6
  <2>2. \A j \in 1..m : f[j] \in 1..n
    BY <1>4, <2>1
  <2> QED  BY <2>1, <2>2
<1> HIDE DEF g
<1>12. Received(c, n, m, g)
  <2>1. /\ \A j \in 1..m : g[j] \in First(c, n)
        /\ \A j, k \in 1..m : j < k => g[j] < g[k]
        /\ notifying' => \A k \in First(c, n) : \E j \in 1..m : g[j] = k
    BY <1>4, <1>6, <1>11
  <2>2. \A i \in 1..Len(request_chain) : request_chain'[i] = request_chain[i]
    BY <1>5, <1>8, <1>11
  <2>3. \A j \in 1..m : request_chain'[Len(request_chain) + j] = frame(c, n, g[j])
    <3> SUFFICES ASSUME NEW j \in 1..m
                 PROVE  request_chain'[Len(request_chain) + j] = frame(c, n, g[j])
      OBVIOUS
    <3>1. /\ Len(request_chain) + j \in 1..(Len(request_chain) + m)
          /\ ~(Len(request_chain) + j <= Len(request_chain))
          /\ (Len(request_chain) + j) - Len(request_chain) = j
      BY <1>5, <1>11
    <3>2. request_chain'[Len(request_chain) + j] = frames[j]
      BY <1>7, <1>8, <3>1
    <3> QED  BY <1>4, <1>11, <3>2
  <2> QED  BY <1>0, <1>8, <1>9, <1>10, <2>1, <2>2, <2>3 DEF Received
<1> QED  BY <1>11, <1>12

\* What both outcomes of json_process_request do to request_chain.
DispatchStep ==
    /\ request_chain # <<>>
    /\ request_chain' = Tail(request_chain)
    /\ notifying' = (request_chain' # <<>>)
-----------------------------------------------------------------------------
(* The image of a chain                                                    *)

\* The chain q with F applied to its elements.
Image(F, q) == [i \in 1..Len(q) |-> F[q[i]]]

IsImage(w, F, q) == Len(w) = Len(q) /\ \A i \in 1..Len(q) : w[i] = F[q[i]]

\* Image applies F to each element.
LEMMA ImageShape ==
    ASSUME NEW S, NEW T, NEW F \in [S -> T], NEW q \in Seq(S)
    PROVE  Image(F, q) \in Seq(T) /\ IsImage(Image(F, q), F, q)
<1>1. Len(q) \in Nat /\ \A i \in 1..Len(q) : q[i] \in S
  OBVIOUS
<1>2. Image(F, q) \in [1..Len(q) -> T]
  BY <1>1 DEF Image
<1>3. Image(F, q) \in Seq(T)
  BY <1>1, <1>2
<1>4. DOMAIN Image(F, q) = 1..Len(q)
  BY DEF Image
<1>5. Len(Image(F, q)) = Len(q)
  BY <1>1, <1>3, <1>4
<1> QED  BY <1>3, <1>5 DEF Image, IsImage

\* What is appended to a chain is appended to its image, and the first is taken
\* from both.
LEMMA ImagePut ==
    ASSUME NEW S, NEW T, NEW F \in [S -> T], NEW q \in Seq(S), NEW a \in S
    PROVE  Image(F, Append(q, a)) = Append(Image(F, q), F[a])
<1> DEFINE p == Append(q, a)
           o == Image(F, q)
           w == Image(F, p)
           e == F[a]
           u == Append(o, e)
<1>1. /\ p \in Seq(S) /\ Len(p) = Len(q) + 1 /\ p[Len(q) + 1] = a
      /\ \A i \in 1..Len(q) : p[i] = q[i]
  OBVIOUS
<1>2. e \in T /\ Len(q) \in Nat
  OBVIOUS
<1>3. o \in Seq(T) /\ Len(o) = Len(q) /\ \A i \in 1..Len(q) : o[i] = F[q[i]]
  <2>1. o \in Seq(T) /\ IsImage(o, F, q)
    BY ImageShape
  <2> HIDE DEF o
  <2> QED  BY <2>1 DEF IsImage
<1> HIDE DEF p
<1>4. w \in Seq(T) /\ Len(w) = Len(p) /\ \A i \in 1..Len(p) : w[i] = F[p[i]]
  <2>1. w \in Seq(T) /\ IsImage(w, F, p)
    BY <1>1, ImageShape
  <2> HIDE DEF w
  <2> QED  BY <2>1 DEF IsImage
<1> HIDE DEF o, e, w
<1>5. /\ u \in Seq(T) /\ Len(u) = Len(o) + 1 /\ u[Len(o) + 1] = e
      /\ \A i \in 1..Len(o) : u[i] = o[i]
  BY <1>2, <1>3
<1> HIDE DEF u
<1>6. \A i \in 1..Len(p) : i \in 1..Len(q) \/ i = Len(q) + 1
  BY <1>1, <1>2
<1>7. \A i \in 1..Len(p) : w[i] = u[i]
  BY <1>1, <1>3, <1>4, <1>5, <1>6 DEF e
<1>8. w = u
  BY <1>1, <1>3, <1>4, <1>5, <1>7
<1> QED  BY <1>8 DEF w, u, o, p, e

FirstAndRest(w, F, q) ==
    w # <<>> /\ Head(w) = F[Head(q)] /\ Tail(w) = Image(F, Tail(q))

\* The image of the rest is the rest of the image.
LEMMA ImageRest ==
    ASSUME NEW S, NEW T, NEW F \in [S -> T], NEW q \in Seq(S), q # <<>>
    PROVE  FirstAndRest(Image(F, q), F, q)
<1> DEFINE r == Tail(q)
           o == Image(F, q)
           w == Tail(o)
           v == Image(F, r)
<1>1. /\ Len(q) \in Nat \ {0} /\ Head(q) = q[1] /\ r \in Seq(S) /\ Len(r) = Len(q) - 1
      /\ \A j \in 1..(Len(q) - 1) : r[j] = q[j + 1]
  BY PopFront
<1>2. o \in Seq(T) /\ Len(o) = Len(q) /\ \A i \in 1..Len(q) : o[i] = F[q[i]]
  <2>1. o \in Seq(T) /\ IsImage(o, F, q)
    BY ImageShape
  <2> HIDE DEF o
  <2> QED  BY <2>1 DEF IsImage
<1> HIDE DEF r
<1>3. v \in Seq(T) /\ Len(v) = Len(r) /\ \A i \in 1..Len(r) : v[i] = F[r[i]]
  <2>1. v \in Seq(T) /\ IsImage(v, F, r)
    BY <1>1, ImageShape
  <2> HIDE DEF v
  <2> QED  BY <2>1 DEF IsImage
<1> HIDE DEF o, v
<1>4. o # <<>>
  BY <1>1, <1>2
<1>5. /\ w \in Seq(T) /\ Len(w) = Len(o) - 1 /\ Head(o) = o[1]
      /\ \A j \in 1..(Len(o) - 1) : w[j] = o[j + 1]
  BY <1>2, <1>4, PopFront
<1> HIDE DEF w
<1>6. 1 \in 1..Len(q) /\ \A j \in 1..(Len(q) - 1) : j + 1 \in 1..Len(q)
  BY <1>1
<1>7. ASSUME NEW j \in 1..Len(w) PROVE w[j] = v[j]
  <2>1. j \in 1..(Len(q) - 1) /\ j \in 1..(Len(o) - 1) /\ j \in 1..Len(r)
    BY <1>1, <1>2, <1>5
  <2>2. w[j] = o[j + 1] /\ v[j] = F[r[j]] /\ r[j] = q[j + 1] /\ j + 1 \in 1..Len(q)
    BY <1>1, <1>3, <1>5, <1>6, <2>1
  <2> QED  BY <1>2, <2>2
<1>8. w = v
  <2>1. Len(w) = Len(v)
    BY <1>1, <1>2, <1>3, <1>5
  <2> QED  BY <1>3, <1>5, <1>7, <2>1, SeqEqual
<1>9. Head(o) = F[Head(q)]
  BY <1>1, <1>2, <1>5, <1>6
<1> QED  BY <1>4, <1>8, <1>9 DEF w, v, o, r, FirstAndRest
-----------------------------------------------------------------------------
(* Types                                                                   *)

\* A service that starts has the types.
LEMMA TypeInit == Init => TypeInv
<1> SUFFICES ASSUME Init PROVE TypeInv
  OBVIOUS
<1>1. /\ link \in [Conn -> {"new", "open", "fin", "rst", "gone"}]
      /\ fd \in [Conn -> Fd \cup {0}]
  BY DEF Init
<1>2. stream \in [Conn -> Seq(Half)] /\ owner \in Seq(Conn)
  BY DEF Init
<1>3. Len(owner) <= MaxReq
  BY BoundAssumption DEF Init
<1>4. /\ clientInfo_chain \in Seq([ident : Fd, conn : Conn])
      /\ request_chain \in Seq(Frame) /\ ReqRespChain \in Seq(Task)
      /\ ReqChain \in Seq(Req) /\ RespChain \in Seq(Req)
      /\ response_chain \in Seq(Answer)
      /\ answers \in Seq([req : Req, conn : Conn, kind : {"result", "error"}])
  BY DEF Init
<1>5. notifying = FALSE /\ mapping \in Req \cup {0} /\ split \subseteq Req
  BY DEF Init
<1>6. reused \in BOOLEAN /\ wasReset \in BOOLEAN
  BY DEF Init
<1> QED  BY <1>1, <1>2, <1>3, <1>4, <1>5, <1>6 DEF TypeInv, TypeOK

\* The first half recv takes begins a frame, so that it makes one.
LEMMA FirstFrame ==
    ASSUME TypeOK, StreamInv, NEW c \in Conn, NEW n \in 1..Len(stream[c])
    PROVE  1 \in First(c, n)
<1>1. Len(stream[c]) \in Nat /\ n \in Nat
  BY DEF TypeOK
<1>2. \A j \in 1..Len(stream[c]) :
        stream[c][j].req \in Nat /\ stream[c][j].half \in {"head", "tail"}
  BY Fields, Numbers
<1>3. ASSUME stream[c][1].half # "head", NEW j \in 1..n, j # 1
      PROVE  stream[c][j].req # stream[c][1].req
  <2>1. j \in 1..Len(stream[c]) /\ 1 \in 1..Len(stream[c]) /\ 1 < j
    BY <1>1, <1>3
  <2>2. stream[c][1].req < stream[c][j].req
    BY <1>3, <2>1 DEF StreamInv, StreamOf
  <2> QED  BY <1>2, <2>1, <2>2
<1>4. 1 \in 1..n
  BY <1>1
<1> QED  BY <1>3, <1>4 DEF First, Whole

\* Every thread keeps the types.
LEMMA TypeNext == TypeInv /\ StreamInv /\ [Next]_vars => TypeInv'
<1> SUFFICES ASSUME TypeInv, StreamInv, [Next]_vars PROVE TypeInv'
  OBVIOUS
<1>0. TypeOK
  BY DEF TypeInv
<1> USE DEF TypeInv
<1>1. ASSUME NEW c \in Conn, Send(c) PROVE TypeInv'
  <2>1. /\ owner' \in Seq(Conn) /\ Len(owner') = Len(owner) + 1
        /\ Len(owner) \in Nat /\ Len(owner) < MaxReq
    BY <1>0, <1>1, PushBack DEF Send, TypeOK
  <2>2. Len(owner') \in Req /\ Len(owner') <= MaxReq
    BY <2>1, BoundAssumption DEF Req
  <2> DEFINE h == [req |-> Len(owner'), half |-> "head"]
             t == [req |-> Len(owner'), half |-> "tail"]
  <2>3. h \in Half /\ t \in Half
    BY <2>2 DEF Half
  <2> HIDE DEF h, t
  <2>4. <<h, t>> \in Seq(Half) /\ stream[c] \in Seq(Half)
    BY <1>0, <2>3 DEF TypeOK
  <2>5. stream[c] \o <<h, t>> \in Seq(Half)
    BY <2>4
  <2>6. stream' = [stream EXCEPT ![c] = stream[c] \o <<h, t>>]
    BY <1>1 DEF Send, h, t
  <2>7. stream' \in [Conn -> Seq(Half)]
    BY <1>0, <2>5, <2>6 DEF TypeOK
  <2> QED  BY <1>0, <1>1, <2>1, <2>2, <2>7 DEF Send, TypeOK
<1>2. ASSUME NEW c \in Conn, Close(c) PROVE TypeInv'
  BY <1>0, <1>2 DEF Close, TypeOK
<1>3. ASSUME NEW c \in Conn, Reset(c) PROVE TypeInv'
  <2>1. stream' \in [Conn -> Seq(Half)]
    BY <1>0, <1>3 DEF Reset, TypeOK
  <2>2. link' \in [Conn -> {"new", "open", "fin", "rst", "gone"}]
    BY <1>0, <1>3 DEF Reset, TypeOK
  <2> QED  BY <1>0, <1>3, <2>1, <2>2 DEF Reset, TypeOK
<1>4. ASSUME NEW c \in Conn, Accept(c) PROVE TypeInv'
  <2>1. FreeFd \in Fd
    BY <1>4, FreeFdFree DEF Accept
  <2> DEFINE e == [ident |-> FreeFd, conn |-> c]
             S == [ident : Fd, conn : Conn]
  <2>2. e \in S /\ clientInfo_chain \in Seq(S)
    BY <1>0, <2>1 DEF TypeOK
  <2>3. clientInfo_chain' = chain_put(clientInfo_chain, e) \/ UNCHANGED clientInfo_chain
    BY <1>4 DEF Accept, register_client_info
  <2> HIDE DEF e, S
  <2>4. clientInfo_chain' \in Seq(S)
    <3>1. chain_put(clientInfo_chain, e) \in Seq(S)
      BY <2>2, Put
    <3> QED  BY <2>2, <2>3, <3>1
  <2>5. fd' \in [Conn -> Fd \cup {0}]
    BY <1>0, <1>4, <2>1 DEF Accept, TypeOK
  <2>6. link' \in [Conn -> {"new", "open", "fin", "rst", "gone"}]
    BY <1>0, <1>4 DEF Accept, TypeOK
  <2>7. reused' \in BOOLEAN
    BY <1>0, <1>4 DEF Accept, TypeOK, Due
  <2> QED  BY <1>0, <1>4, <2>4, <2>5, <2>6, <2>7 DEF Accept, TypeOK, S
<1>5. ASSUME NEW c \in Conn, Recv(c) PROVE TypeInv'
  <2>1. PICK n \in 1..Len(stream[c]), m \in Nat :
           \E f \in [1..m -> 1..n] : Received(c, n, m, f)
    BY <1>0, <1>5, RecvEffect
  <2>2. PICK f \in [1..m -> 1..n] : Received(c, n, m, f)
    BY <2>1
  <2>3. request_chain' \in Seq(Frame) /\ stream' \in [Conn -> Seq(Half)]
    BY <2>2 DEF Received
  <2>4. split' \subseteq Req
    <3>1. stream[c][n].req \in Req
      BY <1>0, Fields
    <3> QED  BY <1>0, <2>2, <3>1 DEF Received, TypeOK
  <2>5. notifying' \in BOOLEAN
    BY <1>0, <1>5 DEF Recv, TypeOK
  <2>6. notifying' => request_chain' # <<>>
    <3> SUFFICES ASSUME notifying' PROVE request_chain' # <<>>
      OBVIOUS
    <3>1. PICK j \in 1..m : f[j] = 1
      BY <1>0, <2>2, FirstFrame DEF Received
    <3>2. Len(request_chain') = Len(request_chain) + m /\ Len(request_chain) \in Nat
      BY <1>0, <2>2 DEF Received, TypeOK
    <3>3. Len(request_chain') # 0
      BY <3>1, <3>2
    <3> QED  BY <3>3
  <2>7. UNCHANGED <<link, fd, owner, clientInfo_chain, chains, answers, reused, wasReset>>
    BY <1>5 DEF Recv
  <2> QED  BY <1>0, <2>3, <2>4, <2>5, <2>6, <2>7 DEF TypeOK
<1>6. ASSUME NEW c \in Conn, RecvEof(c) PROVE TypeInv'
  <2> DEFINE S == [ident : Fd, conn : Conn]
  <2>1. clientInfo_chain \in Seq(S)
    BY <1>0 DEF TypeOK
  <2>2. clientInfo_chain' = chain_remove_by_ident(clientInfo_chain, fd[c])
    BY <1>6 DEF RecvEof, deregister_client_info
  <2> HIDE DEF S
  <2>3. clientInfo_chain' \in Seq(S)
    BY <2>1, <2>2, RemoveByIdent
  <2>4. fd' \in [Conn -> Fd \cup {0}]
    BY <1>0, <1>6 DEF RecvEof, TypeOK
  <2>5. link' \in [Conn -> {"new", "open", "fin", "rst", "gone"}]
    BY <1>0, <1>6 DEF RecvEof, TypeOK
  <2> QED  BY <1>0, <1>6, <2>3, <2>4, <2>5 DEF RecvEof, TypeOK, S
<1>7. ASSUME NEW c \in Conn, RecvError(c) PROVE TypeInv'
  <2>1. fd' \in [Conn -> Fd \cup {0}]
    BY <1>0, <1>7 DEF RecvError, TypeOK
  <2>2. link' \in [Conn -> {"new", "open", "fin", "rst", "gone"}]
    BY <1>0, <1>7 DEF RecvError, TypeOK
  <2> QED  BY <1>0, <1>7, <2>1, <2>2 DEF RecvError, TypeOK
<1>8. CASE DispatchError
  <2>1. DispatchStep
    BY <1>0, <1>8 DEF DispatchError, DispatchStep
  <2>2. /\ Head(request_chain) \in Frame
        /\ request_chain' \in Seq(Frame) /\ notifying' = (request_chain' # <<>>)
    BY <2>1, <1>0, PopFront DEF DispatchStep, TypeOK
  <2> DEFINE f == Head(request_chain)
             a == [req |-> f.req, fd |-> f.fd, kind |-> "error"]
  <2>3. a \in Answer
    BY <2>2 DEF Frame, Answer
  <2>4. response_chain' = chain_put(response_chain, a) \/ UNCHANGED response_chain
    BY <1>8 DEF DispatchError, schedule_response
  <2> HIDE DEF a
  <2>5. response_chain' \in Seq(Answer)
    <3>1. response_chain \in Seq(Answer)
      BY <1>0 DEF TypeOK
    <3>2. chain_put(response_chain, a) \in Seq(Answer)
      BY <2>3, <3>1, Put
    <3> QED  BY <2>4, <3>1, <3>2
  <2> QED  BY <1>0, <1>8, <2>2, <2>5 DEF DispatchError, TypeOK
<1>9. CASE Dispatch
  <2>1. DispatchStep
    BY <1>9 DEF Dispatch, DispatchStep
  <2>2. /\ Head(request_chain) \in Frame
        /\ request_chain' \in Seq(Frame) /\ notifying' = (request_chain' # <<>>)
    BY <2>1, <1>0, PopFront DEF DispatchStep, TypeOK
  <2> DEFINE f == Head(request_chain)
             t == [ident |-> f.req, fd |-> f.fd, cltid |-> f.cltid]
  <2>3. t \in Task /\ f.req \in Req
    BY <2>2 DEF Frame, Task
  <2>4. /\ ReqRespChain' = chain_put(ReqRespChain, t)
        /\ ReqChain' = chain_put(ReqChain, f.req) \/ UNCHANGED ReqChain
    BY <1>9 DEF Dispatch, rpc_call_notification
  <2> HIDE DEF t, f
  <2>5. ReqRespChain' \in Seq(Task) /\ ReqChain' \in Seq(Req)
    <3>1. ReqRespChain \in Seq(Task) /\ ReqChain \in Seq(Req)
      BY <1>0 DEF TypeOK
    <3>2. chain_put(ReqRespChain, t) \in Seq(Task)
      BY <2>3, <3>1, Put
    <3>3. chain_put(ReqChain, f.req) \in Seq(Req)
      BY <2>3, <3>1, Put
    <3> QED  BY <2>4, <3>1, <3>2, <3>3
  <2> QED  BY <1>0, <1>9, <2>2, <2>5 DEF Dispatch, TypeOK
<1>10. CASE MapperGet
  <2>1. mapping' \in Req /\ ReqChain' \in Seq(Req)
    BY <1>0, <1>10, Get DEF MapperGet, TypeOK
  <2> QED  BY <1>0, <1>10, <2>1 DEF MapperGet, TypeOK
<1>11. CASE MapperDone
  <2>1. mapping \in Req
    BY <1>0, <1>11 DEF MapperDone, TypeOK
  <2>2. RespChain' = chain_put(RespChain, mapping) \/ UNCHANGED RespChain
    BY <1>11 DEF MapperDone, json_send_response
  <2>3. RespChain' \in Seq(Req)
    <3>1. RespChain \in Seq(Req)
      BY <1>0 DEF TypeOK
    <3>2. chain_put(RespChain, mapping) \in Seq(Req)
      BY <2>1, <3>1, Put
    <3> QED  BY <2>2, <3>1, <3>2
  <2> QED  BY <1>0, <1>11, <2>3 DEF MapperDone, TypeOK
<1>12. CASE ProcessResponse
  <2> DEFINE r == chain_get(RespChain)
             i == chain_get_by_ident(ReqRespChain, r)
             a == [req |-> ReqRespChain[i].ident, fd |-> ReqRespChain[i].fd,
                   kind |-> "result"]
  <2>1. RespChain' \in Seq(Req)
    BY <1>0, <1>12, Get DEF ProcessResponse, TypeOK
  <2>2. ReqRespChain' \in Seq(Task)
    BY <1>0, <1>12, RemoveByIdent DEF ProcessResponse, TypeOK
  <2>3. i = 0 \/ i \in 1..Len(ReqRespChain)
    BY <1>0, GetByIdent DEF TypeOK
  <2>4. i # 0 => a \in Answer
    BY <1>0, <2>3, Fields DEF Answer
  <2>5. \/ UNCHANGED response_chain
        \/ i # 0 /\ response_chain' = chain_put(response_chain, a)
    BY <1>12 DEF ProcessResponse, schedule_response
  <2> HIDE DEF a, i
  <2>6. response_chain' \in Seq(Answer)
    <3>1. response_chain \in Seq(Answer)
      BY <1>0 DEF TypeOK
    <3>2. i # 0 => chain_put(response_chain, a) \in Seq(Answer)
      BY <2>4, <3>1, Put
    <3> QED  BY <2>5, <3>1, <3>2
  <2> QED  BY <1>0, <1>12, <2>1, <2>2, <2>6 DEF ProcessResponse, TypeOK
<1>13. CASE SendResponse
  <2> DEFINE S == [req : Req, conn : Conn, kind : {"result", "error"}]
             a == chain_get(response_chain)
  <2>1. a \in Answer /\ response_chain' \in Seq(Answer)
    BY <1>0, <1>13, Get DEF SendResponse, TypeOK
  <2>2. \A c \in Conn : [req |-> a.req, conn |-> c, kind |-> a.kind] \in S
    BY <2>1 DEF Answer
  <2>3. \/ UNCHANGED answers
        \/ \E c \in Conn :
              answers' = Append(answers, [req |-> a.req, conn |-> c, kind |-> a.kind])
    BY <1>13 DEF SendResponse
  <2>4. answers \in Seq(S)
    BY <1>0 DEF TypeOK
  <2> HIDE DEF S, a
  <2>5. \A e \in S : Append(answers, e) \in Seq(S)
    BY <2>4, PushBack
  <2>6. answers' \in Seq(S)
    BY <2>2, <2>3, <2>4, <2>5
  <2> QED  BY <1>0, <1>13, <2>1, <2>6 DEF SendResponse, TypeOK, S
<1>14. CASE UNCHANGED vars
  BY <1>0, <1>14 DEF vars, TypeOK
<1> QED  BY <1>1, <1>2, <1>3, <1>4, <1>5, <1>6, <1>7, <1>8, <1>9, <1>10, <1>11,
            <1>12, <1>13, <1>14 DEF Next
-----------------------------------------------------------------------------
(* What the steps do to the elements of the chains                         *)

\* A request is added to owner, and its two halves to the stream of c.
LEMMA SendEffect ==
    ASSUME TypeOK, NEW c \in Conn, Send(c)
    PROVE  /\ Len(owner) \in Nat
           /\ Len(owner') = Len(owner) + 1
           /\ \A r \in Sent : owner'[r] = owner[r]
           /\ owner'[Len(owner) + 1] = c
           /\ \A d \in Conn \ {c} : stream'[d] = stream[d]
           /\ Len(stream[c]) \in Nat
           /\ Len(stream'[c]) = Len(stream[c]) + 2
           /\ \A j \in 1..Len(stream[c]) : stream'[c][j] = stream[c][j]
           /\ stream'[c][Len(stream[c]) + 1] = [req |-> Len(owner) + 1, half |-> "head"]
           /\ stream'[c][Len(stream[c]) + 2] = [req |-> Len(owner) + 1, half |-> "tail"]
<1>1. owner \in Seq(Conn) /\ owner' = Append(owner, c)
  BY DEF TypeOK, Send
<1>2. /\ Len(owner) \in Nat /\ Len(owner') = Len(owner) + 1
      /\ \A r \in 1..Len(owner) : owner'[r] = owner[r]
      /\ owner'[Len(owner) + 1] = c
  BY <1>1, PushBack
<1> DEFINE S == [req : Nat, half : {"head", "tail"}]
           h == [req |-> Len(owner'), half |-> "head"]
           t == [req |-> Len(owner'), half |-> "tail"]
<1>3. h \in S /\ t \in S
  BY <1>2
<1>4. stream' = [stream EXCEPT ![c] = stream[c] \o <<h, t>>] /\ c \in DOMAIN stream
  BY DEF Send, TypeOK
<1>5. stream[c] \in Seq(S)
  <2>1. stream[c] \in Seq(Half)
    BY DEF TypeOK
  <2>2. Half \subseteq S
    BY Numbers DEF Half
  <2> HIDE DEF S
  <2> QED  BY <2>1, <2>2, SeqOfLarger
<1> HIDE DEF h, t, S
<1>6. <<h, t>> \in Seq(S) /\ Len(<<h, t>>) = 2 /\ <<h, t>>[1] = h /\ <<h, t>>[2] = t
  BY <1>3
<1>7. /\ Len(stream[c] \o <<h, t>>) = Len(stream[c]) + 2
      /\ \A j \in 1..(Len(stream[c]) + 2) : (stream[c] \o <<h, t>>)[j] =
            IF j <= Len(stream[c]) THEN stream[c][j] ELSE <<h, t>>[j - Len(stream[c])]
  BY <1>5, <1>6
<1>8. stream'[c] = stream[c] \o <<h, t>> /\ \A d \in Conn \ {c} : stream'[d] = stream[d]
  <2>1. DOMAIN stream = Conn
    BY DEF TypeOK
  <2> QED  BY <1>4, <2>1
<1>9. Len(stream[c]) \in Nat
  BY <1>5
<1>10. \A j \in 1..Len(stream[c]) : stream'[c][j] = stream[c][j]
  BY <1>7, <1>8, <1>9
<1>11. stream'[c][Len(stream[c]) + 1] = h /\ stream'[c][Len(stream[c]) + 2] = t
  <2>1. /\ Len(stream[c]) + 1 \in 1..(Len(stream[c]) + 2)
        /\ Len(stream[c]) + 2 \in 1..(Len(stream[c]) + 2)
        /\ ~(Len(stream[c]) + 1 <= Len(stream[c])) /\ ~(Len(stream[c]) + 2 <= Len(stream[c]))
        /\ (Len(stream[c]) + 1) - Len(stream[c]) = 1
        /\ (Len(stream[c]) + 2) - Len(stream[c]) = 2
    BY <1>9
  <2> QED  BY <1>6, <1>7, <1>8, <2>1
<1> QED  BY <1>2, <1>7, <1>8, <1>9, <1>10, <1>11 DEF Sent, h, t

\* recv adds frames of its connection.
LEMMA ReceivedFrames ==
    ASSUME TypeOK, NEW c \in Conn, NEW n \in 1..Len(stream[c]), NEW m \in Nat,
           NEW f \in [1..m -> 1..n], Received(c, n, m, f)
    PROVE  Range(request_chain') \subseteq
              Range(request_chain) \cup {frame(c, n, k) : k \in First(c, n)}
<1>1. request_chain \in Seq(Frame) /\ request_chain' \in Seq(Frame)
  BY DEF TypeOK, Received
<1>2. Len(request_chain) \in Nat
  BY <1>1
<1> SUFFICES ASSUME NEW i \in 1..Len(request_chain')
             PROVE  request_chain'[i] \in
                       Range(request_chain) \cup {frame(c, n, k) : k \in First(c, n)}
  BY <1>1, Elements
<1>3. CASE i \in 1..Len(request_chain)
  <2>1. request_chain'[i] = request_chain[i]
    BY <1>3 DEF Received
  <2> QED  BY <1>1, <1>3, <2>1, Elements
<1>4. CASE i \notin 1..Len(request_chain)
  <2> DEFINE j == i - Len(request_chain)
  <2>1. j \in 1..m /\ i = Len(request_chain) + j
    BY <1>2, <1>4 DEF Received
  <2> HIDE DEF j
  <2>2. request_chain'[i] = frame(c, n, f[j]) /\ f[j] \in First(c, n)
    BY <2>1 DEF Received
  <2> QED  BY <2>2
<1> QED  BY <1>3, <1>4

\* json_process_request takes a frame; what follows depends on the outcome.
LEMMA DispatchErrorEffect ==
    ASSUME TypeInv, DispatchError
    PROVE  /\ Range(request_chain') \subseteq Range(request_chain)
           /\ \E f \in Range(request_chain) :
                /\ ~f.ok \/ f.req \in Unknown \/ OutOfMemory
                /\ Range(response_chain') \subseteq Range(response_chain) \cup
                      {[req |-> f.req, fd |-> f.fd, kind |-> "error"]}
<1>1. /\ request_chain \in Seq(Frame) /\ request_chain # <<>>
      /\ request_chain' = Tail(request_chain)
      /\ response_chain \in Seq(Answer)
  BY DEF TypeInv, TypeOK, DispatchError
<1> DEFINE f == Head(request_chain)
           a == [req |-> f.req, fd |-> f.fd, kind |-> "error"]
<1>2. f \in Range(request_chain) /\ Range(request_chain') \subseteq Range(request_chain)
  BY <1>1, GetElements DEF chain_get, chain_rest
<1>3. f \in Frame
  BY <1>1, <1>2, Elements
<1>4. a \in Answer
  BY <1>3 DEF Frame, Answer
<1>5. /\ ~f.ok \/ f.req \in Unknown \/ OutOfMemory
      /\ response_chain' = chain_put(response_chain, a) \/ UNCHANGED response_chain
  BY DEF DispatchError, schedule_response
<1> HIDE DEF f
<1>6. Range(response_chain') \subseteq Range(response_chain) \cup {a}
  <2> HIDE DEF a
  <2>1. Range(chain_put(response_chain, a)) = Range(response_chain) \cup {a}
    BY <1>1, <1>4, PutElements
  <2> QED  BY <1>5, <2>1
<1> QED  BY <1>2, <1>5, <1>6

\* Dispatch moves a whole, known frame to ReqRespChain and ReqChain, or drops it.
LEMMA DispatchEffect ==
    ASSUME TypeInv, Dispatch
    PROVE  /\ Range(request_chain') \subseteq Range(request_chain)
           /\ \E f \in Range(request_chain) :
                /\ f.ok /\ f.req \notin Unknown
                /\ Range(ReqRespChain') \subseteq Range(ReqRespChain) \cup
                      {[ident |-> f.req, fd |-> f.fd, cltid |-> f.cltid]}
                /\ Range(ReqChain') \subseteq Range(ReqChain) \cup {f.req}
<1>1. /\ request_chain \in Seq(Frame) /\ request_chain # <<>>
      /\ request_chain' = Tail(request_chain)
      /\ ReqRespChain \in Seq(Task) /\ ReqChain \in Seq(Req)
  BY DEF TypeInv, TypeOK, Dispatch
<1> DEFINE f == Head(request_chain)
           t == [ident |-> f.req, fd |-> f.fd, cltid |-> f.cltid]
<1>2. f \in Range(request_chain) /\ Range(request_chain') \subseteq Range(request_chain)
  BY <1>1, GetElements DEF chain_get, chain_rest
<1>3. f \in Frame
  BY <1>1, <1>2, Elements
<1>4. t \in Task /\ f.req \in Req
  BY <1>3 DEF Frame, Task
<1>5. /\ f.ok /\ f.req \notin Unknown
      /\ ReqRespChain' = chain_put(ReqRespChain, t)
      /\ ReqChain' = chain_put(ReqChain, f.req) \/ UNCHANGED ReqChain
  BY DEF Dispatch, rpc_call_notification
<1> HIDE DEF f
<1>6. Range(ReqRespChain') = Range(ReqRespChain) \cup {t}
  <2> HIDE DEF t
  <2> QED  BY <1>1, <1>4, <1>5, PutElements
<1>7. Range(ReqChain') \subseteq Range(ReqChain) \cup {f.req}
  <2>1. Range(chain_put(ReqChain, f.req)) = Range(ReqChain) \cup {f.req}
    BY <1>1, <1>4, PutElements
  <2> QED  BY <1>5, <2>1
<1> QED  BY <1>2, <1>5, <1>6, <1>7

\* A request moves from ReqChain to the mapper, and from there to RespChain.
LEMMA MapperGetEffect ==
    ASSUME TypeOK, MapperGet
    PROVE  mapping' \in Range(ReqChain) /\ Range(ReqChain') \subseteq Range(ReqChain)
BY GetElements DEF TypeOK, MapperGet

\* MapperDone hands over the request that was mapped, if any.
LEMMA MapperDoneEffect ==
    ASSUME TypeOK, MapperDone
    PROVE  Range(RespChain') \subseteq Range(RespChain) \cup {mapping}
<1>1. RespChain \in Seq(Req) /\ mapping \in Req
  BY DEF TypeOK, MapperDone
<1>2. Range(chain_put(RespChain, mapping)) = Range(RespChain) \cup {mapping}
  BY <1>1, PutElements
<1>3. RespChain' = chain_put(RespChain, mapping) \/ UNCHANGED RespChain
  BY DEF MapperDone, json_send_response
<1> QED  BY <1>2, <1>3

\* The answer json_process_rsponse schedules has the number and the descriptor
\* of one task of ReqRespChain, which is the oldest one in RespChain.
LEMMA ProcessResponseEffect ==
    ASSUME TypeOK, ProcessResponse
    PROVE  /\ Range(RespChain') \subseteq Range(RespChain)
           /\ Range(ReqRespChain') \subseteq Range(ReqRespChain)
           /\ \/ UNCHANGED response_chain
              \/ \E t \in Range(ReqRespChain) :
                    /\ t.ident = chain_get(RespChain)
                    /\ response_chain' = chain_put(response_chain,
                          [req |-> t.ident, fd |-> t.fd, kind |-> "result"])
                    /\ Range(response_chain') = Range(response_chain) \cup
                          {[req |-> t.ident, fd |-> t.fd, kind |-> "result"]}
<1>1. /\ ReqRespChain \in Seq(Task) /\ RespChain \in Seq(Req) /\ RespChain # <<>>
      /\ response_chain \in Seq(Answer)
  BY DEF TypeOK, ProcessResponse
<1>2. Range(RespChain') \subseteq Range(RespChain)
  BY <1>1, GetElements DEF ProcessResponse
<1>3. Range(ReqRespChain') \subseteq Range(ReqRespChain)
  BY <1>1, RemoveElements DEF ProcessResponse
<1> DEFINE i == chain_get_by_ident(ReqRespChain, chain_get(RespChain))
           t == ReqRespChain[i]
           a == [req |-> t.ident, fd |-> t.fd, kind |-> "result"]
<1>4. \/ UNCHANGED response_chain
      \/ i # 0 /\ response_chain' = chain_put(response_chain, a)
  BY DEF ProcessResponse, schedule_response
<1>5. i # 0 => i \in 1..Len(ReqRespChain) /\ t.ident = chain_get(RespChain)
  BY <1>1, GetByIdent
<1>6. i # 0 => t \in Range(ReqRespChain) /\ t \in Task
  BY <1>1, <1>5, Elements
<1> HIDE DEF t, i
<1>7. i # 0 => a \in Answer
  BY <1>6 DEF Task, Answer
<1>8. i # 0 => Range(chain_put(response_chain, a)) = Range(response_chain) \cup {a}
  <2> HIDE DEF a
  <2> QED  BY <1>1, <1>7, PutElements
<1>9. ASSUME i # 0, response_chain' = chain_put(response_chain, a)
      PROVE  \E u \in Range(ReqRespChain) :
                /\ u.ident = chain_get(RespChain)
                /\ response_chain' = chain_put(response_chain,
                      [req |-> u.ident, fd |-> u.fd, kind |-> "result"])
                /\ Range(response_chain') = Range(response_chain) \cup
                      {[req |-> u.ident, fd |-> u.fd, kind |-> "result"]}
  <2>1. t \in Range(ReqRespChain) /\ t.ident = chain_get(RespChain)
    BY <1>5, <1>6, <1>9
  <2>2. Range(response_chain') = Range(response_chain) \cup {a}
    BY <1>8, <1>9
  <2> QED  BY <1>9, <2>1, <2>2
<1> QED  BY <1>2, <1>3, <1>4, <1>9

\* An answer is taken from response_chain, and sent to the connection that has
\* its descriptor or to nobody.
LEMMA SendResponseEffect ==
    ASSUME TypeOK, SendResponse
    PROVE  /\ Range(response_chain') \subseteq Range(response_chain)
           /\ chain_get(response_chain) \in Range(response_chain)
           /\ \/ UNCHANGED answers
              \/ \E c \in Conn :
                    LET a == chain_get(response_chain)
                        e == [req |-> a.req, conn |-> c, kind |-> a.kind]
                    IN  /\ fd[c] = a.fd
                        /\ answers' = chain_put(answers, e)
                        /\ Range(answers') = Range(answers) \cup {e}
<1> DEFINE S == [req : Req, conn : Conn, kind : {"result", "error"}]
           a == chain_get(response_chain)
           e(c) == [req |-> a.req, conn |-> c, kind |-> a.kind]
<1>1. response_chain \in Seq(Answer) /\ response_chain # <<>> /\ answers \in Seq(S)
  BY DEF TypeOK, SendResponse
<1>2. a \in Range(response_chain) /\ Range(response_chain') \subseteq Range(response_chain)
  BY <1>1, GetElements DEF SendResponse
<1>3. a \in Answer
  BY <1>1, <1>2, Elements
<1>4. \/ UNCHANGED answers
      \/ \E c \in Conn : fd[c] = a.fd /\ answers' = chain_put(answers, e(c))
  BY DEF SendResponse, chain_put
<1> HIDE DEF a
<1>5. \A c \in Conn : e(c) \in S
  BY <1>3 DEF Answer
<1>6. ASSUME NEW c \in Conn, answers' = chain_put(answers, e(c))
      PROVE  Range(answers') = Range(answers) \cup {e(c)}
  <2>1. e(c) \in S
    BY <1>5
  <2> HIDE DEF S, e
  <2> QED  BY <1>1, <1>6, <2>1, PutElements
<1> QED  BY <1>2, <1>4, <1>6 DEF a
-----------------------------------------------------------------------------
(* Every request anywhere has been sent                                    *)

\* At the start nothing is anywhere.
LEMMA SentInit == Init => SentInv
<1> SUFFICES ASSUME Init PROVE SentInv
  OBVIOUS
<1>1. Range(<<>>) = {}
  BY DEF Range
<1>2. \A c \in Conn : 1..Len(stream[c]) = {}
  BY DEF Init
<1> QED  BY <1>1, <1>2 DEF Init, SentInv

\* Every step moves requests that have been sent.
LEMMA SentNext == TypeInv /\ SentInv /\ [Next]_vars => SentInv'
<1> SUFFICES ASSUME TypeInv, SentInv, [Next]_vars PROVE SentInv'
  OBVIOUS
<1>0. TypeOK
  BY DEF TypeInv
<1>1. ASSUME NEW c \in Conn, Send(c) PROVE SentInv'
  <2>1. /\ Sent \subseteq Sent' /\ Len(owner) + 1 \in Sent'
    BY <1>0, <1>1, SendEffect DEF Sent
  <2>2. ASSUME NEW d \in Conn, NEW j \in 1..Len(stream'[d])
        PROVE  stream'[d][j].req \in Sent'
    <3>1. CASE d # c
      BY <1>0, <1>1, <2>1, <2>2, <3>1, SendEffect DEF SentInv
    <3>2. CASE d = c
      <4>1. \/ j \in 1..Len(stream[c])
            \/ j = Len(stream[c]) + 1
            \/ j = Len(stream[c]) + 2
        BY <1>0, <1>1, <2>2, <3>2, SendEffect
      <4>2. CASE j \in 1..Len(stream[c])
        BY <1>0, <1>1, <2>1, <3>2, <4>2, SendEffect DEF SentInv
      <4>3. CASE j = Len(stream[c]) + 1 \/ j = Len(stream[c]) + 2
        <5>1. stream'[c][j].req = Len(owner) + 1
          BY <1>0, <1>1, <4>3, SendEffect
        <5> QED  BY <2>1, <3>2, <5>1
      <4> QED  BY <4>1, <4>2, <4>3
    <3> QED  BY <3>1, <3>2
  <2> QED  BY <1>1, <2>1, <2>2 DEF Send, SentInv
<1>2. ASSUME NEW c \in Conn, Close(c) PROVE SentInv'
  BY <1>2 DEF Close, SentInv, Sent
<1>3. ASSUME NEW c \in Conn, Reset(c) PROVE SentInv'
  <2>1. \A d \in Conn : stream'[d] = IF d = c THEN <<>> ELSE stream[d]
    BY <1>0, <1>3 DEF Reset, TypeOK
  <2>2. \A d \in Conn : \A j \in 1..Len(stream'[d]) : stream'[d][j].req \in Sent
    BY <2>1 DEF SentInv
  <2> QED  BY <1>3, <2>2 DEF Reset, SentInv, Sent
<1>4. ASSUME NEW c \in Conn, Accept(c) PROVE SentInv'
  BY <1>4 DEF Accept, SentInv, Sent
<1>5. ASSUME NEW c \in Conn, Recv(c) PROVE SentInv'
  <2>1. PICK n \in 1..Len(stream[c]), m \in Nat :
           \E f \in [1..m -> 1..n] : Received(c, n, m, f)
    BY <1>0, <1>5, RecvEffect
  <2>2. PICK f \in [1..m -> 1..n] : Received(c, n, m, f)
    BY <2>1
  <2>3. Len(stream[c]) \in Nat
    BY <1>0 DEF TypeOK
  <2>4. \A k \in First(c, n) : frame(c, n, k).req \in Sent
    BY <2>3 DEF First, frame, SentInv
  <2>5. \A g \in Range(request_chain') : g.req \in Sent
    <3>1. Range(request_chain') \subseteq
             Range(request_chain) \cup {frame(c, n, k) : k \in First(c, n)}
      BY <1>0, <2>2, ReceivedFrames
    <3> QED  BY <2>4, <3>1 DEF SentInv
  <2>6. ASSUME NEW d \in Conn, NEW j \in 1..Len(stream'[d])
        PROVE  stream'[d][j].req \in Sent
    <3>1. CASE d # c
      BY <2>2, <2>6, <3>1 DEF SentInv, Received
    <3>2. CASE d = c
      <4>1. n + j \in 1..Len(stream[c]) /\ stream'[c][j] = stream[c][n + j]
        BY <2>2, <2>3, <2>6, <3>2 DEF Received
      <4> QED  BY <3>2, <4>1 DEF SentInv
    <3> QED  BY <3>1, <3>2
  <2>7. UNCHANGED <<owner, chains, answers>>
    BY <1>5 DEF Recv
  <2> QED  BY <2>5, <2>6, <2>7 DEF SentInv, Sent
<1>6. ASSUME NEW c \in Conn, RecvEof(c) PROVE SentInv'
  BY <1>6 DEF RecvEof, SentInv, Sent
<1>7. ASSUME NEW c \in Conn, RecvError(c) PROVE SentInv'
  BY <1>7 DEF RecvError, SentInv, Sent
<1>8. CASE DispatchError
  <2>1. PICK f \in Range(request_chain) :
           Range(response_chain') \subseteq Range(response_chain) \cup
              {[req |-> f.req, fd |-> f.fd, kind |-> "error"]}
    BY <1>8, DispatchErrorEffect
  <2>2. \A a \in Range(response_chain') : a.req \in Sent
    BY <2>1 DEF SentInv
  <2>3. Range(request_chain') \subseteq Range(request_chain)
    BY <1>8, DispatchErrorEffect
  <2> QED  BY <1>8, <2>2, <2>3 DEF DispatchError, SentInv, Sent
<1>9. CASE Dispatch
  <2>1. PICK f \in Range(request_chain) :
           /\ Range(ReqRespChain') \subseteq Range(ReqRespChain) \cup
                 {[ident |-> f.req, fd |-> f.fd, cltid |-> f.cltid]}
           /\ Range(ReqChain') \subseteq Range(ReqChain) \cup {f.req}
    BY <1>9, DispatchEffect
  <2>2. /\ \A t \in Range(ReqRespChain') : t.ident \in Sent
        /\ Range(ReqChain') \subseteq Sent
    BY <2>1 DEF SentInv
  <2>3. Range(request_chain') \subseteq Range(request_chain)
    BY <1>9, DispatchEffect
  <2> QED  BY <1>9, <2>2, <2>3 DEF Dispatch, SentInv, Sent
<1>10. CASE MapperGet
  BY <1>0, <1>10, MapperGetEffect DEF MapperGet, SentInv, Sent
<1>11. CASE MapperDone
  <2>1. Range(RespChain') \subseteq Sent
    BY <1>0, <1>11, MapperDoneEffect DEF MapperDone, SentInv
  <2> QED  BY <1>11, <2>1 DEF MapperDone, SentInv, Sent
<1>12. CASE ProcessResponse
  <2>1. \A a \in Range(response_chain') : a.req \in Sent
    <3>1. CASE UNCHANGED response_chain
      BY <3>1 DEF SentInv
    <3>2. CASE \E t \in Range(ReqRespChain) :
                  Range(response_chain') = Range(response_chain) \cup
                     {[req |-> t.ident, fd |-> t.fd, kind |-> "result"]}
      BY <3>2 DEF SentInv
    <3> QED  BY <1>0, <1>12, <3>1, <3>2, ProcessResponseEffect
  <2>2. /\ Range(RespChain') \subseteq Range(RespChain)
        /\ Range(ReqRespChain') \subseteq Range(ReqRespChain)
    BY <1>0, <1>12, ProcessResponseEffect
  <2> QED  BY <1>12, <2>1, <2>2 DEF ProcessResponse, SentInv, Sent
<1>13. CASE SendResponse
  <2>1. \A a \in Range(answers') : a.req \in Sent
    <3> DEFINE b == chain_get(response_chain)
    <3>1. b \in Range(response_chain)
      BY <1>0, <1>13, SendResponseEffect
    <3>2. CASE UNCHANGED answers
      BY <3>2 DEF SentInv
    <3>3. CASE \E c \in Conn : Range(answers') = Range(answers) \cup
                  {[req |-> b.req, conn |-> c, kind |-> b.kind]}
      BY <3>1, <3>3, SMTT(30) DEF SentInv
    <3> QED  BY <1>0, <1>13, <3>2, <3>3, SendResponseEffect
  <2>2. Range(response_chain') \subseteq Range(response_chain)
    BY <1>0, <1>13, SendResponseEffect
  <2> QED  BY <1>13, <2>1, <2>2 DEF SendResponse, SentInv, Sent
<1>14. CASE UNCHANGED vars
  BY <1>14 DEF vars, SentInv, Sent
<1> QED  BY <1>1, <1>2, <1>3, <1>4, <1>5, <1>6, <1>7, <1>8, <1>9, <1>10, <1>11,
            <1>12, <1>13, <1>14 DEF Next
-----------------------------------------------------------------------------
(* The streams                                                             *)

\* At the start the streams are empty.
LEMMA StreamInit == Init => StreamInv
<1> SUFFICES ASSUME Init, NEW c \in Conn PROVE StreamOf(c)
  BY DEF StreamInv
<1>1. 1..Len(stream[c]) = {}
  BY DEF Init
<1> QED  BY <1>1 DEF StreamOf

\* A stream that does not change stays well-formed.
LEMMA SameStream ==
    ASSUME NEW c \in Conn, StreamOf(c), stream'[c] = stream[c], split \subseteq split',
           \A j \in 1..Len(stream[c]) : owner'[stream[c][j].req] = owner[stream[c][j].req]
    PROVE  StreamOf(c)'
BY DEF StreamOf

\* A new request goes behind all that were sent, so behind those of its stream.
LEMMA SendKeepsStream ==
    ASSUME TypeOK, SentInv, StreamInv, NEW c \in Conn, Send(c)
    PROVE  StreamOf(c)'
<1> DEFINE n == Len(stream[c])
           r == Len(owner) + 1
           s == stream[c]
           t == stream'[c]
<1>1. /\ n \in Nat /\ Len(t) = n + 2
      /\ \A j \in 1..n : t[j] = s[j]
      /\ t[n + 1] = [req |-> r, half |-> "head"]
      /\ t[n + 2] = [req |-> r, half |-> "tail"]
  BY SendEffect
<1>2. /\ \A j \in 1..n : s[j].req \in Sent
      /\ \A q \in Sent : q \in Nat /\ q < r /\ owner'[q] = owner[q]
      /\ owner'[r] = c /\ r \in Nat
  BY SendEffect DEF SentInv, Sent
<1>3. split' = split
  BY DEF Send
<1>4. /\ t[n + 1].req = r /\ t[n + 1].half = "head"
      /\ t[n + 2].req = r /\ t[n + 2].half = "tail"
  BY <1>1
<1>5. StreamOf(c)
  BY DEF StreamInv
<1>6. ASSUME NEW j \in 1..Len(t) PROVE j \in 1..n \/ j = n + 1 \/ j = n + 2
  BY <1>1
<1> SUFFICES ASSUME NEW j \in 1..Len(t)
             PROVE  /\ owner'[t[j].req] = c
                    /\ \A k \in 1..Len(t) : j < k =>
                          \/ t[j].req < t[k].req
                          \/ /\ k = j + 1
                             /\ t[j].req = t[k].req
                             /\ t[j].half = "head" /\ t[k].half = "tail"
                    /\ t[j].half = "head" => j < Len(t) /\ t[j + 1].req = t[j].req
                    /\ t[j].half = "tail" =>
                          \/ j = 1 /\ t[j].req \in split'
                          \/ j > 1 /\ t[j - 1].req = t[j].req
  BY DEF StreamOf
<1> HIDE DEF n, r, s, t
<1>7. CASE j \in 1..n
  <2>1. t[j] = s[j] /\ s[j].req \in Sent /\ j <= n /\ j \in Nat
    BY <1>1, <1>2, <1>7, SMTT(30)
  <2>2. owner[s[j].req] = c
    BY <1>5, <1>7 DEF StreamOf, n, s
  <2>3. owner'[t[j].req] = c
    BY <1>2, <2>1, <2>2
  <2>4. ASSUME NEW k \in 1..Len(t), j < k
        PROVE  \/ t[j].req < t[k].req
               \/ /\ k = j + 1
                  /\ t[j].req = t[k].req
                  /\ t[j].half = "head" /\ t[k].half = "tail"
    <3>1. CASE k \in 1..n
      <4>1. t[k] = s[k]
        BY <1>1, <3>1
      <4> QED  BY <1>5, <1>7, <2>1, <2>4, <3>1, <4>1 DEF StreamOf, n, s
    <3>2. CASE k = n + 1 \/ k = n + 2
      BY <1>2, <1>4, <2>1, <3>2
    <3> QED  BY <1>6, <3>1, <3>2
  <2>5. t[j].half = "head" => j < Len(t) /\ t[j + 1].req = t[j].req
    <3> SUFFICES ASSUME t[j].half = "head"
                 PROVE  j < Len(t) /\ t[j + 1].req = t[j].req
      OBVIOUS
    <3>1. j < n /\ s[j + 1].req = s[j].req
      BY <1>5, <1>7, <2>1 DEF StreamOf, n, s
    <3>2. j + 1 \in 1..n /\ j < Len(t)
      BY <1>1, <2>1, <3>1, SMTT(30)
    <3> QED  BY <1>1, <2>1, <3>1, <3>2
  <2>6. t[j].half = "tail" => \/ j = 1 /\ t[j].req \in split'
                              \/ j > 1 /\ t[j - 1].req = t[j].req
    <3> SUFFICES ASSUME t[j].half = "tail"
                 PROVE  \/ j = 1 /\ t[j].req \in split'
                        \/ j > 1 /\ t[j - 1].req = t[j].req
      OBVIOUS
    <3>1. \/ j = 1 /\ s[j].req \in split
          \/ j > 1 /\ s[j - 1].req = s[j].req
      BY <1>5, <1>7, <2>1 DEF StreamOf, n, s
    <3>2. j > 1 => j - 1 \in 1..n
      BY <1>1, <1>7
    <3> QED  BY <1>1, <1>3, <2>1, <3>1, <3>2
  <2> QED  BY <2>3, <2>4, <2>5, <2>6
<1>8. CASE j = n + 1
  <2>1. \A k \in 1..Len(t) : j < k => k = n + 2
    BY <1>1, <1>8
  <2>2. j < Len(t) /\ j + 1 = n + 2
    BY <1>1, <1>8
  <2>3. n + 2 = j + 1
    BY <2>2
  <2> QED  BY <1>2, <1>4, <1>8, <2>1, <2>2, <2>3
<1>9. CASE j = n + 2
  <2>1. \A k \in 1..Len(t) : ~(j < k)
    BY <1>1, <1>9
  <2>2. j > 1 /\ j - 1 = n + 1
    BY <1>1, <1>9
  <2> QED  BY <1>2, <1>4, <1>9, <2>1, <2>2
<1> QED  BY <1>6, <1>7, <1>8, <1>9

\* recv takes from the front, and records a request it takes one half of.
LEMMA RecvKeepsStream ==
    ASSUME TypeOK, StreamInv, NEW c \in Conn, NEW n \in 1..Len(stream[c]), NEW m \in Nat,
           NEW f \in [1..m -> 1..n], Received(c, n, m, f), owner' = owner
    PROVE  StreamOf(c)'
<1> DEFINE s == stream[c]
           t == stream'[c]
<1>1. /\ Len(s) \in Nat /\ n \in 1..Len(s) /\ Len(t) = Len(s) - n
      /\ \A j \in 1..Len(t) : t[j] = s[n + j] /\ n + j \in 1..Len(s) /\ j \in Nat
  <2>1. Len(s) \in Nat
    BY DEF TypeOK
  <2>2. Len(t) = Len(s) - n /\ \A j \in 1..(Len(s) - n) : t[j] = s[n + j]
    BY DEF Received
  <2> HIDE DEF s, t
  <2>3. \A j \in 1..(Len(s) - n) : n + j \in 1..Len(s) /\ j \in Nat
    BY <2>1 DEF s
  <2> QED  BY <2>1, <2>2, <2>3 DEF s
<1>2. split' = split \cup (IF s[n].half = "head" THEN {s[n].req} ELSE {})
  BY DEF Received
<1>3. \A j \in 1..Len(s) :
        /\ owner[s[j].req] = c
        /\ \A k \in 1..Len(s) : j < k =>
              \/ s[j].req < s[k].req
              \/ /\ k = j + 1
                 /\ s[j].req = s[k].req
                 /\ s[j].half = "head" /\ s[k].half = "tail"
        /\ s[j].half = "head" => j < Len(s) /\ s[j + 1].req = s[j].req
        /\ s[j].half = "tail" =>
              \/ j = 1 /\ s[j].req \in split
              \/ j > 1 /\ s[j - 1].req = s[j].req
  BY DEF StreamInv, StreamOf
<1>4. \A j \in 1..Len(s) : s[j].req \in Nat
  BY Fields, Numbers
<1> SUFFICES ASSUME NEW j \in 1..Len(t)
             PROVE  /\ owner[t[j].req] = c
                    /\ \A k \in 1..Len(t) : j < k =>
                          \/ t[j].req < t[k].req
                          \/ /\ k = j + 1
                             /\ t[j].req = t[k].req
                             /\ t[j].half = "head" /\ t[k].half = "tail"
                    /\ t[j].half = "head" => j < Len(t) /\ t[j + 1].req = t[j].req
                    /\ t[j].half = "tail" =>
                          \/ j = 1 /\ t[j].req \in split'
                          \/ j > 1 /\ t[j - 1].req = t[j].req
  BY DEF StreamOf
<1> HIDE DEF s, t
<1>5. t[j] = s[n + j] /\ n + j \in 1..Len(s) /\ j \in Nat /\ n \in Nat /\ n >= 1 /\ j >= 1
  BY <1>1
<1>6. owner[t[j].req] = c
  BY <1>3, <1>5
<1>7. ASSUME NEW k \in 1..Len(t), j < k
      PROVE  \/ t[j].req < t[k].req
             \/ /\ k = j + 1
                /\ t[j].req = t[k].req
                /\ t[j].half = "head" /\ t[k].half = "tail"
  <2>1. t[k] = s[n + k] /\ n + k \in 1..Len(s) /\ k \in Nat
    BY <1>1
  <2>2. n + j < n + k /\ (n + k = (n + j) + 1 => k = j + 1)
    BY <1>5, <1>7, <2>1
  <2> QED  BY <1>3, <1>5, <2>1, <2>2
<1>8. ASSUME t[j].half = "head" PROVE j < Len(t) /\ t[j + 1].req = t[j].req
  <2>1. n + j < Len(s) /\ s[(n + j) + 1].req = s[n + j].req
    BY <1>3, <1>5, <1>8
  <2>2. j + 1 \in 1..Len(t) /\ (n + j) + 1 = n + (j + 1) /\ j < Len(t)
    BY <1>1, <1>5, <2>1
  <2> QED  BY <1>1, <1>5, <2>1, <2>2
<1>9. ASSUME t[j].half = "tail"
      PROVE  \/ j = 1 /\ t[j].req \in split'
             \/ j > 1 /\ t[j - 1].req = t[j].req
  <2>1. s[(n + j) - 1].req = s[n + j].req
    BY <1>3, <1>5, <1>9
  <2>2. CASE j = 1
    <3>1. s[n].req = s[n + 1].req /\ n \in 1..Len(s) /\ n + 1 \in 1..Len(s) /\ n < n + 1
      BY <1>1, <1>5, <2>1, <2>2
    <3>2. s[n].half = "head"
      BY <1>3, <1>4, <3>1
    <3> QED  BY <1>2, <1>5, <2>2, <3>1, <3>2
  <2>3. CASE j > 1
    <3>1. j - 1 \in 1..Len(t) /\ (n + j) - 1 = n + (j - 1)
      BY <1>1, <1>5, <2>3
    <3> QED  BY <1>1, <1>5, <2>1, <2>3, <3>1
  <2> QED  BY <1>5, <2>2, <2>3
<1> QED  BY <1>6, <1>7, <1>8, <1>9

\* Each stream keeps its shape whatever the clients and the listen thread do.
LEMMA StreamNext == TypeInv /\ SentInv /\ StreamInv /\ [Next]_vars => StreamInv'
<1> SUFFICES ASSUME TypeInv, SentInv, StreamInv, [Next]_vars PROVE StreamInv'
  OBVIOUS
<1>0. TypeOK
  BY DEF TypeInv
<1>1. ASSUME NEW c \in Conn, Send(c) PROVE StreamInv'
  <2> SUFFICES ASSUME NEW d \in Conn PROVE StreamOf(d)'
    BY DEF StreamInv
  <2>1. CASE d = c
    BY <1>0, <1>1, <2>1, SendKeepsStream
  <2>2. CASE d # c
    <3>1. stream'[d] = stream[d] /\ split \subseteq split'
      BY <1>0, <1>1, <2>2, SendEffect DEF Send
    <3>2. \A j \in 1..Len(stream[d]) : owner'[stream[d][j].req] = owner[stream[d][j].req]
      BY <1>0, <1>1, SendEffect DEF SentInv
    <3> QED  BY <3>1, <3>2, SameStream DEF StreamInv
  <2> QED  BY <2>1, <2>2
<1>2. ASSUME NEW c \in Conn, Reset(c) PROVE StreamInv'
  <2> SUFFICES ASSUME NEW d \in Conn PROVE StreamOf(d)'
    BY DEF StreamInv
  <2>1. owner' = owner /\ split' = split /\ stream'[d] = IF d = c THEN <<>> ELSE stream[d]
    BY <1>0, <1>2 DEF Reset, TypeOK
  <2>2. CASE d = c
    <3>1. 1..Len(stream'[d]) = {}
      BY <2>1, <2>2
    <3> QED  BY <3>1 DEF StreamOf
  <2>3. CASE d # c
    BY <2>1, <2>3, SameStream DEF StreamInv
  <2> QED  BY <2>2, <2>3
<1>3. ASSUME NEW c \in Conn, Recv(c) PROVE StreamInv'
  <2>1. PICK n \in 1..Len(stream[c]), m \in Nat :
           \E f \in [1..m -> 1..n] : Received(c, n, m, f)
    BY <1>0, <1>3, RecvEffect
  <2>2. PICK f \in [1..m -> 1..n] : Received(c, n, m, f)
    BY <2>1
  <2>3. owner' = owner
    BY <1>3 DEF Recv
  <2> SUFFICES ASSUME NEW d \in Conn PROVE StreamOf(d)'
    BY DEF StreamInv
  <2>4. CASE d = c
    BY <1>0, <2>2, <2>3, <2>4, RecvKeepsStream
  <2>5. CASE d # c
    <3>1. stream'[d] = stream[d] /\ split \subseteq split'
      BY <2>2, <2>5 DEF Received
    <3> QED  BY <2>3, <3>1, SameStream DEF StreamInv
  <2> QED  BY <2>4, <2>5
<1>4. ASSUME UNCHANGED <<stream, owner, split>> PROVE StreamInv'
  BY <1>4 DEF StreamInv, StreamOf
<1>5. ASSUME NEW c \in Conn, Close(c) \/ Accept(c) \/ RecvEof(c) \/ RecvError(c)
      PROVE  UNCHANGED <<stream, owner, split>>
  BY <1>5 DEF Close, Accept, RecvEof, RecvError
<1>6. ASSUME \/ DispatchError \/ Dispatch \/ MapperGet \/ MapperDone
             \/ ProcessResponse \/ SendResponse \/ UNCHANGED vars
      PROVE  UNCHANGED <<stream, owner, split>>
  BY <1>6 DEF DispatchError, Dispatch, MapperGet, MapperDone, ProcessResponse,
              SendResponse, vars
<1> QED  BY <1>1, <1>2, <1>3, <1>4, <1>5, <1>6 DEF Next
-----------------------------------------------------------------------------
(* The theorems                                                            *)

PipelineInv == TypeInv /\ SentInv /\ StreamInv

\* The invariant of the pipeline holds through every interleaving of the clients
\* and the four threads, with and without failing allocations.
THEOREM PipelineInvariance == Spec => []PipelineInv
<1> Init => PipelineInv
  BY TypeInit, SentInit, StreamInit DEF PipelineInv
<1> PipelineInv /\ [Next]_vars => PipelineInv'
  BY TypeNext, SentNext, StreamNext DEF PipelineInv
<1> QED  BY PTL DEF Spec

\* The pipeline's chains and histories keep their types: no step of a thread
\* takes a frame, a task or an answer from an empty chain.
THEOREM TypesOfPipeline == Spec => []TypeOK
<1> PipelineInv => TypeOK
  BY DEF PipelineInv, TypeInv
<1> QED  BY PipelineInvariance, PTL
=============================================================================
