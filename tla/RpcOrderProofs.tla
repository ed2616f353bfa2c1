--------------------------- MODULE RpcOrderProofs ---------------------------
(***************************************************************************)
(* The results of a connection are sent in the order of its requests: every *)
(* place a request passes holds the requests of a connection in the order  *)
(* in which they were sent, and each place is behind the next one.         *)
(***************************************************************************)
EXTENDS RpcPipelineProofs

\* The provers that every leaf is given to.
USE ZenonT(1), SMTT(20), Zenon

USE DEF net, chains, history
-----------------------------------------------------------------------------
(* The inductive invariants                                                *)

\* The places a request passes on its way to a result, the last one first.  A
\* place is the sequence of the requests there, 0 for what has no result.
ResultOf(a) == IF a.kind = "result" THEN a.req ELSE 0
CallOf(f) == IF f.ok /\ f.req \notin Unknown THEN f.req ELSE 0
Results(chain) == [i \in 1..Len(chain) |-> ResultOf(chain[i])]
Calls(chain) == [i \in 1..Len(chain) |-> CallOf(chain[i])]
Mapped == IF mapping = 0 THEN <<>> ELSE <<mapping>>
Place ==
    [p \in 1..6 |-> CASE p = 1 -> Results(answers)
                      [] p = 2 -> Results(response_chain)
                      [] p = 3 -> RespChain
                      [] p = 4 -> Mapped
                      [] p = 5 -> ReqChain
                      [] p = 6 -> Calls(request_chain)]

\* Requests r and q of one connection, r ahead of q, are in the order in which
\* they were sent.
Ahead(r, q) == r # 0 /\ q # 0 /\ owner[r] = owner[q] => r < q
InLine(place) ==
    \A p, q \in 1..6 : \A i \in 1..Len(place[p]), j \in 1..Len(place[q]) :
        p < q \/ (p = q /\ i < j) => Ahead(place[p][i], place[q][j])
BeforeStream(place) ==
    \A p \in 1..6 : \A i \in 1..Len(place[p]) :
        \A c \in Conn : \A j \in 1..Len(stream[c]) :
            place[p][i] # 0 /\ owner[place[p][i]] = c => place[p][i] < stream[c][j].req
OrderInv == InLine(Place) /\ BeforeStream(Place)
-----------------------------------------------------------------------------
(* The order of results                                                    *)

Places == [1..6 -> Seq(Nat)]

\* The first of a place leaves it.
Taken(w, place, s) ==
    /\ place[s] # <<>> /\ w[s] = Tail(place[s])
    /\ \A p \in 1..6 : p # s => w[p] = place[p]

\* To take the first request away disturbs no order.
LEMMA TakeFirst ==
    ASSUME NEW place \in Places, NEW w, NEW s \in 1..6, Taken(w, place, s),
           InLine(place), BeforeStream(place)
    PROVE  InLine(w) /\ BeforeStream(w)
<1> DEFINE g(p, i) == IF p = s THEN i + 1 ELSE i
<1>1. ASSUME NEW p \in 1..6, NEW i \in 1..Len(w[p])
      PROVE  g(p, i) \in 1..Len(place[p]) /\ w[p][i] = place[p][g(p, i)]
  <2>1. CASE p = s
    <3> DEFINE q == place[s]
               t == w[s]
    <3>1. q \in Seq(Nat) /\ q # <<>> /\ t = Tail(q)
      BY DEF Places, Taken
    <3> HIDE DEF q, t
    <3>2. /\ Len(q) \in Nat \ {0} /\ Len(t) = Len(q) - 1
          /\ \A j \in 1..(Len(q) - 1) : t[j] = q[j + 1]
      BY <3>1, PopFront
    <3>3. i \in 1..Len(t)
      BY <2>1 DEF t
    <3>4. i + 1 \in 1..Len(q) /\ t[i] = q[i + 1]
      BY <3>2, <3>3, SMTT(30)
    <3> QED  BY <2>1, <3>4 DEF q, t
  <2>2. CASE p # s
    BY <2>2 DEF Taken
  <2> QED  BY <2>1, <2>2
<1>2. \A p \in 1..6 : \A i, j \in 1..Len(w[p]) : i < j => g(p, i) < g(p, j)
  OBVIOUS
<1> HIDE DEF g
<1>3. InLine(w)
  <2> SUFFICES ASSUME NEW p \in 1..6, NEW q \in 1..6,
                      NEW i \in 1..Len(w[p]), NEW j \in 1..Len(w[q]),
                      p < q \/ (p = q /\ i < j)
               PROVE  Ahead(w[p][i], w[q][j])
    BY DEF InLine
  <2>1. /\ g(p, i) \in 1..Len(place[p]) /\ w[p][i] = place[p][g(p, i)]
        /\ g(q, j) \in 1..Len(place[q]) /\ w[q][j] = place[q][g(q, j)]
    BY <1>1
  <2>2. p < q \/ (p = q /\ g(p, i) < g(q, j))
    BY <1>2
  <2>3. Ahead(place[p][g(p, i)], place[q][g(q, j)])
    BY <2>1, <2>2 DEF InLine
  <2> QED  BY <2>1, <2>3
<1>4. BeforeStream(w)
  <2> SUFFICES ASSUME NEW p \in 1..6, NEW i \in 1..Len(w[p]),
                      NEW c \in Conn, NEW j \in 1..Len(stream[c]),
                      w[p][i] # 0, owner[w[p][i]] = c
               PROVE  w[p][i] < stream[c][j].req
    BY DEF BeforeStream
  <2>1. g(p, i) \in 1..Len(place[p]) /\ w[p][i] = place[p][g(p, i)]
    BY <1>1
  <2> QED  BY <2>1 DEF BeforeStream
<1> QED  BY <1>3, <1>4

\* A request joins a place behind what is there, ahead of the places before it.
Joined(w, place, s, v) ==
    /\ w[s] = Append(place[s], v)
    /\ \A p \in 1..6 : p # s => w[p] = place[p]
BehindTo(place, s, v) ==
    \A p \in 1..6 : p <= s => \A i \in 1..Len(place[p]) : Ahead(place[p][i], v)
AheadFrom(place, s, v) ==
    \A p \in 1..6 : s < p => \A i \in 1..Len(place[p]) : Ahead(v, place[p][i])
AheadOfStream(v) ==
    \A c \in Conn : \A j \in 1..Len(stream[c]) :
        v # 0 /\ owner[v] = c => v < stream[c][j].req

\* To put a request behind its elders and ahead of the rest disturbs no order.
LEMMA PutLast ==
    ASSUME NEW place \in Places, NEW w, NEW s \in 1..6, NEW v \in Nat,
           Joined(w, place, s, v),
           BehindTo(place, s, v), AheadFrom(place, s, v), AheadOfStream(v),
           InLine(place), BeforeStream(place)
    PROVE  InLine(w) /\ BeforeStream(w)
<1>1. ASSUME NEW p \in 1..6, NEW i \in 1..Len(w[p])
      PROVE  \/ i \in 1..Len(place[p]) /\ w[p][i] = place[p][i]
             \/ p = s /\ i = Len(place[p]) + 1 /\ w[p][i] = v
  <2>1. CASE p = s
    <3> DEFINE q == place[s]
               t == w[s]
    <3>1. q \in Seq(Nat) /\ t = Append(q, v)
      BY DEF Places, Joined
    <3> HIDE DEF q, t
    <3>2. /\ Len(t) = Len(q) + 1 /\ t[Len(q) + 1] = v
          /\ \A j \in 1..Len(q) : t[j] = q[j]
      BY <3>1
    <3>3. i \in 1..Len(t) /\ Len(q) \in Nat
      BY <2>1, <3>1 DEF t
    <3>4. (i \in 1..Len(q) /\ t[i] = q[i]) \/ (i = Len(q) + 1 /\ t[i] = v)
      BY <3>2, <3>3
    <3> QED  BY <2>1, <3>4 DEF q, t
  <2>2. CASE p # s
    BY <2>2 DEF Joined
  <2> QED  BY <2>1, <2>2
<1>2. \A p \in 1..6 : Len(place[p]) \in Nat
  BY DEF Places
<1>3. InLine(w)
  <2> SUFFICES ASSUME NEW p \in 1..6, NEW q \in 1..6,
                      NEW i \in 1..Len(w[p]), NEW j \in 1..Len(w[q]),
                      p < q \/ (p = q /\ i < j)
               PROVE  Ahead(w[p][i], w[q][j])
    BY DEF InLine
  <2>1. CASE /\ i \in 1..Len(place[p]) /\ w[p][i] = place[p][i]
             /\ j \in 1..Len(place[q]) /\ w[q][j] = place[q][j]
    BY <2>1 DEF InLine
  <2>2. CASE /\ i \in 1..Len(place[p]) /\ w[p][i] = place[p][i]
             /\ q = s /\ w[q][j] = v
    <3>1. p <= s
      BY <2>2, SMTT(30)
    <3> QED  BY <2>2, <3>1 DEF BehindTo
  <2>3. CASE /\ p = s /\ w[p][i] = v
             /\ j \in 1..Len(place[q]) /\ w[q][j] = place[q][j]
             /\ p # q
    <3>1. s < q
      BY <2>3
    <3> QED  BY <2>3, <3>1 DEF AheadFrom
  <2>4. CASE p = s /\ i = Len(place[p]) + 1
    <3> DEFINE n == Len(place[p])
    <3>1. n \in Nat /\ i = n + 1
      BY <1>2, <2>4
    <3>2. w[p][i] = v
      <4>1. i \notin 1..n
        BY <3>1
      <4> QED  BY <1>1, <4>1
    <3>3. \/ j \in 1..Len(place[q]) /\ w[q][j] = place[q][j]
          \/ q = s /\ j = Len(place[q]) + 1 /\ w[q][j] = v
      BY <1>1
    <3>4. p # q
      <4> SUFFICES ASSUME p = q PROVE FALSE
        OBVIOUS
      <4>1. j \in 1..n \/ j = n + 1
        BY <3>3
      <4>2. i < j
        OBVIOUS
      <4> HIDE DEF n
      <4> QED  BY <3>1, <4>1, <4>2
    <3>5. j \in 1..Len(place[q]) /\ w[q][j] = place[q][j]
      BY <2>4, <3>3, <3>4
    <3> QED  BY <2>3, <2>4, <3>2, <3>4, <3>5
  <2> QED  BY <1>1, <2>1, <2>2, <2>4
<1>4. BeforeStream(w)
  <2> SUFFICES ASSUME NEW p \in 1..6, NEW i \in 1..Len(w[p]),
                      NEW c \in Conn, NEW j \in 1..Len(stream[c]),
                      w[p][i] # 0, owner[w[p][i]] = c
               PROVE  w[p][i] < stream[c][j].req
    BY DEF BeforeStream
  <2>1. CASE i \in 1..Len(place[p]) /\ w[p][i] = place[p][i]
    BY <2>1 DEF BeforeStream
  <2>2. CASE w[p][i] = v
    BY <2>2 DEF AheadOfStream
  <2> QED  BY <1>1, <2>1, <2>2
<1> QED  BY <1>3, <1>4

\* The first of a place becomes the last of the next.
LEMMA Advance ==
    ASSUME NEW place \in Places, NEW w, NEW s \in 1..6, NEW t \in 1..6, s = t + 1,
           NEW m \in Places, Taken(m, place, s), Joined(w, m, t, Head(place[s])),
           InLine(place), BeforeStream(place)
    PROVE  InLine(w) /\ BeforeStream(w)
<1> DEFINE q == place[s]
           v == Head(q)
<1>1. q \in Seq(Nat) /\ q # <<>> /\ m[s] = Tail(q) /\ \A p \in 1..6 : p # s => m[p] = place[p]
  BY DEF Places, Taken
<1> HIDE DEF q
<1>2. /\ Len(q) \in Nat \ {0} /\ v = q[1] /\ v \in Nat
      /\ Len(Tail(q)) = Len(q) - 1
      /\ \A j \in 1..(Len(q) - 1) : Tail(q)[j] = q[j + 1]
  BY <1>1, PopFront
<1> HIDE DEF v
<1>3. InLine(m) /\ BeforeStream(m)
  BY TakeFirst
<1>4. 1 \in 1..Len(q) /\ v = place[s][1] /\ 1 \in 1..Len(place[s])
  BY <1>2 DEF q
<1>5. BehindTo(m, t, v)
  <2> SUFFICES ASSUME NEW p \in 1..6, p <= t, NEW i \in 1..Len(m[p])
               PROVE  Ahead(m[p][i], v)
    BY DEF BehindTo
  <2>1. p < s /\ p # s
    OBVIOUS
  <2>2. m[p] = place[p]
    BY <1>1, <2>1
  <2> QED  BY <1>4, <2>1, <2>2 DEF InLine
<1>6. AheadFrom(m, t, v)
  <2> SUFFICES ASSUME NEW p \in 1..6, t < p, NEW i \in 1..Len(m[p])
               PROVE  Ahead(v, m[p][i])
    BY DEF AheadFrom
  <2>1. CASE p = s
    <3>1. i \in 1..(Len(q) - 1) /\ m[p][i] = Tail(q)[i]
      BY <1>1, <1>2, <2>1
    <3>2. i + 1 \in 1..Len(q) /\ 1 < i + 1 /\ m[p][i] = q[i + 1]
      BY <1>2, <3>1, SMTT(30)
    <3>3. i + 1 \in 1..Len(place[s]) /\ 1 < i + 1 /\ m[p][i] = place[s][i + 1]
      BY <3>2 DEF q
    <3> QED  BY <1>4, <3>3 DEF InLine
  <2>2. CASE p # s
    <3>1. s < p
      BY <2>2
    <3>2. m[p] = place[p]
      BY <1>1, <2>2
    <3> QED  BY <1>4, <3>1, <3>2 DEF InLine
  <2> QED  BY <2>1, <2>2
<1>7. AheadOfStream(v)
  BY <1>4 DEF BeforeStream, AheadOfStream
<1>8. Joined(w, m, t, v)
  BY DEF v, q
<1> QED  BY <1>2, <1>3, <1>5, <1>6, <1>7, <1>8, PutLast

\* Results and Calls are images of their chains.
HasResults(S) == \A a \in S : ResultOf(a) \in Nat

\* Results follows the chain when an answer is put or taken.
LEMMA ResultsOf ==
    ASSUME NEW S, HasResults(S), NEW q \in Seq(S)
    PROVE  /\ Results(q) \in Seq(Nat)
           /\ \A a \in S : Results(Append(q, a)) = Append(Results(q), ResultOf(a))
           /\ q # <<>> => /\ Results(q) # <<>>
                          /\ Head(Results(q)) = ResultOf(Head(q))
                          /\ Tail(Results(q)) = Results(Tail(q))
<1>1. PICK F \in [S -> Nat] : \A a \in S : F[a] = ResultOf(a)
  <2> DEFINE G == [a \in S |-> ResultOf(a)]
  <2>1. G \in [S -> Nat] /\ \A a \in S : G[a] = ResultOf(a)
    BY DEF HasResults
  <2> QED  BY <2>1
<1>2. ASSUME NEW s \in Seq(S) PROVE Results(s) = Image(F, s)
  <2>1. \A i \in 1..Len(s) : F[s[i]] = ResultOf(s[i])
    BY <1>1
  <2> QED  BY <2>1 DEF Results, Image
<1>3. Results(q) \in Seq(Nat)
  BY <1>1, <1>2, ImageShape
<1>4. ASSUME NEW a \in S PROVE Results(Append(q, a)) = Append(Results(q), ResultOf(a))
  <2>1. Image(F, Append(q, a)) = Append(Image(F, q), F[a])
    BY <1>1, ImagePut
  <2>2. Append(q, a) \in Seq(S)
    OBVIOUS
  <2> QED  BY <1>1, <1>2, <2>1, <2>2
<1>5. ASSUME q # <<>>
      PROVE  /\ Results(q) # <<>> /\ Head(Results(q)) = ResultOf(Head(q))
             /\ Tail(Results(q)) = Results(Tail(q))
  <2>1. Head(q) \in S /\ Tail(q) \in Seq(S)
    BY <1>5, PopFront
  <2>2. FirstAndRest(Image(F, q), F, q)
    BY <1>5, ImageRest
  <2> QED  BY <1>1, <1>2, <2>1, <2>2 DEF FirstAndRest
<1> QED  BY <1>3, <1>4, <1>5

\* Calls follows the chain when a frame is taken.
LEMMA CallsOf ==
    ASSUME NEW q \in Seq(Frame)
    PROVE  /\ Calls(q) \in Seq(Nat)
           /\ q # <<>> => /\ Calls(q) # <<>>
                          /\ Head(Calls(q)) = CallOf(Head(q))
                          /\ Tail(Calls(q)) = Calls(Tail(q))
<1> DEFINE F == [f \in Frame |-> CallOf(f)]
<1>1. F \in [Frame -> Nat] /\ \A f \in Frame : F[f] = CallOf(f)
  <2>1. \A f \in Frame : CallOf(f) \in Nat
    BY Numbers DEF CallOf, Frame
  <2> QED  BY <2>1
<1> HIDE DEF F
<1>2. ASSUME NEW s \in Seq(Frame) PROVE Calls(s) = Image(F, s)
  <2>1. \A i \in 1..Len(s) : F[s[i]] = CallOf(s[i])
    BY <1>1
  <2> QED  BY <2>1 DEF Calls, Image
<1>3. Calls(q) \in Seq(Nat)
  BY <1>1, <1>2, ImageShape
<1>4. ASSUME q # <<>>
      PROVE  /\ Calls(q) # <<>> /\ Head(Calls(q)) = CallOf(Head(q))
             /\ Tail(Calls(q)) = Calls(Tail(q))
  <2>1. Head(q) \in Frame /\ Tail(q) \in Seq(Frame)
    BY <1>4, PopFront
  <2>2. FirstAndRest(Image(F, q), F, q)
    BY <1>1, <1>4, ImageRest
  <2> QED  BY <1>1, <1>2, <2>1, <2>2 DEF FirstAndRest
<1> QED  BY <1>3, <1>4

SentAnswer == [req : Req, conn : Conn, kind : {"result", "error"}]

\* The answers made and the answers sent have results.
LEMMA AnswerResults == HasResults(Answer) /\ HasResults(SentAnswer)
BY Numbers DEF Answer, SentAnswer, ResultOf, HasResults

\* The six places, before and after a step.
LEMMA PlaceIs ==
    /\ Place[1] = Results(answers) /\ Place[2] = Results(response_chain)
    /\ Place[3] = RespChain /\ Place[4] = Mapped /\ Place[5] = ReqChain
    /\ Place[6] = Calls(request_chain)
BY DEF Place

\* Each of the six places is a sequence of numbers.
LEMMA PlaceType == TypeOK => Place \in Places
<1> SUFFICES ASSUME TypeOK PROVE Place \in Places
  OBVIOUS
<1>1. Results(answers) \in Seq(Nat)
  <2>1. answers \in Seq(SentAnswer)
    BY DEF TypeOK, SentAnswer
  <2> QED  BY <2>1, AnswerResults, ResultsOf
<1>2. Results(response_chain) \in Seq(Nat)
  <2>1. response_chain \in Seq(Answer)
    BY DEF TypeOK
  <2> QED  BY <2>1, AnswerResults, ResultsOf
<1>3. Calls(request_chain) \in Seq(Nat)
  <2>1. request_chain \in Seq(Frame)
    BY DEF TypeOK
  <2> QED  BY <2>1, CallsOf
<1>4. RespChain \in Seq(Nat) /\ ReqChain \in Seq(Nat) /\ Mapped \in Seq(Nat)
  <2>1. RespChain \in Seq(Req) /\ ReqChain \in Seq(Req) /\ mapping \in Req \cup {0}
    BY DEF TypeOK
  <2>2. Req \subseteq Nat
    BY Numbers
  <2>3. ASSUME NEW q \in Seq(Req) PROVE q \in Seq(Nat)
    <3>1. Len(q) \in Nat /\ q \in [1..Len(q) -> Req]
      OBVIOUS
    <3>2. q \in [1..Len(q) -> Nat]
      BY <2>2, <3>1
    <3> QED  BY <3>1, <3>2
  <2>4. Mapped \in Seq(Nat)
    BY <2>1, <2>2 DEF Mapped
  <2> QED  BY <2>1, <2>3, <2>4
<1>5. \A p \in 1..6 : Place[p] \in Seq(Nat)
  <2>1. \A p \in 1..6 : p = 1 \/ p = 2 \/ p = 3 \/ p = 4 \/ p = 5 \/ p = 6
    OBVIOUS
  <2> QED  BY <1>1, <1>2, <1>3, <1>4, <2>1, PlaceIs
<1>6. DOMAIN Place = 1..6 /\ Place = [p \in 1..6 |-> Place[p]]
  BY DEF Place
<1> QED  BY <1>5, <1>6 DEF Places

\* Only requests that were sent are on their way.
LEMMA PlaceSent ==
    ASSUME TypeOK, SentInv, NEW p \in 1..6, NEW i \in 1..Len(Place[p])
    PROVE  Place[p][i] \in Sent \cup {0}
<1>1. CASE p = 1
  <2> DEFINE q == answers
  <2>1. q \in Seq(SentAnswer) /\ \A a \in Range(q) : a.req \in Sent
    BY DEF TypeOK, SentAnswer, SentInv
  <2>2. Len(q) \in Nat /\ \A j \in 1..Len(q) : q[j] \in Range(q)
    <3> HIDE DEF q
    <3> QED  BY <2>1, Elements
  <2>3. Place[1] = [j \in 1..Len(q) |-> ResultOf(q[j])]
    BY PlaceIs DEF Results
  <2> HIDE DEF q
  <2>4. i \in 1..Len(q)
    BY <1>1, <2>2, <2>3
  <2> QED  BY <1>1, <2>1, <2>2, <2>3, <2>4 DEF ResultOf
<1>2. CASE p = 2
  <2> DEFINE q == response_chain
  <2>1. q \in Seq(Answer) /\ \A a \in Range(q) : a.req \in Sent
    BY DEF TypeOK, SentInv
  <2>2. Len(q) \in Nat /\ \A j \in 1..Len(q) : q[j] \in Range(q)
    <3> HIDE DEF q
    <3> QED  BY <2>1, Elements
  <2>3. Place[2] = [j \in 1..Len(q) |-> ResultOf(q[j])]
    BY PlaceIs DEF Results
  <2> HIDE DEF q
  <2>4. i \in 1..Len(q)
    BY <1>2, <2>2, <2>3
  <2> QED  BY <1>2, <2>1, <2>2, <2>3, <2>4 DEF ResultOf
<1>3. CASE p = 3
  <2>1. RespChain \in Seq(Req) /\ Range(RespChain) \subseteq Sent
    BY DEF TypeOK, SentInv
  <2> QED  BY <1>3, <2>1, PlaceIs, Elements
<1>4. CASE p = 4
  BY <1>4, PlaceIs DEF Mapped, SentInv
<1>5. CASE p = 5
  <2>1. ReqChain \in Seq(Req) /\ Range(ReqChain) \subseteq Sent
    BY DEF TypeOK, SentInv
  <2> QED  BY <1>5, <2>1, PlaceIs, Elements, SMTT(30)
<1>6. CASE p = 6
  <2> DEFINE q == request_chain
  <2>1. q \in Seq(Frame) /\ \A f \in Range(q) : f.req \in Sent
    BY DEF TypeOK, SentInv
  <2>2. Len(q) \in Nat /\ \A j \in 1..Len(q) : q[j] \in Range(q)
    <3> HIDE DEF q
    <3> QED  BY <2>1, Elements
  <2>3. Place[6] = [j \in 1..Len(q) |-> CallOf(q[j])]
    BY PlaceIs DEF Calls
  <2> HIDE DEF q
  <2>4. i \in 1..Len(q)
    BY <1>6, <2>2, <2>3
  <2> QED  BY <1>6, <2>1, <2>2, <2>3, <2>4 DEF CallOf
<1> QED  BY <1>1, <1>2, <1>3, <1>4, <1>5, <1>6

\* At the start all places are empty.
LEMMA OrderInit == Init => OrderInv
<1> SUFFICES ASSUME Init PROVE OrderInv
  OBVIOUS
<1>1. \A p \in 1..6 : p = 1 \/ p = 2 \/ p = 3 \/ p = 4 \/ p = 5 \/ p = 6
  OBVIOUS
<1>2. \A p \in 1..6 : Len(Place[p]) = 0
  <2>1. /\ answers = <<>> /\ response_chain = <<>> /\ RespChain = <<>>
        /\ ReqChain = <<>> /\ request_chain = <<>> /\ Mapped = <<>>
    BY DEF Init, Mapped
  <2>2. Results(<<>>) = <<>> /\ Calls(<<>>) = <<>>
    BY DEF Results, Calls
  <2> QED  BY <1>1, <2>1, <2>2, PlaceIs
<1>3. \A p \in 1..6 : 1..Len(Place[p]) = {}
  BY <1>2
<1>4. InLine(Place)
  BY <1>3 DEF InLine
<1>5. BeforeStream(Place)
  BY <1>3 DEF BeforeStream
<1> QED  BY <1>4, <1>5 DEF OrderInv

\* A step that sends nothing and receives nothing.
LEMMA OrderKept ==
    ASSUME UNCHANGED <<owner, stream>>, NEW w, w = Place', InLine(w), BeforeStream(w)
    PROVE  OrderInv'
<1>1. InLine(Place)'
  BY DEF InLine, Ahead
<1>2. BeforeStream(Place)'
  BY DEF BeforeStream
<1> QED  BY <1>1, <1>2 DEF OrderInv

\* The places change only with the chains.
LEMMA SamePlace ==
    ASSUME UNCHANGED <<answers, response_chain, RespChain, mapping, ReqChain, request_chain>>
    PROVE  Place' = Place
BY DEF Place, Results, Calls, ResultOf, CallOf, Mapped

\* A request that is being sent is behind all others.
LEMMA SendOrder ==
    ASSUME TypeOK, SentInv, OrderInv, NEW c \in Conn, Send(c)
    PROVE  OrderInv'
<1>1. Place' = Place
  BY SamePlace DEF Send
<1>2. /\ Len(owner) \in Nat
      /\ \A r \in Sent : owner'[r] = owner[r]
      /\ \A d \in Conn \ {c} : stream'[d] = stream[d]
      /\ Len(stream[c]) \in Nat /\ Len(stream'[c]) = Len(stream[c]) + 2
      /\ \A j \in 1..Len(stream[c]) : stream'[c][j] = stream[c][j]
      /\ stream'[c][Len(stream[c]) + 1].req = Len(owner) + 1
      /\ stream'[c][Len(stream[c]) + 2].req = Len(owner) + 1
  BY SendEffect
<1>3. \A p \in 1..6 : \A i \in 1..Len(Place[p]) : Place[p][i] \in Sent \cup {0}
  BY PlaceSent
<1>4. InLine(Place)'
  <2> SUFFICES ASSUME NEW p \in 1..6, NEW q \in 1..6,
                      NEW i \in 1..Len(Place[p]), NEW j \in 1..Len(Place[q]),
                      p < q \/ (p = q /\ i < j)
               PROVE  Ahead(Place[p][i], Place[q][j])'
    BY <1>1 DEF InLine
  <2>1. Ahead(Place[p][i], Place[q][j])
    BY DEF OrderInv, InLine
  <2>2. Place[p][i] \in Sent \cup {0} /\ Place[q][j] \in Sent \cup {0}
    BY <1>3
  <2> QED  BY <1>1, <1>2, <2>1, <2>2 DEF Ahead
<1>5. BeforeStream(Place)'
  <2> SUFFICES ASSUME NEW p \in 1..6, NEW i \in 1..Len(Place[p]),
                      NEW d \in Conn, NEW j \in 1..Len(stream'[d]),
                      Place[p][i] # 0, owner'[Place[p][i]] = d
               PROVE  Place[p][i] < stream'[d][j].req
    BY <1>1 DEF BeforeStream
  <2>1. Place[p][i] \in Sent /\ owner[Place[p][i]] = d
    BY <1>2, <1>3
  <2>2. CASE d = c /\ j \notin 1..Len(stream[c])
    <3>1. j = Len(stream[c]) + 1 \/ j = Len(stream[c]) + 2
      BY <1>2, <2>2, SMTT(30)
    <3>2. stream'[d][j].req = Len(owner) + 1
      BY <1>2, <2>2, <3>1
    <3> QED  BY <1>2, <2>1, <3>2 DEF Sent
  <2>3. CASE d # c \/ j \in 1..Len(stream[c])
    <3>1. j \in 1..Len(stream[d]) /\ stream'[d][j] = stream[d][j]
      BY <1>2, <2>3
    <3> QED  BY <2>1, <3>1 DEF OrderInv, BeforeStream
  <2> QED  BY <2>2, <2>3
<1> QED  BY <1>4, <1>5 DEF OrderInv

\* What the client had not sent is lost: nothing else changes.
LEMMA ResetOrder ==
    ASSUME TypeOK, OrderInv, NEW c \in Conn, Reset(c)
    PROVE  OrderInv'
<1>1. Place' = Place /\ owner' = owner
  BY SamePlace DEF Reset
<1>2. \A d \in Conn : stream'[d] = stream[d] \/ stream'[d] = <<>>
  BY DEF Reset, TypeOK
<1>3. InLine(Place)'
  BY <1>1 DEF OrderInv, InLine, Ahead
<1>4. BeforeStream(Place)'
  <2> SUFFICES ASSUME NEW p \in 1..6, NEW i \in 1..Len(Place[p]),
                      NEW d \in Conn, NEW j \in 1..Len(stream'[d]),
                      Place[p][i] # 0, owner[Place[p][i]] = d
               PROVE  Place[p][i] < stream'[d][j].req
    BY <1>1 DEF BeforeStream
  <2>1. stream'[d] = stream[d]
    <3>1. stream'[d] # <<>>
      OBVIOUS
    <3> QED  BY <1>2, <3>1
  <2> QED  BY <2>1 DEF OrderInv, BeforeStream
<1> QED  BY <1>3, <1>4 DEF OrderInv

\* What recv returned is behind what was received before, in the order in which
\* it was sent, and ahead of what is still on its way.
LEMMA RecvOrder ==
    ASSUME TypeOK, StreamInv, OrderInv, NEW c \in Conn, Recv(c)
    PROVE  OrderInv'
<1>1. PICK n \in 1..Len(stream[c]), m \in Nat :
         \E f \in [1..m -> 1..n] : Received(c, n, m, f)
  BY RecvEffect
<1>2. PICK f \in [1..m -> 1..n] : Received(c, n, m, f)
  BY <1>1
<1> DEFINE h == stream[c]
           L == Len(request_chain)
           v(j) == CallOf(frame(c, n, f[j]))
           k == Len(h)
<1>3. h \in Seq(Half) /\ k \in Nat /\ L \in Nat /\ n \in 1..k /\ 1..n \subseteq 1..k
  <2>1. h \in Seq(Half) /\ request_chain \in Seq(Frame)
    BY DEF TypeOK
  <2>2. k \in Nat /\ L \in Nat
    BY <2>1
  <2> QED  BY <2>1, <2>2
<1>4. \A a \in 1..k : h[a].req \in Nat /\ owner[h[a].req] = c
  <2>1. \A a \in 1..k : h[a].req \in Req
    BY Fields
  <2>2. \A a \in 1..k : owner[h[a].req] = c
    BY DEF StreamInv, StreamOf
  <2> QED  BY <2>1, <2>2, Numbers
<1>5. \A a, b \in 1..k : a < b =>
         \/ h[a].req < h[b].req
         \/ b = a + 1 /\ h[a].req = h[b].req /\ h[a].half = "head" /\ h[b].half = "tail"
  BY SMTT(30) DEF StreamInv, StreamOf
<1>6. ASSUME NEW j \in 1..m, v(j) # 0
      PROVE  /\ f[j] \in 1..n /\ v(j) = h[f[j]].req /\ Whole(c, n, f[j])
             /\ h[f[j]].half = "head"
  <2>1. f[j] \in 1..n /\ f[j] \in First(c, n)
    BY <1>2 DEF Received
  <2>2. v(j) = h[f[j]].req /\ Whole(c, n, f[j])
    BY <1>6 DEF CallOf, frame
  <2> QED  BY <2>1, <2>2 DEF First
<1>7. ASSUME NEW a \in 1..m, NEW b \in 1..m, a < b, v(a) # 0, v(b) # 0
      PROVE  v(a) < v(b)
  <2>1. f[a] < f[b]
    BY <1>2, <1>7 DEF Received
  <2>2. f[a] \in 1..k /\ f[b] \in 1..k /\ h[f[b]].half # "tail"
    BY <1>3, <1>6, <1>7
  <2>3. v(a) = h[f[a]].req /\ v(b) = h[f[b]].req
    BY <1>6, <1>7
  <2>4. h[f[a]].req < h[f[b]].req
    BY <1>5, <2>1, <2>2
  <2> QED  BY <2>3, <2>4
<1>8. ASSUME NEW a \in 1..m, v(a) # 0, NEW b \in 1..k, n < b
      PROVE  v(a) < h[b].req
  <2>1. f[a] \in 1..n /\ v(a) = h[f[a]].req /\ Whole(c, n, f[a]) /\ h[f[a]].half = "head"
    BY <1>6, <1>8
  <2>2. f[a] \in 1..k /\ f[a] < b
    BY <1>3, <1>8, <2>1, SMTT(30)
  <2>3. CASE b = f[a] + 1
    <3>1. f[a] = n
      BY <1>3, <1>8, <2>1, <2>3, SMTT(30)
    <3>2. PICK z \in 1..n : z # f[a] /\ h[z].req = h[f[a]].req
      BY <2>1 DEF Whole
    <3>3. z \in 1..k /\ z < f[a]
      BY <1>3, <3>1, <3>2, SMTT(30)
    <3>4. h[z].req < h[f[a]].req \/ h[f[a]].half = "tail"
      BY <1>5, <2>2, <3>3, SMTT(30)
    <3>5. ~(h[z].req < h[f[a]].req)
      BY <1>4, <2>2, <3>2
    <3> QED  BY <2>1, <3>4, <3>5
  <2> QED  BY <1>5, <2>1, <2>2, <2>3, SMTT(30)
<1>9. /\ owner' = owner
      /\ UNCHANGED <<answers, response_chain, RespChain, mapping, ReqChain>>
  BY DEF Recv
<1>10. \A p \in 1..5 : Place'[p] = Place[p]
  BY <1>9 DEF Place, Results, ResultOf, Mapped
<1>11. /\ Place[6] = [i \in 1..L |-> CallOf(request_chain[i])]
       /\ Place'[6] = [i \in 1..(L + m) |-> CallOf(request_chain'[i])]
  BY <1>2 DEF Place, Calls, CallOf, Received
<1>12. ASSUME NEW p \in 1..6, NEW i \in 1..Len(Place'[p])
       PROVE  \/ i \in 1..Len(Place[p]) /\ Place'[p][i] = Place[p][i]
              \/ p = 6 /\ \E j \in 1..m : i = L + j /\ Place'[p][i] = v(j)
  <2>1. CASE p # 6
    BY <1>10, <2>1, SMTT(30)
  <2>2. CASE p = 6
    <3>1. Len(Place[6]) = L /\ Len(Place'[6]) = L + m
      BY <1>3, <1>11, SMTT(30)
    <3>2. CASE i \in 1..L
      <4>1. request_chain'[i] = request_chain[i] /\ i \in 1..(L + m)
        BY <1>2, <1>3, <3>2, SMTT(30) DEF Received
      <4> QED  BY <1>11, <2>2, <3>1, <3>2, <4>1, SMTT(30)
    <3>3. CASE i \notin 1..L
      <4> DEFINE j == i - L
      <4>1. j \in 1..m /\ i = L + j /\ i \in 1..(L + m)
        BY <1>3, <2>2, <3>1, <3>3
      <4> HIDE DEF j
      <4>2. request_chain'[i] = frame(c, n, f[j])
        BY <1>2, <4>1 DEF Received
      <4>3. Place'[6][i] = v(j)
        BY <1>11, <4>1, <4>2
      <4> QED  BY <2>2, <4>1, <4>3
    <3> QED  BY <3>2, <3>3
  <2> QED  BY <2>1, <2>2
<1>13. Len(Place[6]) = L
  BY <1>3, <1>11
<1>14. ASSUME NEW j \in 1..m, v(j) # 0 PROVE owner[v(j)] = c
  BY <1>3, <1>4, <1>6, <1>14
<1>15. ASSUME NEW p \in 1..6, NEW i \in 1..Len(Place[p]), NEW j \in 1..m
       PROVE  Ahead(Place[p][i], v(j))
  <2> SUFFICES ASSUME Place[p][i] # 0, v(j) # 0, owner[Place[p][i]] = owner[v(j)]
               PROVE  Place[p][i] < v(j)
    BY DEF Ahead
  <2>1. f[j] \in 1..k /\ v(j) = h[f[j]].req
    BY <1>3, <1>6
  <2>2. owner[Place[p][i]] = c
    BY <1>14
  <2> QED  BY <2>1, <2>2 DEF OrderInv, BeforeStream
<1>16. \A j \in 1..m : v(j) \in Nat
  <2> SUFFICES ASSUME NEW j \in 1..m, v(j) # 0 PROVE v(j) \in Nat
    OBVIOUS
  <2> QED  BY <1>3, <1>4, <1>6
<1> HIDE DEF v
<1>17. InLine(Place)'
  <2> SUFFICES ASSUME NEW p \in 1..6, NEW q \in 1..6,
                      NEW i \in 1..Len(Place'[p]), NEW j \in 1..Len(Place'[q]),
                      p < q \/ (p = q /\ i < j)
               PROVE  Ahead(Place'[p][i], Place'[q][j])
    BY <1>9 DEF InLine, Ahead
  <2>1. CASE i \in 1..Len(Place[p]) /\ Place'[p][i] = Place[p][i]
    <3>1. CASE j \in 1..Len(Place[q]) /\ Place'[q][j] = Place[q][j]
      BY <2>1, <3>1 DEF OrderInv, InLine
    <3>2. CASE \E b \in 1..m : Place'[q][j] = v(b)
      BY <1>15, <2>1, <3>2
    <3>3. \/ j \in 1..Len(Place[q]) /\ Place'[q][j] = Place[q][j]
          \/ q = 6 /\ \E b \in 1..m : j = L + b /\ Place'[q][j] = v(b)
      BY <1>12
    <3> QED  BY <3>1, <3>2, <3>3
  <2>2. CASE p = 6 /\ \E a \in 1..m : i = L + a /\ Place'[p][i] = v(a)
    <3>1. PICK a \in 1..m : i = L + a /\ Place'[p][i] = v(a)
      BY <2>2
    <3>2. q = 6 /\ i < j
      BY <2>2
    <3>3. j \notin 1..Len(Place[q])
      BY <1>3, <1>13, <3>1, <3>2
    <3>4. PICK b \in 1..m : j = L + b /\ Place'[q][j] = v(b)
      BY <1>12, <3>3
    <3>5. a < b
      BY <1>3, <3>1, <3>2, <3>4
    <3> QED  BY <1>7, <3>1, <3>4, <3>5 DEF Ahead
  <2> QED  BY <1>12, <2>1, <2>2
<1>18. BeforeStream(Place)'
  <2> SUFFICES ASSUME NEW p \in 1..6, NEW i \in 1..Len(Place'[p]),
                      NEW d \in Conn, NEW j \in 1..Len(stream'[d]),
                      Place'[p][i] # 0, owner[Place'[p][i]] = d
               PROVE  Place'[p][i] < stream'[d][j].req
    BY <1>9 DEF BeforeStream
  <2>1. PICK b \in 1..Len(stream[d]) :
           stream'[d][j] = stream[d][b] /\ (d = c => n < b)
    <3>1. CASE d # c
      <4>1. stream'[d] = stream[d]
        BY <1>2, <3>1 DEF Received
      <4> QED  BY <3>1, <4>1
    <3>2. CASE d = c
      <4>1. j \in 1..(k - n) /\ stream'[c][j] = stream[c][n + j]
        BY <1>2, <3>2 DEF Received
      <4>2. n + j \in 1..k /\ n < n + j
        BY <1>3, <4>1, SMTT(30)
      <4> QED  BY <3>2, <4>1, <4>2
    <3> QED  BY <3>1, <3>2
  <2>2. CASE i \in 1..Len(Place[p]) /\ Place'[p][i] = Place[p][i]
    <3>1. Place[p][i] < stream[d][b].req
      BY <2>2 DEF OrderInv, BeforeStream
    <3> QED  BY <2>1, <2>2, <3>1
  <2>3. CASE \E a \in 1..m : Place'[p][i] = v(a)
    <3>1. PICK a \in 1..m : Place'[p][i] = v(a)
      BY <2>3
    <3>2. d = c
      BY <1>14, <3>1
    <3> QED  BY <1>8, <2>1, <3>1, <3>2
  <2>4. \/ i \in 1..Len(Place[p]) /\ Place'[p][i] = Place[p][i]
        \/ p = 6 /\ \E a \in 1..m : i = L + a /\ Place'[p][i] = v(a)
    BY <1>12
  <2> QED  BY <2>2, <2>3, <2>4
<1> QED  BY <1>17, <1>18 DEF OrderInv

\* The first of a place leaves it: for the next place, as something without a
\* result, or for good.
Others(s, t) == \A p \in 1..6 : p # s /\ p # t => Place'[p] = Place[p]

\* To move the first of a place to the end of the next one, or to drop it, keeps
\* the order.
LEMMA OrderMove ==
    ASSUME TypeOK, OrderInv, UNCHANGED <<owner, stream>>,
           NEW s \in 1..6, NEW t \in 1..6, t # s, Others(s, t),
           Place[s] # <<>>, Place'[s] = Tail(Place[s]),
           \/ s = t + 1 /\ Place'[t] = Append(Place[t], Head(Place[s]))
           \/ Place'[t] = Append(Place[t], 0)
           \/ Place'[t] = Place[t]
    PROVE  OrderInv'
<1>1. Place \in Places /\ InLine(Place) /\ BeforeStream(Place)
  BY PlaceType DEF OrderInv
<1> DEFINE m == [Place EXCEPT ![s] = Tail(Place[s])]
<1>2. m \in Places /\ Taken(m, Place, s)
  <2>1. Place \in [1..6 -> Seq(Nat)] /\ Place[s] \in Seq(Nat)
    BY <1>1 DEF Places
  <2>2. Tail(Place[s]) \in Seq(Nat)
    BY <2>1, PopFront
  <2> QED  BY <2>1, <2>2 DEF Places, Taken
<1>3. \A p \in 1..6 : p # t => Place'[p] = m[p]
  BY <1>1 DEF Others, Places
<1>4. m[t] = Place[t]
  BY <1>1 DEF Places
<1> HIDE DEF m
<1>5. PICK w : w = Place'
  OBVIOUS
<1>6. InLine(m) /\ BeforeStream(m)
  BY <1>1, <1>2, TakeFirst
<1>7. CASE s = t + 1 /\ Place'[t] = Append(Place[t], Head(Place[s]))
  <2>1. Joined(w, m, t, Head(Place[s]))
    BY <1>3, <1>4, <1>5, <1>7 DEF Joined
  <2>2. InLine(w) /\ BeforeStream(w)
    BY <1>1, <1>2, <1>7, <2>1, Advance
  <2> QED  BY <1>5, <2>2, OrderKept
<1>8. CASE Place'[t] = Append(Place[t], 0)
  <2>1. Joined(w, m, t, 0)
    BY <1>3, <1>4, <1>5, <1>8 DEF Joined
  <2>2. BehindTo(m, t, 0) /\ AheadFrom(m, t, 0) /\ AheadOfStream(0)
    BY DEF BehindTo, AheadFrom, AheadOfStream, Ahead
  <2>3. InLine(w) /\ BeforeStream(w)
    <3>1. PICK v \in Nat : v = 0
      OBVIOUS
    <3> QED  BY <1>2, <1>6, <2>1, <2>2, <3>1, PutLast
  <2> QED  BY <1>5, <2>3, OrderKept
<1>9. CASE Place'[t] = Place[t]
  <2>1. Taken(w, Place, s)
    BY <1>5, <1>9 DEF Taken, Others
  <2>2. InLine(w) /\ BeforeStream(w)
    BY <1>1, <2>1, TakeFirst
  <2> QED  BY <1>5, <2>2, OrderKept
<1> QED  BY <1>7, <1>8, <1>9

\* What is in each place after a step.
LEMMA PlaceWas ==
    /\ Place'[1] = Results(answers') /\ Place'[2] = Results(response_chain')
    /\ Place'[3] = RespChain' /\ Place'[4] = Mapped' /\ Place'[5] = ReqChain'
    /\ Place'[6] = Calls(request_chain')
<1>1. Results(answers)' = Results(answers') /\ Results(response_chain)' = Results(response_chain')
  BY DEF Results, ResultOf
<1>2. Calls(request_chain)' = Calls(request_chain')
  BY DEF Calls, CallOf
<1> QED  BY <1>1, <1>2 DEF Place

\* There are no other places.
LEMMA SixPlaces == \A p \in 1..6 : p = 1 \/ p = 2 \/ p = 3 \/ p = 4 \/ p = 5 \/ p = 6
OBVIOUS

\* Dispatch moves a frame to ReqChain, or drops it.
LEMMA DispatchOrder ==
    ASSUME TypeInv, OrderInv, Dispatch
    PROVE  OrderInv'
<1>0. TypeOK /\ request_chain \in Seq(Frame) /\ request_chain # <<>>
  BY DEF TypeInv, TypeOK, Dispatch
<1>1. Others(6, 5) /\ UNCHANGED <<owner, stream>>
  <2>1. UNCHANGED <<owner, stream, answers, response_chain, RespChain, mapping>>
    BY DEF Dispatch
  <2> QED  BY <2>1, PlaceIs, PlaceWas, SixPlaces DEF Others, Mapped
<1>2. /\ Place[6] # <<>> /\ Place'[6] = Tail(Place[6])
      /\ Head(Place[6]) = CallOf(Head(request_chain))
  <2>1. request_chain' = Tail(request_chain)
    BY DEF Dispatch
  <2> QED  BY <1>0, <2>1, PlaceIs, PlaceWas, CallsOf
<1>3. CallOf(Head(request_chain)) = Head(request_chain).req
  BY DEF Dispatch, CallOf
<1>4. Place'[5] = Append(Place[5], Head(Place[6])) \/ Place'[5] = Place[5]
  BY <1>2, <1>3, PlaceIs, PlaceWas DEF Dispatch, rpc_call_notification, chain_put
<1> QED  BY <1>0, <1>1, <1>2, <1>4, OrderMove, SMTT(30)

\* DispatchError makes an answer that is no result.
LEMMA DispatchErrorOrder ==
    ASSUME TypeInv, OrderInv, DispatchError
    PROVE  OrderInv'
<1>0. /\ TypeOK /\ request_chain \in Seq(Frame) /\ request_chain # <<>>
      /\ response_chain \in Seq(Answer)
  BY DEF TypeInv, TypeOK, DispatchError
<1>1. Others(6, 2) /\ UNCHANGED <<owner, stream>>
  <2>1. UNCHANGED <<owner, stream, answers, RespChain, mapping, ReqChain>>
    BY DEF DispatchError
  <2> QED  BY <2>1, PlaceIs, PlaceWas, SixPlaces DEF Others, Mapped
<1>2. Place[6] # <<>> /\ Place'[6] = Tail(Place[6])
  <2>1. request_chain' = Tail(request_chain)
    BY DEF DispatchError
  <2> QED  BY <1>0, <2>1, PlaceIs, PlaceWas, CallsOf
<1>3. Place'[2] = Append(Place[2], 0) \/ Place'[2] = Place[2]
  <2> DEFINE h == Head(request_chain)
             a == [req |-> h.req, fd |-> h.fd, kind |-> "error"]
  <2>1. h \in Frame
    <3> HIDE DEF Frame
    <3> QED  BY <1>0, PopFront
  <2>2. a \in Answer /\ ResultOf(a) = 0
    BY <2>1 DEF Frame, Answer, ResultOf
  <2>3. response_chain' = Append(response_chain, a) \/ response_chain' = response_chain
    BY DEF DispatchError, schedule_response, chain_put
  <2> HIDE DEF a
  <2>4. Results(Append(response_chain, a)) = Append(Results(response_chain), 0)
    BY <1>0, <2>2, AnswerResults, ResultsOf
  <2> QED  BY <2>3, <2>4, PlaceIs, PlaceWas
<1> QED  BY <1>0, <1>1, <1>2, <1>3, OrderMove, SMTT(30)

\* MapperGet moves a request from ReqChain to the mapper.
LEMMA MapperGetOrder ==
    ASSUME TypeOK, OrderInv, MapperGet
    PROVE  OrderInv'
<1>1. Others(5, 4) /\ UNCHANGED <<owner, stream>>
  <2>1. UNCHANGED <<owner, stream, answers, response_chain, RespChain, request_chain>>
    BY DEF MapperGet
  <2> QED  BY <2>1, PlaceIs, PlaceWas, SixPlaces DEF Others
<1>2. Place[5] # <<>> /\ Place'[5] = Tail(Place[5])
  BY PlaceIs, PlaceWas DEF MapperGet, chain_rest
<1>3. Place'[4] = Append(Place[4], Head(Place[5]))
  <2>1. ReqChain \in Seq(Req) /\ ReqChain # <<>>
    BY DEF TypeOK, MapperGet
  <2>2. Head(ReqChain) \in Req /\ Head(ReqChain) # 0
    BY <2>1, PopFront, Numbers
  <2>3. Mapped = <<>> /\ Mapped' = <<Head(ReqChain)>>
    BY <2>2 DEF MapperGet, Mapped, chain_get
  <2>4. Append(<<>>, Head(ReqChain)) = <<Head(ReqChain)>>
    OBVIOUS
  <2> QED  BY <2>3, <2>4, PlaceIs, PlaceWas
<1> QED  BY <1>1, <1>2, <1>3, OrderMove, SMTT(30)

\* MapperDone moves it to RespChain, or drops it.
LEMMA MapperDoneOrder ==
    ASSUME TypeOK, OrderInv, MapperDone
    PROVE  OrderInv'
<1>1. Others(4, 3) /\ UNCHANGED <<owner, stream>>
  <2>1. UNCHANGED <<owner, stream, answers, response_chain, ReqChain, request_chain>>
    BY DEF MapperDone
  <2> QED  BY <2>1, PlaceIs, PlaceWas, SixPlaces DEF Others
<1>2. Place[4] = <<mapping>> /\ Place'[4] = <<>>
  BY PlaceIs, PlaceWas DEF MapperDone, Mapped
<1>3. Place[4] # <<>> /\ Place'[4] = Tail(Place[4]) /\ Head(Place[4]) = mapping
  BY <1>2
<1>4. Place'[3] = Append(Place[3], Head(Place[4])) \/ Place'[3] = Place[3]
  BY <1>3, PlaceIs, PlaceWas DEF MapperDone, json_send_response, chain_put
<1> QED  BY <1>1, <1>3, <1>4, OrderMove, SMTT(30)

\* ProcessResponse moves it to response_chain, or drops it.
LEMMA ProcessResponseOrder ==
    ASSUME TypeOK, OrderInv, ProcessResponse
    PROVE  OrderInv'
<1>0. response_chain \in Seq(Answer) /\ ReqRespChain \in Seq(Task)
  BY DEF TypeOK
<1>1. Others(3, 2) /\ UNCHANGED <<owner, stream>>
  <2>1. UNCHANGED <<owner, stream, answers, mapping, ReqChain, request_chain>>
    BY DEF ProcessResponse
  <2> QED  BY <2>1, PlaceIs, PlaceWas, SixPlaces DEF Others, Mapped
<1>2. Place[3] # <<>> /\ Place'[3] = Tail(Place[3])
  BY PlaceIs, PlaceWas DEF ProcessResponse, chain_rest
<1>3. Place'[2] = Append(Place[2], Head(Place[3])) \/ Place'[2] = Place[2]
  <2> DEFINE r == Head(RespChain)
             i == chain_get_by_ident(ReqRespChain, r)
             a == [req |-> ReqRespChain[i].ident, fd |-> ReqRespChain[i].fd, kind |-> "result"]
  <2>1. i = 0 \/ (i \in 1..Len(ReqRespChain) /\ ReqRespChain[i].ident = r)
    <3> HIDE DEF r, Task
    <3> QED  BY <1>0, GetByIdent
  <2>2. \/ response_chain' = response_chain
        \/ i # 0 /\ response_chain' = Append(response_chain, a)
    BY DEF ProcessResponse, schedule_response, chain_put, chain_get
  <2>3. ASSUME i # 0 PROVE a \in Answer /\ ResultOf(a) = r
    <3>1. i \in 1..Len(ReqRespChain) /\ ReqRespChain[i].ident = r
      BY <2>1, <2>3
    <3> HIDE DEF i, r
    <3>2. ReqRespChain[i].ident \in Req /\ ReqRespChain[i].fd \in Fd
      BY <3>1, Fields
    <3> QED  BY <3>1, <3>2 DEF Answer, ResultOf
  <2> HIDE DEF a, i, r
  <2>4. ASSUME i # 0 PROVE Results(Append(response_chain, a)) = Append(Results(response_chain), r)
    BY <1>0, <2>3, <2>4, AnswerResults, ResultsOf
  <2> QED  BY <2>2, <2>4, PlaceIs, PlaceWas DEF r
<1> QED  BY <1>1, <1>2, <1>3, OrderMove, SMTT(30)

\* SendResponse moves an answer to those sent.
LEMMA SendResponseOrder ==
    ASSUME TypeOK, OrderInv, SendResponse
    PROVE  OrderInv'
<1>0. /\ response_chain \in Seq(Answer) /\ response_chain # <<>>
      /\ answers \in Seq(SentAnswer)
  BY DEF TypeOK, SendResponse, SentAnswer
<1>1. Others(2, 1) /\ UNCHANGED <<owner, stream>>
  <2>1. UNCHANGED <<owner, stream, RespChain, mapping, ReqChain, request_chain>>
    BY DEF SendResponse
  <2> QED  BY <2>1, PlaceIs, PlaceWas, SixPlaces DEF Others, Mapped
<1> DEFINE h == Head(response_chain)
<1>2. /\ Place[2] # <<>> /\ Place'[2] = Tail(Place[2]) /\ Head(Place[2]) = ResultOf(h)
  <2>1. response_chain' = Tail(response_chain)
    BY DEF SendResponse, chain_rest
  <2> QED  BY <1>0, <2>1, PlaceIs, PlaceWas, AnswerResults, ResultsOf
<1>3. Place'[1] = Append(Place[1], Head(Place[2])) \/ Place'[1] = Place[1]
  <2>1. CASE UNCHANGED answers
    BY <2>1, PlaceIs, PlaceWas
  <2>2. CASE \E c \in Conn :
               answers' = Append(answers, [req |-> h.req, conn |-> c, kind |-> h.kind])
    <3>1. PICK c \in Conn :
             answers' = Append(answers, [req |-> h.req, conn |-> c, kind |-> h.kind])
      BY <2>2
    <3> DEFINE a == [req |-> h.req, conn |-> c, kind |-> h.kind]
    <3>2. h \in Answer
      <4> HIDE DEF Answer
      <4> QED  BY <1>0, PopFront
    <3>3. a \in SentAnswer /\ ResultOf(a) = ResultOf(h)
      BY <3>2 DEF Answer, SentAnswer, ResultOf
    <3> HIDE DEF a
    <3>4. Results(Append(answers, a)) = Append(Results(answers), ResultOf(a))
      BY <1>0, <3>3, AnswerResults, ResultsOf
    <3> QED  BY <1>2, <3>1, <3>3, <3>4, PlaceIs, PlaceWas DEF a
  <2> QED  BY <2>1, <2>2 DEF SendResponse, chain_get
<1> QED  BY <1>1, <1>2, <1>3, OrderMove, SMTT(30)

\* Every step keeps the order.
LEMMA OrderNext == TypeInv /\ SentInv /\ StreamInv /\ OrderInv /\ [Next]_vars => OrderInv'
<1> SUFFICES ASSUME TypeInv, SentInv, StreamInv, OrderInv, [Next]_vars
             PROVE  OrderInv'
  OBVIOUS
<1>0. TypeOK
  BY DEF TypeInv
<1>1. ASSUME NEW c \in Conn, Send(c) PROVE OrderInv'
  BY <1>0, <1>1, SendOrder
<1>2. ASSUME NEW c \in Conn, Reset(c) PROVE OrderInv'
  BY <1>0, <1>2, ResetOrder
<1>3. ASSUME NEW c \in Conn, Recv(c) PROVE OrderInv'
  BY <1>0, <1>3, RecvOrder
<1>4. CASE DispatchError
  BY <1>4, DispatchErrorOrder
<1>5. CASE Dispatch
  BY <1>5, DispatchOrder
<1>6. CASE MapperGet
  BY <1>0, <1>6, MapperGetOrder
<1>7. CASE MapperDone
  BY <1>0, <1>7, MapperDoneOrder
<1>8. CASE ProcessResponse
  BY <1>0, <1>8, ProcessResponseOrder
<1>9. CASE SendResponse
  BY <1>0, <1>9, SendResponseOrder
<1>10. CASE (\E c \in Conn : Close(c) \/ Accept(c) \/ RecvEof(c) \/ RecvError(c)) \/ UNCHANGED vars
  <2>1. UNCHANGED <<owner, stream, answers, response_chain, RespChain, mapping, ReqChain,
                    request_chain>>
    BY <1>10 DEF Close, Accept, RecvEof, RecvError, vars
  <2>2. PICK w : w = Place'
    OBVIOUS
  <2>3. w = Place
    BY <2>1, <2>2, SamePlace
  <2>4. InLine(w) /\ BeforeStream(w)
    BY <2>3 DEF OrderInv
  <2> QED  BY <2>1, <2>2, <2>4, OrderKept
<1> QED  BY <1>1, <1>2, <1>3, <1>4, <1>5, <1>6, <1>7, <1>8, <1>9, <1>10 DEF Next
-----------------------------------------------------------------------------
(* The theorems                                                            *)

LineInv == PipelineInv /\ OrderInv

\* Every place holds the requests of a connection in the order in which they were
\* sent, through every interleaving of the clients and the four threads.
THEOREM LineInvariance == Spec => []LineInv
<1> Init => OrderInv
  BY OrderInit
<1> PipelineInv /\ OrderInv /\ [Next]_vars => OrderInv'
  BY OrderNext DEF PipelineInv
<1> QED  BY PipelineInvariance, PTL DEF Spec, LineInv

\* However the four threads interleave, the results of one connection's requests
\* leave response_thread in the order in which the requests were sent, at most
\* one each.
THEOREM AnswersInOrder == Spec => []ResultsInOrder
<1> LineInv => ResultsInOrder
  <2> SUFFICES ASSUME LineInv, NEW i \in DOMAIN answers, NEW j \in DOMAIN answers, i < j,
                      answers[i].kind = "result", answers[j].kind = "result",
                      owner[answers[i].req] = owner[answers[j].req]
               PROVE  answers[i].req < answers[j].req
    BY DEF ResultsInOrder
  <2> TypeOK /\ answers \in Seq(SentAnswer) /\ SentInv /\ InLine(Place)
    BY DEF LineInv, PipelineInv, TypeInv, TypeOK, OrderInv, SentAnswer
  <2> DOMAIN answers = 1..Len(answers) /\ Len(answers) \in Nat
    OBVIOUS
  <2> Place[1] = [k \in 1..Len(answers) |-> ResultOf(answers[k])]
    BY PlaceIs DEF Results
  <2> Len(Place[1]) = Len(answers)
    OBVIOUS
  <2> Place[1][i] = answers[i].req /\ Place[1][j] = answers[j].req
    BY DEF ResultOf
  <2> Ahead(Place[1][i], Place[1][j])
    BY DEF InLine
  <2> answers[i].req # 0 /\ answers[j].req # 0
    <3> answers[i] \in SentAnswer /\ answers[j] \in SentAnswer
      OBVIOUS
    <3> QED  BY Numbers DEF SentAnswer
  <2> QED  BY DEF Ahead
<1> QED  BY LineInvariance, PTL
=============================================================================
