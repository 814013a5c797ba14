--------------------------- MODULE RestServerProofs ---------------------------
(***************************************************************************)
(* Proofs about RestConn and RestServer for any finite set of clients, any *)
(* limit and any number of replies: what the rounds of _spin keep; that    *)
(* the server with its long _toast does what RestConn says and keeps that  *)
(* too; that texts reach only those they are for.                          *)
(***************************************************************************)
EXTENDS RestServer, FiniteSetTheorems, SequenceTheorems, TLAPS

-----------------------------------------------------------------------------
(* RestConn: the rounds.                                                   *)

(* The server's sets of clients and where they may overlap. *)
SetsOK ==
  /\ backlog \subseteq Clients /\ kons \subseteq Clients
  /\ open \subseteq kons
  /\ open \cap backlog = {}
  /\ pc \in {"accept", "serve"} => isset \subseteq open

(* A client whose request was answered has lost the connection it was       *)
(* answered on.                                                             *)
AnsweredOK ==
  /\ toasted \in [Clients -> {0, 1}]
  /\ sent \in [Clients -> Nat]
  /\ \A c \in open \cup backlog : toasted[c] = 0

RoomOK == Cardinality(kons) <= Limit + 1

ConnInv == SetsOK /\ AnsweredOK /\ RoomOK

LEMMA InitConn == Init => ConnInv
<1> SUFFICES ASSUME Init PROVE ConnInv
  OBVIOUS
<1>1. SetsOK /\ AnsweredOK
  BY DEF Init, SetsOK, AnsweredOK
<1>2. Cardinality({}) = 0
  BY FS_EmptySet
<1>3. RoomOK
  BY <1>2, LimitAssumption DEF Init, RoomOK
<1>4. QED
  BY <1>1, <1>3 DEF ConnInv

(* One more connection when the server is not full, fewer when it clears.   *)
LEMMA RoomKept ==
  ASSUME RoomOK, kons \subseteq Clients,
         \/ kons' = kons
         \/ kons' = kons \cap open
         \/ ~Full /\ \E c \in backlog : kons' = kons \cup {c}
  PROVE  RoomOK'
<1>1. IsFiniteSet(kons) /\ Cardinality(kons) \in Nat
  BY LimitAssumption, FS_Subset, FS_CardinalityType
<1>2. CASE kons' = kons
  BY <1>2 DEF RoomOK
<1>3. CASE kons' = kons \cap open
  <2>1. Cardinality(kons') <= Cardinality(kons) /\ Cardinality(kons') \in Nat
    BY <1>1, <1>3, FS_Subset, FS_CardinalityType
  <2>2. QED
    BY <2>1, <1>1, LimitAssumption DEF RoomOK
<1>4. CASE ~Full /\ \E c \in backlog : kons' = kons \cup {c}
  <2>1. PICK c \in backlog : kons' = kons \cup {c}
    BY <1>4
  <2>2. Cardinality(kons') =
          IF c \in kons THEN Cardinality(kons) ELSE Cardinality(kons) + 1
    BY <1>1, <2>1, FS_AddElement, Zenon
  <2>3. Cardinality(kons) <= Limit
    BY <1>1, <1>4, LimitAssumption DEF Full
  <2>4. QED
    BY <1>1, <2>2, <2>3, LimitAssumption DEF RoomOK
<1>5. QED
  BY <1>2, <1>3, <1>4

LEMMA ServeKeeps ==
  ASSUME SetsOK, AnsweredOK, Serve
  PROVE  SetsOK' /\ AnsweredOK'
<1>1. PICK c \in isset : /\ IF wire[c] # <<>> THEN Received(c) ELSE HungUp(c)
                         /\ isset' = isset \ {c}
  BY DEF Serve
<1>2. pc = "serve" /\ pc' = pc /\ UNCHANGED <<sent, backlog, kons>>
  BY DEF Serve, clientVars
<1>3. c \in open /\ c \in Clients /\ toasted[c] = 0
  BY <1>2 DEF SetsOK, AnsweredOK
<1>4. \/ open' = open \ {c} /\ (Toast(c) \/ toasted' = toasted)
      \/ open' = open /\ toasted' = toasted
  BY <1>1 DEF Received, HungUp, Term
<1>5. CASE open' = open /\ toasted' = toasted
  BY <1>5, <1>1, <1>2 DEF SetsOK, AnsweredOK
<1>6. CASE open' = open \ {c} /\ toasted' = toasted
  BY <1>6, <1>1, <1>2 DEF SetsOK, AnsweredOK
<1>7. CASE open' = open \ {c} /\ Toast(c)
  <2>1. toasted' = [toasted EXCEPT ![c] = 1]
    BY <1>3, <1>7 DEF Toast, AnsweredOK
  <2>2. SetsOK'
    BY <1>7, <1>1, <1>2 DEF SetsOK
  <2>3. c \notin open' \cup backlog'
    BY <1>7, <1>2, <1>3 DEF SetsOK
  <2>4. AnsweredOK'
    BY <2>1, <2>3, <1>2, <1>3, <1>7 DEF AnsweredOK, SetsOK
  <2>5. QED
    BY <2>2, <2>4
<1>8. QED
  BY <1>4, <1>5, <1>6, <1>7

LEMMA SpinKeeps ==
  ASSUME ConnInv, Spin
  PROVE  ConnInv'
<1>0. SetsOK /\ AnsweredOK /\ RoomOK /\ kons \subseteq Clients
  BY DEF ConnInv, SetsOK
<1>1. CASE Select
  <2>1. SetsOK' /\ AnsweredOK'
    BY <1>0, <1>1 DEF Select, Readable, SetsOK, AnsweredOK, clientVars
  <2>2. QED
    BY <2>1, <1>0, <1>1, RoomKept DEF Select, ConnInv
<1>2. CASE Accept
  <2>1. PICK c \in backlog :
          /\ backlog' = backlog \ {c}
          /\ IF Full
               THEN Refuse(c) /\ pc' = "select"
               ELSE /\ kons' = kons \cup {c} /\ open' = open \cup {c}
                    /\ pc' = "serve"
                    /\ UNCHANGED <<wire, req>>
    BY <1>2 DEF Accept
  <2>2. pc = "accept" /\ UNCHANGED <<sent, toasted, isset>>
    BY <1>2 DEF Accept, clientVars
  <2>3. SetsOK' /\ AnsweredOK'
    BY <1>0, <2>1, <2>2 DEF SetsOK, AnsweredOK, Refuse
  <2>4. RoomOK'
    BY <1>0, <2>1, RoomKept DEF Refuse
  <2>5. QED
    BY <2>3, <2>4 DEF ConnInv
<1>3. CASE NoAccept
  BY <1>0, <1>3, RoomKept DEF NoAccept, ConnInv, SetsOK, AnsweredOK, clientVars
<1>4. CASE Serve
  BY <1>0, <1>4, ServeKeeps, RoomKept DEF Serve, ConnInv
<1>5. CASE Served
  BY <1>0, <1>5, RoomKept DEF Served, ConnInv, SetsOK, AnsweredOK, clientVars
<1>6. CASE Clear
  <2>1. SetsOK' /\ AnsweredOK'
    BY <1>0, <1>6 DEF Clear, SetsOK, AnsweredOK, clientVars
  <2>2. QED
    BY <2>1, <1>0, <1>6, RoomKept DEF Clear, ConnInv
<1>7. QED
  BY <1>1, <1>2, <1>3, <1>4, <1>5, <1>6 DEF Spin

LEMMA ConnClientKeeps ==
  ASSUME ConnInv, NEW c \in Clients, Connect(c) \/ Send(c) \/ ShutDown(c)
  PROVE  ConnInv'
<1>0. SetsOK /\ AnsweredOK /\ RoomOK /\ kons \subseteq Clients
  BY DEF ConnInv, SetsOK
<1>1. kons' = kons /\ open' = open /\ pc' = pc /\ isset' = isset
  BY DEF Connect, Send, ShutDown
<1>2. RoomOK'
  BY <1>0, <1>1, RoomKept
<1>3. CASE Connect(c)
  <2>1. /\ c \notin backlog \cup open /\ toasted' = [toasted EXCEPT ![c] = 0]
        /\ backlog' = backlog \cup {c} /\ sent' = [sent EXCEPT ![c] = 1]
    BY <1>3 DEF Connect
  <2>2. SetsOK' /\ AnsweredOK'
    BY <1>0, <1>1, <2>1 DEF SetsOK, AnsweredOK
  <2>3. QED
    BY <2>2, <1>2 DEF ConnInv
<1>4. CASE Send(c)
  <2>1. backlog' = backlog /\ sent' = [sent EXCEPT ![c] = sent[c] + 1] /\ toasted' = toasted
    BY <1>4 DEF Send
  <2>2. SetsOK' /\ AnsweredOK'
    BY <1>0, <1>1, <2>1 DEF SetsOK, AnsweredOK
  <2>3. QED
    BY <2>2, <1>2 DEF ConnInv
<1>5. CASE ShutDown(c)
  BY <1>0, <1>1, <1>2, <1>5 DEF ShutDown, ConnInv, SetsOK, AnsweredOK
<1>6. QED
  BY <1>3, <1>4, <1>5

(* All connections are gone, and none was answered by that.                 *)
LEMMA ConnFailKeeps ==
  ASSUME ConnInv, SelectFails
  PROVE  ConnInv'
<1>1. Cardinality({}) = 0
  BY FS_EmptySet
<1>2. SetsOK' /\ AnsweredOK'
  BY DEF ConnInv, SelectFails, SetsOK, AnsweredOK, clientVars
<1>3. RoomOK'
  BY <1>1, LimitAssumption DEF SelectFails, RoomOK
<1>4. QED
  BY <1>2, <1>3 DEF ConnInv

LEMMA ConnStopKeeps ==
  ASSUME ConnInv, Stops
  PROVE  ConnInv'
<1>1. pc' = "done" /\ UNCHANGED <<sent, toasted, backlog, kons, open, isset>>
  BY DEF Stops, clientVars
<1>2. QED
  BY <1>1 DEF ConnInv, SetsOK, AnsweredOK, RoomOK

LEMMA StutterKeeps == ConnInv /\ UNCHANGED vars => ConnInv'
BY DEF ConnInv, SetsOK, AnsweredOK, RoomOK, vars

LEMMA ConnInvariant == Spec => []ConnInv
<1>1. ConnInv /\ [Next]_vars => ConnInv'
  BY SpinKeeps, ConnClientKeeps, ConnFailKeeps, ConnStopKeeps, StutterKeeps DEF Next
<1>2. QED
  BY InitConn, <1>1, PTL DEF Spec

LEMMA ConnSafe == ConnInv => Bounded /\ NoLeak /\ AnsweredOnce
<1> SUFFICES ASSUME ConnInv PROVE Bounded /\ NoLeak /\ AnsweredOnce
  OBVIOUS
<1>1. IsFiniteSet(kons) /\ open \subseteq kons
  BY LimitAssumption, FS_Subset DEF ConnInv, SetsOK
<1>2. /\ Cardinality(open) \in Nat /\ Cardinality(kons) \in Nat
      /\ Cardinality(open) <= Cardinality(kons)
  BY <1>1, FS_Subset, FS_CardinalityType
<1>3. Bounded
  BY <1>2, LimitAssumption DEF Bounded, ConnInv, RoomOK
<1>4. NoLeak /\ AnsweredOnce
  BY DEF ConnInv, SetsOK, AnsweredOK, NoLeak, AnsweredOnce
<1>5. QED
  BY <1>3, <1>4

(* Never more than Limit + 1 connections (restsrv.cpp:318).                 *)
THEOREM ConnectionsBounded == Spec => []Bounded
BY ConnInvariant, ConnSafe, PTL

(* Every socket the server holds stays in _kons.                            *)
THEOREM SocketsKept == Spec => []NoLeak
BY ConnInvariant, ConnSafe, PTL

(* No request is answered twice, however its bytes arrive.                  *)
THEOREM NoSecondAnswer == Spec => []AnsweredOnce
BY ConnInvariant, ConnSafe, PTL

-----------------------------------------------------------------------------
(* The bytes: what a connected client sent and the server has read is a     *)
(* prefix of its request, what it has not read is the rest.                 *)

Byte == {"head", "cr", "lf", "body"}

Split(c, w, q, n) ==
  \E j \in 0..n : w = SubSeq(Bytes(c), j + 1, n) /\ q = SubSeq(Bytes(c), 1, j)

TextOK ==
  /\ wire \in [Clients -> Seq(Byte)] /\ req \in [Clients -> Seq(Byte)]
  /\ sent \in [Clients -> Nat] /\ \A c \in Clients : sent[c] <= Len(Bytes(c))
  /\ \A c \in Clients : IF c \in open \cup backlog
                          THEN Split(c, wire[c], req[c], sent[c])
                          ELSE wire[c] = <<>> /\ req[c] = <<>>
  /\ \A c \in backlog : req[c] = <<>>

CountOK ==
  /\ ended \in [Clients -> BOOLEAN] /\ accepted \subseteq Clients
  /\ isset \subseteq Clients /\ knock \in BOOLEAN
  /\ pc \in {"select", "accept", "serve", "clear", "done"}

TypeInv == ConnInv /\ TextOK /\ CountOK

LEMMA BytesText ==
  ASSUME NEW c
  PROVE  /\ Bytes(c) \in Seq(Byte) /\ Len(Bytes(c)) \in 3..4
         /\ <<>> \in Seq(Byte)
<1>1. /\ <<"head", "cr", "lf", "body">> \in Seq(Byte) /\ Len(<<"head", "cr", "lf", "body">>) = 4
      /\ <<"head", "cr", "lf">> \in Seq(Byte) /\ Len(<<"head", "cr", "lf">>) = 3
  BY DEF Byte
<1>2. QED
  BY <1>1, EmptySeq DEF Bytes

(* Nothing read and nothing to read. *)
LEMMA NoText ==
  ASSUME NEW c \in Clients, NEW n \in 0..Len(Bytes(c))
  PROVE  /\ SubSeq(Bytes(c), n + 1, n) = <<>>
         /\ SubSeq(Bytes(c), 1, 0) = <<>>
BY BytesText, SubSeqEmpty

(* One more byte arrives. *)
LEMMA ArriveText ==
  ASSUME NEW c \in Clients, NEW n \in 0..Len(Bytes(c)), n < Len(Bytes(c)),
         NEW w, NEW q, Split(c, w, q, n)
  PROVE  Split(c, Append(w, Bytes(c)[n + 1]), q, n + 1) /\ Bytes(c)[n + 1] \in Byte
<1> DEFINE b == Bytes(c)
<1>1. b \in Seq(Byte) /\ Len(b) \in Nat /\ n \in 0..Len(b) /\ n < Len(b)
  BY BytesText
<1>2. PICK j \in 0..n : w = SubSeq(b, j + 1, n) /\ q = SubSeq(b, 1, j)
  BY DEF Split
<1>3. b[n + 1] \in Byte
  BY <1>1, ElementOfSeq
<1> HIDE DEF b
<1>4. \A i \in (j + 1)..n : b[i] \in Byte
  BY <1>1, <1>2, ElementOfSeq
<1>5. w \in Seq(Byte)
  BY <1>1, <1>2, <1>4, SubSeqProperties
<1>6. Append(w, b[n + 1]) = w \o <<b[n + 1]>>
  BY <1>3, <1>5, AppendIsConcat
<1>7. SubSeq(b, j + 1, n + 1) = SubSeq(b, j + 1, (n + 1) - 1) \o <<b[n + 1]>>
  <2>1. j + 1 \in 1..Len(b) /\ n + 1 \in (j + 1)..Len(b)
    BY <1>1, <1>2
  <2>2. b \in Seq(Byte)
    BY <1>1
  <2>3. QED
    BY <2>1, <2>2, SubSeqRecursiveSecond
<1>8. (n + 1) - 1 = n
  BY <1>1
<1>9. Append(w, b[n + 1]) = SubSeq(b, j + 1, n + 1)
  BY <1>2, <1>6, <1>7, <1>8
<1>10. j \in 0..(n + 1)
  BY <1>1, <1>2
<1>11. QED
  BY <1>2, <1>3, <1>9, <1>10 DEF Split, b

(* recv: all that waits moves to _req. *)
LEMMA ReadText ==
  ASSUME NEW c \in Clients, NEW n \in 0..Len(Bytes(c)),
         NEW w, NEW q, Split(c, w, q, n)
  PROVE  Split(c, <<>>, q \o w, n) /\ q \o w \in Seq(Byte)
<1> DEFINE b == Bytes(c)
<1>1. b \in Seq(Byte) /\ Len(b) \in Nat /\ n \in 0..Len(b)
  BY BytesText
<1>2. PICK j \in 0..n : w = SubSeq(b, j + 1, n) /\ q = SubSeq(b, 1, j)
  BY DEF Split
<1>3. SubSeq(b, n + 1, n) = <<>>
  BY NoText
<1> HIDE DEF b
<1>4. SubSeq(b, 1, j) \o SubSeq(b, j + 1, n) = SubSeq(b, 1, n)
  BY <1>1, <1>2, ConcatAdjacentSubSeq
<1>5. \A i \in 1..n : b[i] \in Byte
  BY <1>1, ElementOfSeq DEF b
<1>6. SubSeq(b, 1, n) \in Seq(Byte)
  BY <1>1, <1>5, SubSeqProperties
<1>7. n \in 0..n
  BY <1>1
<1>8. QED
  BY <1>2, <1>3, <1>4, <1>6, <1>7 DEF Split, b

(* A fresh connection has sent one byte; a closed one has no bytes left. *)
LEMMA FirstText ==
  ASSUME NEW c \in Clients
  PROVE  Split(c, SubSeq(Bytes(c), 1, 1), <<>>, 1) /\ SubSeq(Bytes(c), 1, 1) \in Seq(Byte)
<1> DEFINE b == Bytes(c)
<1>1. b \in Seq(Byte) /\ Len(b) \in 3..4
  BY BytesText
<1>2. SubSeq(b, 1, 0) = <<>>
  BY NoText, BytesText
<1> HIDE DEF b
<1>3. \A i \in 1..1 : b[i] \in Byte
  BY <1>1, ElementOfSeq
<1>4. SubSeq(b, 1, 1) \in Seq(Byte)
  BY <1>3, SubSeqProperties
<1>5. 0 \in 0..1 /\ 0 + 1 = 1
  OBVIOUS
<1>6. QED
  BY <1>2, <1>4, <1>5 DEF Split, b

LEMMA InitText == Init => TextOK /\ CountOK
<1> SUFFICES ASSUME Init PROVE TextOK /\ CountOK
  OBVIOUS
<1>1. \A c \in Clients : Len(Bytes(c)) \in Nat /\ <<>> \in Seq(Byte)
  BY BytesText
<1>2. TextOK
  BY <1>1 DEF Init, TextOK
<1>3. QED
  BY <1>2 DEF Init, CountOK

LEMMA ConnectText ==
  ASSUME TextOK, ConnInv, NEW c \in Clients, Connect(c)
  PROVE  TextOK'
<1>1. /\ c \notin backlog \cup open /\ backlog' = backlog \cup {c} /\ open' = open
      /\ sent' = [sent EXCEPT ![c] = 1] /\ req' = req
      /\ wire' = [wire EXCEPT ![c] = SubSeq(Bytes(c), 1, 1)]
  BY DEF Connect
<1>2. Split(c, SubSeq(Bytes(c), 1, 1), <<>>, 1) /\ SubSeq(Bytes(c), 1, 1) \in Seq(Byte)
  BY FirstText
<1>3. req[c] = <<>> /\ 1 <= Len(Bytes(c))
  <2> DEFINE n == Len(Bytes(c))
  <2>1. n \in 3..4
    BY BytesText
  <2>2. req[c] = <<>>
    BY <1>1 DEF TextOK
  <2>3. 1 <= n
    <3> HIDE DEF n
    <3>1. QED
      BY <2>1
  <2>4. QED
    BY <2>2, <2>3
<1>4. wire' \in [Clients -> Seq(Byte)] /\ req' \in [Clients -> Seq(Byte)]
  BY <1>1, <1>2 DEF TextOK
<1>5. sent' \in [Clients -> Nat] /\ \A a \in Clients : sent'[a] <= Len(Bytes(a))
  BY <1>1, <1>3 DEF TextOK
<1>6. ASSUME NEW a \in Clients
      PROVE  IF a \in open' \cup backlog' THEN Split(a, wire'[a], req'[a], sent'[a])
                                          ELSE wire'[a] = <<>> /\ req'[a] = <<>>
  <2>1. CASE a = c
    <3>1. wire'[a] = SubSeq(Bytes(c), 1, 1) /\ req'[a] = <<>> /\ sent'[a] = 1
      BY <1>1, <1>3, <2>1 DEF TextOK
    <3>2. QED
      BY <3>1, <2>1, <1>1, <1>2
  <2>2. CASE a # c
    <3>1. wire'[a] = wire[a] /\ req'[a] = req[a] /\ sent'[a] = sent[a]
      BY <1>1, <2>2 DEF TextOK
    <3>2. QED
      BY <3>1, <2>2, <1>1 DEF TextOK
  <2>3. QED
    BY <2>1, <2>2
<1>7. \A a \in backlog' : req'[a] = <<>>
  BY <1>1, <1>3 DEF TextOK
<1>8. QED
  BY <1>4, <1>5, <1>6, <1>7 DEF TextOK

LEMMA SendText ==
  ASSUME TextOK, NEW c \in Clients, Send(c)
  PROVE  TextOK'
<1>1. /\ sent[c] < Len(Bytes(c)) /\ sent' = [sent EXCEPT ![c] = sent[c] + 1]
      /\ backlog' = backlog /\ open' = open /\ req' = req
      /\ wire' = [wire EXCEPT ![c] = Append(wire[c], Bytes(c)[sent[c] + 1])]
      /\ c \in backlog \cup open
  BY DEF Send, Sending
<1>2. sent[c] \in 0..Len(Bytes(c)) /\ Len(Bytes(c)) \in Nat
  BY BytesText DEF TextOK
<1>3. Split(c, Append(wire[c], Bytes(c)[sent[c] + 1]), req[c], sent[c] + 1)
  BY <1>1, <1>2, ArriveText DEF TextOK
<1>4. Bytes(c)[sent[c] + 1] \in Byte
  <2>1. Bytes(c) \in Seq(Byte) /\ sent[c] + 1 \in 1..Len(Bytes(c))
    BY <1>1, <1>2, BytesText
  <2>2. QED
    BY <2>1, ElementOfSeq
<1>5. Append(wire[c], Bytes(c)[sent[c] + 1]) \in Seq(Byte)
  BY <1>4, AppendProperties DEF TextOK
<1>6. wire' \in [Clients -> Seq(Byte)] /\ req' \in [Clients -> Seq(Byte)]
  BY <1>1, <1>5 DEF TextOK
<1>7. sent' \in [Clients -> Nat] /\ \A a \in Clients : sent'[a] <= Len(Bytes(a))
  BY <1>1, <1>2 DEF TextOK
<1>8. ASSUME NEW a \in Clients
      PROVE  IF a \in open' \cup backlog' THEN Split(a, wire'[a], req'[a], sent'[a])
                                          ELSE wire'[a] = <<>> /\ req'[a] = <<>>
  <2>1. CASE a = c
    <3>1. /\ wire'[a] = Append(wire[c], Bytes(c)[sent[c] + 1])
          /\ req'[a] = req[c] /\ sent'[a] = sent[c] + 1
      BY <1>1, <2>1 DEF TextOK
    <3>2. QED
      BY <3>1, <2>1, <1>1, <1>3
  <2>2. CASE a # c /\ a \in open \cup backlog
    <3>1. wire'[a] = wire[a] /\ req'[a] = req[a] /\ sent'[a] = sent[a]
      BY <1>1, <2>2 DEF TextOK
    <3>2. QED
      BY <3>1, <2>2, <1>1 DEF TextOK
  <2>3. CASE a \notin open \cup backlog
    <3>1. wire'[a] = wire[a] /\ req'[a] = req[a]
      BY <1>1, <2>3 DEF TextOK
    <3>2. QED
      BY <3>1, <2>3, <1>1 DEF TextOK
  <2>4. QED
    BY <2>1, <2>2, <2>3
<1>9. \A a \in backlog' : req'[a] = <<>>
  BY <1>1 DEF TextOK
<1>10. QED
  BY <1>6, <1>7, <1>8, <1>9 DEF TextOK

(* A client loses its connection, with all that was kept for it. *)
LEMMA TermText ==
  ASSUME TextOK, NEW c \in Clients, c \notin backlog', backlog' \subseteq backlog,
         wire' = [wire EXCEPT ![c] = <<>>],
         req' = [req EXCEPT ![c] = <<>>],
         open' \cup backlog' = (open \cup backlog) \ {c},
         sent' = sent
  PROVE  TextOK'
<1>1. <<>> \in Seq(Byte)
  BY BytesText
<1>2. QED
  BY <1>1 DEF TextOK

LEMMA SpinText ==
  ASSUME TextOK, ConnInv, Spin
  PROVE  TextOK'
<1>1. CASE Select \/ NoAccept \/ Served \/ Clear
  BY <1>1 DEF Select, NoAccept, Served, Clear, clientVars, TextOK
<1>2. CASE Accept
  <2>1. PICK c \in backlog :
          /\ backlog' = backlog \ {c}
          /\ IF Full
               THEN Refuse(c) /\ pc' = "select"
               ELSE /\ kons' = kons \cup {c} /\ open' = open \cup {c}
                    /\ pc' = "serve"
                    /\ UNCHANGED <<wire, req>>
    BY <1>2 DEF Accept
  <2>2. sent' = sent /\ c \in Clients /\ c \notin open
    BY <1>2 DEF Accept, clientVars, ConnInv, SetsOK
  <2>3. CASE ~Full
    BY <2>1, <2>2, <2>3 DEF TextOK
  <2>4. CASE Full
    <3>1. Split(c, wire[c], req[c], sent[c]) /\ sent[c] \in 0..Len(Bytes(c))
      BY <2>1, <2>2, BytesText DEF TextOK
    <3>2. wire' = [wire EXCEPT ![c] = <<>>] /\ req' = req /\ open' = open
      BY <2>1, <2>4 DEF Refuse
    <3>3. req' = [req EXCEPT ![c] = <<>>]
      BY <3>2, <2>1 DEF TextOK
    <3>4. c \notin backlog' /\ backlog' \subseteq backlog
      BY <2>1
    <3>5. open' \cup backlog' = (open \cup backlog) \ {c}
      BY <3>2, <2>1, <2>2
    <3>6. QED
      BY <3>2, <3>3, <3>4, <3>5, <2>2, TermText
  <2>5. QED
    BY <2>3, <2>4
<1>3. CASE Serve
  <2>1. PICK c \in isset : IF wire[c] # <<>> THEN Received(c) ELSE HungUp(c)
    BY <1>3 DEF Serve
  <2>2. sent' = sent /\ backlog' = backlog /\ c \in open /\ c \in Clients /\ c \notin backlog
    BY <1>3 DEF Serve, clientVars, ConnInv, SetsOK
  <2>3. CASE Term(c)
    BY <2>2, <2>3, TermText DEF Term
  <2>4. CASE /\ req' = [req EXCEPT ![c] = req[c] \o wire[c]]
             /\ wire' = [wire EXCEPT ![c] = <<>>]
             /\ open' = open
    <3>1. Split(c, wire[c], req[c], sent[c]) /\ sent[c] \in 0..Len(Bytes(c))
      BY <2>2, BytesText DEF TextOK
    <3>2. Split(c, <<>>, req[c] \o wire[c], sent[c]) /\ req[c] \o wire[c] \in Seq(Byte)
      BY <3>1, <2>2, ReadText
    <3>3. <<>> \in Seq(Byte)
      BY <2>2, BytesText
    <3>4. QED
      BY <3>2, <3>3, <2>2, <2>4 DEF TextOK
  <2>5. QED
    BY <2>1, <2>3, <2>4 DEF Received, HungUp
<1>4. QED
  BY <1>1, <1>2, <1>3 DEF Spin

LEMMA FailText ==
  ASSUME TextOK, SelectFails
  PROVE  TextOK'
<1>1. \A c \in Clients : <<>> \in Seq(Byte)
  BY BytesText
<1>2. QED
  BY <1>1 DEF SelectFails, clientVars, TextOK

LEMMA StopText ==
  ASSUME TextOK, Stops
  PROVE  TextOK'
BY DEF Stops, clientVars, TextOK

LEMMA NextCounts ==
  ASSUME CountOK, ConnInv, Next
  PROVE  CountOK'
<1>1. CASE \E c \in Clients : Connect(c) \/ Send(c) \/ ShutDown(c)
  BY <1>1 DEF Connect, Send, ShutDown, CountOK
<1>2. CASE SelectFails \/ Stops
  BY <1>2 DEF SelectFails, Stops, clientVars, CountOK
<1>3. CASE Spin
  <2>1. ended' = ended /\ accepted' \subseteq Clients
    BY <1>3 DEF Spin, Select, Accept, Refuse, NoAccept, Serve, Served, Clear, clientVars,
       CountOK, ConnInv, SetsOK
  <2>2. pc' \in {"select", "accept", "serve", "clear", "done"}
    BY <1>3 DEF Spin, Select, Accept, NoAccept, Serve, Served, Clear, CountOK
  <2>3. isset' \subseteq Clients
    BY <1>3 DEF Spin, Select, Accept, NoAccept, Serve, Served, Clear, CountOK, ConnInv, SetsOK
  <2>4. knock' \in BOOLEAN
    <3>1. CASE Select
      BY <3>1 DEF Select
    <3>2. CASE ~Select
      BY <3>2, <1>3 DEF Spin, Accept, NoAccept, Serve, Served, Clear, CountOK
    <3>3. QED
      BY <3>1, <3>2
  <2>5. QED
    BY <2>1, <2>2, <2>3, <2>4 DEF CountOK
<1>4. QED
  BY <1>1, <1>2, <1>3 DEF Next

LEMMA NextText ==
  ASSUME TextOK, ConnInv, Next
  PROVE  TextOK'
<1>1. ASSUME NEW c \in Clients, ShutDown(c) PROVE TextOK'
  BY <1>1 DEF ShutDown, TextOK
<1>2. QED
  BY <1>1, ConnectText, SendText, SpinText, FailText, StopText DEF Next

(* The invariant says what TypeOK says, and more. *)
LEMMA TextTypes ==
  ASSUME TypeInv
  PROVE  TypeOK
<1>1. ASSUME NEW c \in Clients
      PROVE  /\ sent[c] \in 0..4
             /\ \E i, j, k \in 0..sent[c] : /\ wire[c] = SubSeq(Bytes(c), j + 1, k)
                                          /\ req[c] = SubSeq(Bytes(c), i + 1, j)
  <2>1. sent[c] \in 0..Len(Bytes(c)) /\ Len(Bytes(c)) \in 3..4
    BY BytesText DEF TypeInv, TextOK
  <2>0. sent[c] \in 0..4
    <3>1. sent[c] \in Nat /\ sent[c] <= Len(Bytes(c))
      BY DEF TypeInv, TextOK
    <3> DEFINE n == Len(Bytes(c))
    <3>2. n \in 3..4 /\ sent[c] <= n
      BY <3>1, <2>1
    <3> HIDE DEF n
    <3>3. n = 3 \/ n = 4
      BY <3>2
    <3>4. QED
      BY <3>1, <3>2, <3>3
  <2>2. CASE c \in open \cup backlog
    <3>1. PICK j \in 0..sent[c] : /\ wire[c] = SubSeq(Bytes(c), j + 1, sent[c])
                                  /\ req[c] = SubSeq(Bytes(c), 1, j)
      BY <2>2 DEF TypeInv, TextOK, Split
    <3>2. 0 \in 0..sent[c] /\ sent[c] \in 0..sent[c] /\ 0 + 1 = 1
      BY <2>1
    <3>3. req[c] = SubSeq(Bytes(c), 0 + 1, j)
      BY <3>1, <3>2
    <3>4. \E i, l, k \in 0..sent[c] : /\ wire[c] = SubSeq(Bytes(c), l + 1, k)
                                     /\ req[c] = SubSeq(Bytes(c), i + 1, l)
      <4> j \in 0..sent[c] /\ 0 \in 0..sent[c] /\ sent[c] \in 0..sent[c]
        BY <3>1, <3>2
      <4>1. WITNESS 0 \in 0..sent[c], j \in 0..sent[c], sent[c] \in 0..sent[c]
      <4>2. QED
        BY <3>1, <3>3
    <3>5. QED
      BY <2>0, <3>4, Zenon
  <2>3. CASE c \notin open \cup backlog
    <3>1. wire[c] = <<>> /\ req[c] = <<>>
      BY <2>3 DEF TypeInv, TextOK
    <3>2. SubSeq(Bytes(c), 0 + 1, 0) = <<>>
      BY SubSeqEmpty
    <3>3. 0 \in 0..sent[c]
      BY <2>1
    <3>4. \E i, l, k \in 0..sent[c] : /\ wire[c] = SubSeq(Bytes(c), l + 1, k)
                                     /\ req[c] = SubSeq(Bytes(c), i + 1, l)
      <4> 0 \in 0..sent[c]
        BY <3>3
      <4>1. WITNESS 0 \in 0..sent[c], 0 \in 0..sent[c], 0 \in 0..sent[c]
      <4>2. QED
        BY <3>1, <3>2
    <3>5. QED
      BY <2>0, <3>4, Zenon
  <2>4. QED
    BY <2>2, <2>3
<1>2. sent \in [Clients -> 0..4]
  BY <1>1 DEF TypeInv, TextOK
<1>3. toasted \in [Clients -> Nat]
  BY DEF TypeInv, ConnInv, AnsweredOK
<1>4. backlog \subseteq Clients /\ kons \subseteq Clients /\ open \subseteq Clients
  BY DEF TypeInv, ConnInv, SetsOK
<1>5. QED
  BY <1>1, <1>2, <1>3, <1>4 DEF TypeOK, TypeInv, CountOK

LEMMA NextTypes == TypeInv /\ [Next]_vars => TypeInv'
<1>1. ASSUME TypeInv, Next PROVE TypeInv'
  BY <1>1, SpinKeeps, ConnClientKeeps, ConnFailKeeps, ConnStopKeeps, NextText, NextCounts
  DEF TypeInv, Next
<1>2. ASSUME TypeInv, UNCHANGED vars PROVE TypeInv'
  BY <1>2, StutterKeeps DEF TypeInv, TextOK, CountOK, vars
<1>3. QED
  BY <1>1, <1>2

(* What the server holds for a client is always a piece of what that client *)
(* sent, cut in two between _req and the socket.                            *)
THEOREM ConnTypes == Spec => []TypeOK
<1>1. Init => TypeInv
  BY InitConn, InitText DEF TypeInv
<1>2. QED
  BY <1>1, NextTypes, TextTypes, PTL DEF Spec

-----------------------------------------------------------------------------
(* RestServer: what holds while a request is served.                       *)

TextInv ==
  /\ wire \in [Clients -> Seq(Byte)] /\ req \in [Clients -> Seq(Byte)]
  /\ taken \in Seq(Byte)
  /\ sent \in [Clients -> Nat] /\ ended \in [Clients -> BOOLEAN]

(* Who select reported and was not served yet has something to be read.     *)
SocketInv ==
  /\ open \subseteq Clients /\ backlog \subseteq Clients
  /\ open \cap backlog = {}
  /\ pc \in {"accept", "serve"} =>
       /\ isset \subseteq open
       /\ \A c \in isset \ {serving} : wire[c] # <<>> \/ ended[c]

(* The client _toast works for is the one whose turn it is; its header      *)
(* ended in the bytes just received, or it has hung up.                     *)
ServingInv ==
  /\ at = "idle" <=> serving = Nobody
  /\ serving # Nobody =>
       /\ serving \in Clients /\ serving \in isset /\ pc = "serve"
       /\ Len(taken) <= Len(req[serving])
       /\ \/ HasEnd(taken)
          \/ /\ taken = <<>> /\ wire[serving] = <<>> /\ ended[serving]
             /\ HasEnd(req[serving])

ServerInv == TextInv /\ SocketInv /\ ServingInv

-----------------------------------------------------------------------------
LEMMA NoBytes == <<>> \in Seq(Byte)
OBVIOUS

(* A header that ended in the first part of a text has ended.               *)
LEMMA EndKept ==
  ASSUME NEW s \in Seq(Byte), NEW t \in Seq(Byte), HasEnd(s)
  PROVE  HasEnd(s \o t) /\ s \o t # <<>>
<1>1. PICK i \in 1..Len(s) - 1 : s[i] = "cr" /\ s[i + 1] = "lf"
  BY DEF HasEnd
<1>2. Len(s \o t) = Len(s) + Len(t) /\ Len(s) \in Nat /\ Len(t) \in Nat
  OBVIOUS
<1>3. (s \o t)[i] = s[i] /\ (s \o t)[i + 1] = s[i + 1]
  BY <1>1, <1>2
<1>4. i \in 1..Len(s \o t) - 1
  BY <1>1, <1>2
<1>5. QED
  BY <1>1, <1>2, <1>3, <1>4 DEF HasEnd

LEMMA TakeBack ==
  ASSUME NEW s \in Seq(Byte), NEW t \in Seq(Byte)
  PROVE  SubSeq(s \o t, 1, Len(s \o t) - Len(t)) = s
<1>1. Len(s \o t) - Len(t) = Len(s)
  OBVIOUS
<1>2. SubSeq(s \o t, 1, Len(s)) = s
  OBVIOUS
<1>3. QED
  BY <1>1, <1>2

LEMMA AppendAfter ==
  ASSUME NEW s \in Seq(Byte), NEW t \in Seq(Byte), NEW b \in Byte
  PROVE  s \o Append(t, b) = Append(s \o t, b)
OBVIOUS


LEMMA LastPart ==
  ASSUME NEW s \in Seq(Byte), NEW t \in Seq(Byte)
  PROVE  Len(t) <= Len(s \o t)
<1>1. Len(s \o t) = Len(s) + Len(t) /\ Len(s) \in Nat /\ Len(t) \in Nat
  OBVIOUS
<1>2. QED
  BY <1>1

LEMMA OneMore ==
  ASSUME NEW s \in Seq(Byte), NEW b \in Byte
  PROVE  Append(s, b) \in Seq(Byte) /\ Append(s, b) # <<>>
<1>1. Append(s, b) \in Seq(Byte) /\ Len(Append(s, b)) = Len(s) + 1 /\ Len(s) \in Nat
  OBVIOUS
<1>2. Len(<<>>) = 0
  OBVIOUS
<1>3. QED
  BY <1>1, <1>2

-----------------------------------------------------------------------------
(* The invariant.                                                           *)
LEMMA InitServer == SrvInit => ServerInv
<1> SUFFICES ASSUME SrvInit PROVE ServerInv
  OBVIOUS
<1>1. TextInv
  BY NoBytes DEF SrvInit, Init, TextInv
<1>2. SocketInv
  BY DEF SrvInit, Init, SocketInv
<1>3. ServingInv
  BY DEF SrvInit, ServingInv
<1>4. QED
  BY <1>1, <1>2, <1>3 DEF ServerInv

(* Nobody is served while the round goes its way. *)
LEMMA IdleKept ==
  ASSUME ServingInv, serving = Nobody, UNCHANGED <<serving, at>>
  PROVE  ServingInv'
BY DEF ServingInv

LEMMA RoundKeeps ==
  ASSUME ServerInv, Round
  PROVE  ServerInv'
<1>0. TextInv /\ SocketInv /\ ServingInv /\ serving = Nobody
  BY DEF ServerInv, Round, Idle
<1>1. UNCHANGED <<serving, taken, at>> /\ Nobody \notin Clients
  BY AuthorsAssumption DEF Round, toastVars
<1>2. ServingInv'
  BY <1>0, <1>1, IdleKept
<1>3. ASSUME Select PROVE TextInv' /\ SocketInv'
  <2>1. /\ isset' = {c \in kons : Readable(c)}
        /\ UNCHANGED <<sent, ended, backlog, open, wire, req>>
    BY <1>3 DEF Select, clientVars
  <2>2. TextInv'
    BY <1>0, <1>1, <2>1 DEF TextInv
  <2>3. SocketInv'
    BY <1>0, <2>1 DEF SocketInv, Readable
  <2>4. QED
    BY <2>2, <2>3
<1>4. ASSUME Accept PROVE TextInv' /\ SocketInv'
  <2>1. PICK c \in backlog :
          /\ backlog' = backlog \ {c}
          /\ \/ /\ wire' = [wire EXCEPT ![c] = <<>>] /\ pc' = "select"
                /\ UNCHANGED <<req, open>>
             \/ /\ open' = open \cup {c}
                /\ UNCHANGED <<wire, req>>
    BY <1>4 DEF Accept, Refuse
  <2>2. pc = "accept" /\ UNCHANGED <<sent, ended, isset>>
    BY <1>4 DEF Accept, clientVars
  <2>3. TextInv'
    BY <1>0, <1>1, <2>1, <2>2, NoBytes DEF TextInv
  <2>4. SocketInv'
    BY <1>0, <1>1, <2>1, <2>2 DEF SocketInv
  <2>5. QED
    BY <2>3, <2>4
<1>5. ASSUME NoAccept \/ Served \/ Clear \/ Stops PROVE TextInv' /\ SocketInv'
  <2>1. UNCHANGED <<sent, ended, backlog, open, wire, req, isset>>
    BY <1>5 DEF NoAccept, Served, Clear, Stops, clientVars
  <2>2. pc' \in {"accept", "serve"} => pc \in {"accept", "serve"}
    BY <1>5 DEF NoAccept, Served, Clear, Stops
  <2>3. TextInv'
    BY <1>0, <1>1, <2>1 DEF TextInv
  <2>4. SocketInv'
    BY <1>0, <1>1, <2>1, <2>2 DEF SocketInv
  <2>5. QED
    BY <2>3, <2>4
<1>6. QED
  BY <1>2, <1>3, <1>4, <1>5 DEF Round, ServerInv

LEMMA FailKeeps ==
  ASSUME ServerInv, RoundFails
  PROVE  ServerInv'
<1>0. TextInv /\ SocketInv /\ ServingInv
  BY DEF ServerInv
<1>1. /\ pc = "select" /\ pc' = "done"
      /\ backlog' = {} /\ open' = {}
      /\ wire' = [c \in Clients |-> <<>>] /\ req' = [c \in Clients |-> <<>>]
      /\ UNCHANGED <<sent, ended, serving, taken, at>>
  BY DEF RoundFails, SelectFails, clientVars, toastVars
<1>2. serving = Nobody
  BY <1>0, <1>1 DEF ServingInv
<1>3. ServingInv'
  BY <1>0, <1>1, <1>2, IdleKept
<1>4. TextInv'
  BY <1>0, <1>1, NoBytes DEF TextInv
<1>5. SocketInv'
  BY <1>1 DEF SocketInv
<1>6. QED
  BY <1>3, <1>4, <1>5 DEF ServerInv

(* What one client was read for, or closed, is nothing to the others.       *)
LEMMA ReadKeeps ==
  ASSUME ServerInv, ReadOn
  PROVE  ServerInv'
<1>0. TextInv /\ SocketInv /\ ServingInv
  BY DEF ServerInv
<1>1. PICK c \in isset : /\ IF wire[c] # <<>> THEN Received(c) ELSE HungUp(c)
                         /\ isset' = isset \ {c}
  BY DEF ReadOn
<1>2. serving = Nobody /\ pc = "serve"
      /\ UNCHANGED <<sent, ended, backlog, pc, serving, taken, at>>
  BY DEF ReadOn, Idle, clientVars, toastVars
<1>3. c \in Clients
  BY <1>0, <1>2 DEF SocketInv
<1>4. ServingInv'
  BY <1>0, <1>2, IdleKept
<1>5. /\ wire' = [wire EXCEPT ![c] = <<>>]
      /\ req' = [req EXCEPT ![c] = <<>>] \/ req' = [req EXCEPT ![c] = @ \o wire[c]]
      /\ open' = open \/ open' = open \ {c}
  BY <1>1 DEF Received, HungUp, Term
<1>6. TextInv'
  <2>1. req[c] \o wire[c] \in Seq(Byte)
    BY <1>0, <1>3 DEF TextInv
  <2>2. QED
    BY <1>0, <1>2, <1>3, <1>5, <2>1, NoBytes DEF TextInv
<1>7. SocketInv'
  BY <1>0, <1>1, <1>2, <1>3, <1>5 DEF SocketInv, TextInv
<1>8. QED
  BY <1>4, <1>6, <1>7 DEF ServerInv

LEMMA BeginKeeps ==
  ASSUME ServerInv, ToastBegin
  PROVE  ServerInv'
<1>0. TextInv /\ SocketInv /\ ServingInv
  BY DEF ServerInv
<1>1. PICK c \in isset :
        /\ HasEnd(IF wire[c] # <<>> THEN wire[c] ELSE req[c])
        /\ serving' = c /\ taken' = wire[c]
        /\ req' = [req EXCEPT ![c] = @ \o wire[c]]
        /\ wire' = [wire EXCEPT ![c] = <<>>]
        /\ at' \in {"send", "defer"}
  BY DEF ToastBegin
<1>2. serving = Nobody /\ pc = "serve"
      /\ UNCHANGED <<sent, ended, backlog, open, pc, isset>>
  BY DEF ToastBegin, Idle, clientVars
<1>3. c \in Clients /\ c # Nobody
  BY <1>0, <1>2, AuthorsAssumption DEF SocketInv
<1>4. wire[c] # <<>> \/ ended[c]
  BY <1>0, <1>1, <1>2, <1>3 DEF SocketInv
<1>5. req[c] \in Seq(Byte) /\ wire[c] \in Seq(Byte) /\ req[c] \o wire[c] \in Seq(Byte)
  BY <1>0, <1>3 DEF TextInv
<1>6. TextInv'
  BY <1>0, <1>1, <1>2, <1>3, <1>5, NoBytes DEF TextInv
<1>7. wire'[c] = <<>> /\ req'[c] = req[c] \o wire[c]
  BY <1>0, <1>1, <1>3 DEF TextInv
<1>8. SocketInv'
  <2>1. \A e \in isset' \ {serving'} : wire'[e] # <<>> \/ ended'[e]
    <3> SUFFICES ASSUME NEW e \in isset, e # c PROVE wire'[e] # <<>> \/ ended'[e]
      BY <1>1, <1>2
    <3>1. e \in Clients /\ e # Nobody
      BY <1>0, <1>2, AuthorsAssumption DEF SocketInv
    <3>2. wire[e] # <<>> \/ ended[e]
      BY <1>0, <1>2, <3>1 DEF SocketInv
    <3>3. wire'[e] = wire[e]
      BY <1>0, <1>1, <3>1 DEF TextInv
    <3>4. QED
      BY <1>2, <3>2, <3>3
  <2>2. QED
    BY <1>0, <1>2, <2>1 DEF SocketInv
<1>9. ServingInv'
  <2>1. Len(taken') <= Len(req'[serving'])
    <3>1. Len(wire[c]) <= Len(req[c] \o wire[c])
      BY <1>5, LastPart
    <3>2. QED
      BY <1>1, <1>7, <3>1
  <2>2. CASE wire[c] # <<>>
    BY <1>1, <1>2, <1>3, <2>1, <2>2 DEF ServingInv
  <2>3. CASE wire[c] = <<>>
    <3>1. req'[c] = req[c]
      BY <1>5, <1>7, <2>3
    <3>2. QED
      BY <1>1, <1>2, <1>3, <1>4, <1>7, <2>1, <2>3, <3>1 DEF ServingInv
  <2>4. QED
    BY <2>2, <2>3
<1>10. QED
  BY <1>6, <1>8, <1>9 DEF ServerInv

LEMMA EndKeeps ==
  ASSUME ServerInv, ToastEnd
  PROVE  ServerInv'
<1>0. TextInv /\ SocketInv /\ ServingInv
  BY DEF ServerInv
<1>1. /\ open' = open \ {serving} /\ isset' = isset \ {serving}
      /\ wire' = [wire EXCEPT ![serving] = <<>>]
      /\ req' = [req EXCEPT ![serving] = <<>>]
      /\ serving' = Nobody /\ taken' = <<>> /\ at' = "idle" /\ at = "send"
      /\ UNCHANGED <<sent, ended, backlog, pc>>
  BY DEF ToastEnd, Closes, Term, Over, clientVars
<1>2. serving \in Clients
  BY <1>0, <1>1 DEF ServingInv
<1>3. TextInv'
  BY <1>0, <1>1, <1>2, NoBytes DEF TextInv
<1>4. SocketInv'
  BY <1>0, <1>1, <1>2, AuthorsAssumption DEF SocketInv, TextInv
<1>5. ServingInv'
  BY <1>1 DEF ServingInv
<1>6. QED
  BY <1>3, <1>4, <1>5 DEF ServerInv

(* A client does not send after it hung up; what it sends else comes behind *)
(* what was received.                                                       *)
LEMMA ClientKeeps ==
  ASSUME ServerInv, NEW c \in Clients, Connect(c) \/ Send(c) \/ ShutDown(c),
         UNCHANGED <<serving, taken, at>>
  PROVE  ServerInv'
<1>0. TextInv /\ SocketInv /\ ServingInv
  BY DEF ServerInv
<1>1. CASE Connect(c)
  <2>1. /\ c \notin open /\ backlog' = backlog \cup {c}
        /\ sent' = [sent EXCEPT ![c] = 1]
        /\ wire' = [wire EXCEPT ![c] = SubSeq(Bytes(c), 1, 1)]
        /\ ended' = [ended EXCEPT ![c] = FALSE]
        /\ UNCHANGED <<open, req, pc, isset>>
    BY <1>1 DEF Connect
  <2>2. SubSeq(Bytes(c), 1, 1) \in Seq(Byte)
    BY BytesText
  <2>3. TextInv'
    BY <1>0, <2>1, <2>2 DEF TextInv
  <2>4. SocketInv'
    BY <1>0, <2>1 DEF SocketInv, TextInv
  <2>5. ServingInv'
    BY <1>0, <2>1 DEF ServingInv, SocketInv, TextInv
  <2>6. QED
    BY <2>3, <2>4, <2>5 DEF ServerInv
<1>2. CASE Send(c)
  <2>1. /\ sent[c] < Len(Bytes(c)) /\ ~ended[c]
        /\ sent' = [sent EXCEPT ![c] = @ + 1]
        /\ wire' = [wire EXCEPT ![c] = Append(@, Bytes(c)[sent[c] + 1])]
        /\ UNCHANGED <<ended, backlog, open, req, pc, isset>>
    BY <1>2 DEF Send, Sending
  <2>2. Append(wire[c], Bytes(c)[sent[c] + 1]) \in Seq(Byte)
        /\ Append(wire[c], Bytes(c)[sent[c] + 1]) # <<>>
    <3>1. Bytes(c)[sent[c] + 1] \in Byte
      BY <1>0, <2>1, BytesText DEF TextInv
    <3>2. wire[c] \in Seq(Byte)
      BY <1>0 DEF TextInv
    <3>3. QED
      BY <3>1, <3>2, OneMore
  <2>3. TextInv'
    <3>1. wire' \in [Clients -> Seq(Byte)]
      BY <1>0, <2>1, <2>2 DEF TextInv
    <3>2. sent' \in [Clients -> Nat]
      BY <1>0, <2>1 DEF TextInv
    <3>3. QED
      BY <1>0, <2>1, <3>1, <3>2 DEF TextInv
  <2>4. SocketInv'
    BY <1>0, <2>1, <2>2 DEF SocketInv, TextInv
  <2>5. ServingInv'
    BY <1>0, <2>1 DEF ServingInv, TextInv
  <2>6. QED
    BY <2>3, <2>4, <2>5 DEF ServerInv
<1>3. CASE ShutDown(c)
  <2>1. /\ ended' = [ended EXCEPT ![c] = TRUE]
        /\ UNCHANGED <<sent, backlog, open, wire, req, pc, isset>>
    BY <1>3 DEF ShutDown
  <2>2. TextInv'
    BY <1>0, <2>1 DEF TextInv
  <2>3. SocketInv'
    BY <1>0, <2>1 DEF SocketInv, TextInv
  <2>4. ServingInv'
    BY <1>0, <2>1 DEF ServingInv, TextInv
  <2>5. QED
    BY <2>2, <2>3, <2>4 DEF ServerInv
<1>4. QED
  BY <1>1, <1>2, <1>3

(* Steps of _toast that leave the connections alone, reply(), and the main  *)
(* thread.                                                                  *)
Elsewhere == Defer \/ WaitEnds \/ Build \/ Reply \/ MainLeaves \/ UNCHANGED srvVars

LEMMA ElsewhereFrame ==
  ASSUME Elsewhere
  PROVE  /\ UNCHANGED <<vars, serving, taken>>
         /\ at' = "idle" <=> at = "idle"
BY DEF Elsewhere, Defer, WaitEnds, Build, Reply, MainLeaves, srvVars, toastVars

LEMMA ElsewhereKeeps ==
  ASSUME ServerInv, Elsewhere
  PROVE  ServerInv'
BY ElsewhereFrame DEF ServerInv, TextInv, SocketInv, ServingInv, vars

LEMMA StepKinds ==
  ASSUME [SrvNext]_srvVars
  PROVE  \/ Round \/ RoundFails \/ ReadOn \/ ToastBegin \/ ToastEnd \/ Elsewhere
         \/ \E c \in Clients : /\ Connect(c) \/ Send(c) \/ ShutDown(c)
                               /\ UNCHANGED <<toastVars, mainVars>>
BY DEF SrvNext, RestThread, Client, Elsewhere

LEMMA ServerInvariant == SrvSpec => []ServerInv
<1>1. ServerInv /\ [SrvNext]_srvVars => ServerInv'
  BY StepKinds, RoundKeeps, FailKeeps, ReadKeeps, BeginKeeps, EndKeeps, ElsewhereKeeps,
     ClientKeeps DEF toastVars
<1>2. QED
  BY <1>1, InitServer, PTL DEF SrvSpec


-----------------------------------------------------------------------------
(* RestServer implements RestConn.                                          *)
(* As long as nobody is served the two levels have the same texts. *)
LEMMA IdleBars ==
  ASSUME TextInv, serving = Nobody
  PROVE  UnreadWire = wire /\ ReqBefore = req
BY AuthorsAssumption DEF TextInv, UnreadWire, ReqBefore

LEMMA IdleBarsNext ==
  ASSUME TextInv', serving' = Nobody
  PROVE  UnreadWire' = wire' /\ ReqBefore' = req'
BY AuthorsAssumption DEF TextInv, UnreadWire, ReqBefore

LEMMA SameEnd == ASSUME NEW s PROVE Conn!HasEnd(s) <=> HasEnd(s)
BY DEF HasEnd, Conn!HasEnd

LEMMA SameBytes == ASSUME NEW c PROVE Conn!Bytes(c) = Bytes(c)
BY DEF Bytes, Conn!Bytes

LEMMA SameFull == Conn!Full <=> Full
BY Zenon DEF Full, Conn!Full, Cardinality, Conn!Cardinality

LEMMA InitImplements == SrvInit => Conn!Init
<1> SUFFICES ASSUME SrvInit PROVE Conn!Init
  OBVIOUS
<1>1. TextInv /\ serving = Nobody
  BY InitServer DEF ServerInv, SrvInit
<1>2. QED
  BY <1>1, IdleBars DEF SrvInit, Init, Conn!Init

LEMMA RoundImplements ==
  ASSUME ServerInv, ServerInv', Round
  PROVE  Conn!Next
<1>1. UnreadWire = wire /\ ReqBefore = req /\ UnreadWire' = wire' /\ ReqBefore' = req'
  <2>1. serving = Nobody /\ serving' = Nobody
    BY DEF Round, Idle, toastVars
  <2>2. QED
    BY <2>1, IdleBars, IdleBarsNext DEF ServerInv
<1>2. ASSUME Select PROVE Conn!Select
  BY <1>1, <1>2 DEF Select, Conn!Select, Readable, Conn!Readable, clientVars, Conn!clientVars
<1>3. ASSUME Accept PROVE Conn!Accept
  BY <1>1, <1>3, SameFull DEF Accept, Conn!Accept, Refuse, Conn!Refuse, clientVars,
     Conn!clientVars
<1>4. ASSUME NoAccept PROVE Conn!NoAccept
  BY <1>1, <1>4 DEF NoAccept, Conn!NoAccept, clientVars, Conn!clientVars
<1>5. ASSUME Served PROVE Conn!Served
  BY <1>1, <1>5 DEF Served, Conn!Served, clientVars, Conn!clientVars
<1>6. ASSUME Clear PROVE Conn!Clear
  BY <1>1, <1>6 DEF Clear, Conn!Clear, clientVars, Conn!clientVars
<1>7. ASSUME Stops PROVE Conn!Stops
  BY <1>1, <1>7 DEF Stops, Conn!Stops, clientVars, Conn!clientVars
<1>8. QED
  BY <1>2, <1>3, <1>4, <1>5, <1>6, <1>7 DEF Round, Conn!Next, Conn!Spin

LEMMA FailImplements ==
  ASSUME ServerInv, ServerInv', RoundFails
  PROVE  Conn!Next
<1>1. SelectFails /\ serving = Nobody /\ serving' = Nobody
  BY DEF RoundFails, SelectFails, toastVars, ServerInv, ServingInv
<1>2. UnreadWire = wire /\ ReqBefore = req /\ UnreadWire' = wire' /\ ReqBefore' = req'
  BY <1>1, IdleBars, IdleBarsNext DEF ServerInv
<1>3. Conn!SelectFails
  BY <1>1, <1>2 DEF SelectFails, Conn!SelectFails, clientVars, Conn!clientVars
<1>4. QED
  BY <1>3 DEF Conn!Next

LEMMA ReadImplements ==
  ASSUME ServerInv, ServerInv', ReadOn
  PROVE  Conn!Next
<1>1. serving = Nobody /\ serving' = Nobody
  BY DEF ReadOn, Idle, toastVars
<1>2. UnreadWire = wire /\ ReqBefore = req /\ UnreadWire' = wire' /\ ReqBefore' = req'
  BY <1>1, IdleBars, IdleBarsNext DEF ServerInv
<1>3. Conn!Serve
  <2>1. PICK c \in isset : /\ IF wire[c] # <<>> THEN Received(c) ELSE HungUp(c)
                           /\ isset' = isset \ {c}
    BY DEF ReadOn
  <2>2. IF wire[c] # <<>> THEN Conn!Received(c) ELSE Conn!HungUp(c)
    BY <1>2, <2>1, SameEnd DEF Received, Conn!Received, HungUp, Conn!HungUp, Term, Conn!Term,
       Toast, Conn!Toast
  <2>3. QED
    BY <1>2, <2>1, <2>2 DEF ReadOn, Conn!Serve, clientVars, Conn!clientVars
<1>4. QED
  BY <1>3 DEF Conn!Next, Conn!Spin

(* When _toast begins, nothing has happened yet. *)
LEMMA BeginImplements ==
  ASSUME ServerInv, ServerInv', ToastBegin
  PROVE  UNCHANGED Conn!vars
<1>0. TextInv /\ SocketInv /\ ServingInv
  BY DEF ServerInv
<1>1. PICK c \in isset :
        /\ serving' = c /\ taken' = wire[c]
        /\ req' = [req EXCEPT ![c] = @ \o wire[c]]
        /\ wire' = [wire EXCEPT ![c] = <<>>]
  BY DEF ToastBegin
<1>2. serving = Nobody /\ pc = "serve"
      /\ UNCHANGED <<sent, ended, accepted, backlog, kons, open, toasted, pc, isset, knock>>
  BY DEF ToastBegin, Idle, clientVars
<1>3. c \in Clients
  BY <1>0, <1>2 DEF SocketInv
<1>4. req[c] \in Seq(Byte) /\ wire[c] \in Seq(Byte)
  BY <1>0, <1>3 DEF TextInv
<1>5. UnreadWire' = wire
  <2>1. wire[c] \o <<>> = wire[c]
    BY <1>4
  <2>2. \A e \in Clients : (IF e = serving' THEN taken' \o wire'[e] ELSE wire'[e]) = wire[e]
    BY <1>0, <1>1, <1>3, <2>1 DEF TextInv
  <2>3. UnreadWire' = [e \in Clients |-> wire[e]]
    BY <2>2 DEF UnreadWire
  <2>4. QED
    BY <1>0, <2>3 DEF TextInv
<1>6. ReqBefore' = req
  <2>1. SubSeq(req[c] \o wire[c], 1, Len(req[c] \o wire[c]) - Len(wire[c])) = req[c]
    BY <1>4, TakeBack
  <2>2. \A e \in Clients :
          (IF e = serving' THEN SubSeq(req'[e], 1, Len(req'[e]) - Len(taken')) ELSE req'[e])
            = req[e]
    BY <1>0, <1>1, <1>3, <2>1 DEF TextInv
  <2>3. ReqBefore' = [e \in Clients |-> req[e]]
    BY <2>2 DEF ReqBefore
  <2>4. QED
    BY <1>0, <2>3 DEF TextInv
<1>7. QED
  BY <1>0, <1>2, <1>5, <1>6, IdleBars DEF Conn!vars

(* ... and when it ends, everything has. *)
LEMMA EndImplements ==
  ASSUME ServerInv, ServerInv', ToastEnd
  PROVE  Conn!Next
<1>0. TextInv /\ SocketInv /\ ServingInv
  BY DEF ServerInv
<1>1. /\ Toast(serving)
      /\ open' = open \ {serving} /\ isset' = isset \ {serving}
      /\ wire' = [wire EXCEPT ![serving] = <<>>]
      /\ req' = [req EXCEPT ![serving] = <<>>]
      /\ serving' = Nobody /\ at = "send"
      /\ UNCHANGED <<sent, ended, accepted, backlog, kons, pc, knock>>
  BY DEF ToastEnd, Closes, Term, Over, clientVars
<1>2. serving \in Clients /\ serving \in isset /\ pc = "serve"
  BY <1>0, <1>1 DEF ServingInv
<1>3. UnreadWire' = wire' /\ ReqBefore' = req'
  BY <1>1, IdleBarsNext DEF ServerInv
<1>4. UnreadWire' = [UnreadWire EXCEPT ![serving] = <<>>]
  BY <1>0, <1>1, <1>2, <1>3 DEF TextInv, UnreadWire
<1>5. ReqBefore' = [ReqBefore EXCEPT ![serving] = <<>>]
  BY <1>0, <1>1, <1>2, <1>3 DEF TextInv, ReqBefore
<1>6. Conn!Toast(serving) /\ Conn!Term(serving)
  BY <1>1, <1>4, <1>5 DEF Toast, Conn!Toast, Conn!Term
<1>7. UnreadWire[serving] = taken \o wire[serving]
      /\ ReqBefore[serving] = SubSeq(req[serving], 1, Len(req[serving]) - Len(taken))
  BY <1>2 DEF UnreadWire, ReqBefore
<1>8. wire[serving] \in Seq(Byte) /\ req[serving] \in Seq(Byte) /\ taken \in Seq(Byte)
  BY <1>0, <1>2 DEF TextInv
<1>9. IF UnreadWire[serving] # <<>> THEN Conn!Received(serving) ELSE Conn!HungUp(serving)
  <2>1. CASE HasEnd(taken)
    <3>1. HasEnd(UnreadWire[serving]) /\ UnreadWire[serving] # <<>>
      BY <1>7, <1>8, <2>1, EndKept
    <3>2. QED
      BY <1>6, <3>1, SameEnd DEF Conn!Received
  <2>2. CASE ~HasEnd(taken)
    <3>1. taken = <<>> /\ wire[serving] = <<>> /\ HasEnd(req[serving])
      BY <1>0, <1>2, <2>2, AuthorsAssumption DEF ServingInv
    <3>2. UnreadWire[serving] = <<>>
      BY <1>7, <3>1
    <3>3. ReqBefore[serving] = req[serving]
      BY <1>7, <1>8, <3>1
    <3>4. QED
      BY <1>6, <3>1, <3>2, <3>3, SameEnd DEF Conn!HungUp
  <2>3. QED
    BY <2>1, <2>2
<1>10. Conn!Serve
  BY <1>1, <1>2, <1>9 DEF Conn!Serve, Conn!clientVars
<1>11. QED
  BY <1>10 DEF Conn!Next, Conn!Spin

(* Clients go on while one of them is served. *)
LEMMA ClientImplements ==
  ASSUME ServerInv, NEW c \in Clients, Connect(c) \/ Send(c) \/ ShutDown(c),
         UNCHANGED <<serving, taken>>
  PROVE  Conn!Next
<1>0. TextInv /\ SocketInv /\ ServingInv
  BY DEF ServerInv
<1>1. wire[c] \in Seq(Byte) /\ taken \in Seq(Byte)
  BY <1>0 DEF TextInv
<1>2. ReqBefore' = ReqBefore
  BY DEF ReqBefore, Connect, Send, ShutDown
<1>3. CASE Connect(c)
  <2>1. c # serving
    BY <1>0, <1>3, AuthorsAssumption DEF Connect, ServingInv, SocketInv
  <2>2. UnreadWire' = [UnreadWire EXCEPT ![c] = SubSeq(Bytes(c), 1, 1)]
    BY <1>0, <1>3, <2>1 DEF UnreadWire, Connect, TextInv
  <2>3. Conn!Connect(c)
    BY <1>2, <1>3, <2>2, SameBytes DEF Connect, Conn!Connect
  <2>4. QED
    BY <2>3 DEF Conn!Next
<1>4. CASE Send(c)
  <2> DEFINE b == Bytes(c)[sent[c] + 1]
  <2>1. b \in Byte
    BY <1>0, <1>4, BytesText DEF Send, TextInv
  <2>2. UnreadWire' = [UnreadWire EXCEPT ![c] = Append(@, b)]
    <3>1. wire' = [wire EXCEPT ![c] = Append(@, b)]
      BY <1>4 DEF Send
    <3>2. taken \o Append(wire[c], b) = Append(taken \o wire[c], b)
      BY <1>1, <2>1, AppendAfter
    <3> HIDE DEF b
    <3>3. \A e \in Clients :
            (IF e = serving THEN taken \o wire'[e] ELSE wire'[e])
              = (IF e = c THEN Append(UnreadWire[c], b) ELSE UnreadWire[e])
      BY <1>0, <3>1, <3>2 DEF TextInv, UnreadWire
    <3>4. UnreadWire' = [e \in Clients |-> IF e = c THEN Append(UnreadWire[c], b)
                                                    ELSE UnreadWire[e]]
      BY <3>3 DEF UnreadWire
    <3>5. UnreadWire = [e \in Clients |-> UnreadWire[e]]
      BY DEF UnreadWire
    <3>6. QED
      BY <3>4, <3>5
  <2>3. Conn!Send(c)
    BY <1>2, <1>4, <2>2, SameBytes DEF Send, Conn!Send, Sending, Conn!Sending
  <2>4. QED
    BY <2>3 DEF Conn!Next
<1>5. CASE ShutDown(c)
  <2>1. UnreadWire' = UnreadWire
    BY <1>5 DEF ShutDown, UnreadWire
  <2>2. Conn!ShutDown(c)
    BY <1>2, <1>5, <2>1 DEF ShutDown, Conn!ShutDown, Sending, Conn!Sending
  <2>3. QED
    BY <2>2 DEF Conn!Next
<1>6. QED
  BY <1>3, <1>4, <1>5

LEMMA ElsewhereImplements ==
  ASSUME Elsewhere
  PROVE  UNCHANGED Conn!vars
<1>1. UNCHANGED <<vars, serving, taken>>
  BY ElsewhereFrame
<1>2. UnreadWire' = UnreadWire /\ ReqBefore' = ReqBefore
  BY <1>1 DEF vars, UnreadWire, ReqBefore
<1>3. QED
  BY <1>1, <1>2 DEF vars, Conn!vars

(* The whole server, whose _toast takes many steps during which clients     *)
(* connect, send, hang up, and other threads run, implements RestConn: what *)
(* is proved of the rounds holds of it.                                     *)
THEOREM RoundsServed == SrvSpec => ServesRounds
<1>1. ServerInv /\ ServerInv' /\ [SrvNext]_srvVars => [Conn!Next]_Conn!vars
  <2> SUFFICES ASSUME ServerInv, ServerInv', [SrvNext]_srvVars
               PROVE  Conn!Next \/ UNCHANGED Conn!vars
    OBVIOUS
  <2>1. CASE \E c \in Clients : /\ Connect(c) \/ Send(c) \/ ShutDown(c)
                                /\ UNCHANGED <<toastVars, mainVars>>
    BY <2>1, ClientImplements DEF toastVars
  <2>2. QED
    BY <2>1, StepKinds, RoundImplements, FailImplements, ReadImplements, BeginImplements,
       EndImplements, ElsewhereImplements
<1>2. QED
  BY <1>1, InitImplements, ServerInvariant, PTL DEF SrvSpec, ServesRounds, Conn!Spec


-----------------------------------------------------------------------------
(* Whose text is where.                                                     *)
Pending == IF outstr = Script THEN 1 ELSE 0

(* Between requests _outstr holds nobody's text or the script's, and during *)
(* one besides those only the client's it is for; each reply() is at most   *)
(* one text, in _outstr or with a client it was sent to.                    *)
AnswerInv ==
  /\ outstr \in {Nobody, Script, serving}
  /\ answer \in [Clients -> Author]
  /\ OwnAnswer
ReplyInv == replies \in Nat /\ scripted \in Nat /\ scripted + Pending <= replies
OutInv == AnswerInv /\ ReplyInv

LEMMA InitOut == SrvInit => OutInv
<1> SUFFICES ASSUME SrvInit PROVE OutInv
  OBVIOUS
<1>1. AnswerInv
  BY DEF SrvInit, AnswerInv, OwnAnswer, Author
<1>2. scripted = 0 /\ Pending = 0 /\ replies = 0
  BY AuthorsAssumption DEF SrvInit, Pending
<1>3. ReplyInv
  BY <1>2 DEF ReplyInv
<1>4. QED
  BY <1>1, <1>3 DEF OutInv

LEMMA PendingIs == Pending \in {0, 1}
BY DEF Pending

(* A text of the server's own, or none, replaces what was there. *)
LEMMA OwnTextKeeps ==
  ASSUME OutInv, UNCHANGED <<answer, scripted, replies>>, outstr' \in {outstr, Nobody, serving'},
         serving' \in Clients \cup {Nobody}, serving' = serving \/ serving = Nobody
  PROVE  OutInv'
<1>1. AnswerInv'
  BY DEF OutInv, AnswerInv, OwnAnswer
<1>2. Pending' \in {0, Pending}
  BY AuthorsAssumption DEF Pending
<1>3. /\ scripted \in Nat /\ replies \in Nat /\ Pending \in {0, 1}
      /\ scripted + Pending <= replies
  BY PendingIs DEF OutInv, ReplyInv
<1>4. scripted + Pending' <= replies
  <2>1. CASE Pending' = 0
    BY <1>3, <2>1
  <2>2. CASE Pending' = Pending
    BY <1>3, <2>2
  <2>3. QED
    BY <1>2, <2>1, <2>2
<1>5. QED
  BY <1>1, <1>3, <1>4 DEF OutInv, ReplyInv

LEMMA SendingKeeps ==
  ASSUME OutInv, ServerInv, ToastEnd
  PROVE  OutInv'
<1>1. /\ answer' = [answer EXCEPT ![serving] = outstr]
      /\ outstr' = Nobody /\ serving' = Nobody /\ at = "send" /\ replies' = replies
  BY DEF ToastEnd, Clears, Over, mainVars
<1>2. serving \in Clients
  BY <1>1 DEF ServerInv, ServingInv
<1>3. AnswerInv'
  BY <1>1, <1>2 DEF OutInv, AnswerInv, OwnAnswer, Author
<1>4. Pending' = 0
  BY <1>1, AuthorsAssumption DEF Pending
<1>5. scripted' = scripted + Pending
  BY DEF ToastEnd, Pending, OutInv, ReplyInv
<1>6. ReplyInv'
  BY <1>1, <1>4, <1>5, PendingIs DEF OutInv, ReplyInv
<1>7. QED
  BY <1>3, <1>6 DEF OutInv

LEMMA ReplyKeeps ==
  ASSUME OutInv, Reply
  PROVE  OutInv'
<1>1. outstr' = Script /\ replies' = replies + 1 /\ UNCHANGED <<serving, answer, scripted>>
  BY DEF Reply
<1>2. AnswerInv'
  BY <1>1 DEF OutInv, AnswerInv, OwnAnswer
<1>3. Pending' = 1
  BY <1>1 DEF Pending
<1>4. ReplyInv'
  BY <1>1, <1>3, PendingIs DEF OutInv, ReplyInv
<1>5. QED
  BY <1>2, <1>4 DEF OutInv

LEMMA StepOut == OutInv /\ ServerInv /\ [SrvNext]_srvVars => OutInv'
<1> SUFFICES ASSUME OutInv, ServerInv, [SrvNext]_srvVars PROVE OutInv'
  OBVIOUS
<1> USE DEF toastVars, mainVars
<1>0. serving \in Clients \cup {Nobody} /\ (serving = Nobody <=> at = "idle")
  BY DEF ServerInv, ServingInv
<1>1. CASE Round \/ ReadOn \/ Client \/ RoundFails
  <2>1. UNCHANGED <<serving, outstr, answer, scripted, replies>>
    BY <1>1 DEF Round, ReadOn, Client, RoundFails
  <2>2. QED
    BY <1>0, <2>1, OwnTextKeeps
<1>2. CASE ToastBegin
  <2>1. PICK c \in isset : serving' = c /\ outstr' \in {outstr, c}
    BY <1>2 DEF ToastBegin
  <2>2. serving = Nobody /\ pc = "serve" /\ UNCHANGED <<answer, scripted, replies>>
    BY <1>2 DEF ToastBegin, Idle
  <2>3. c \in Clients
    BY <2>2 DEF ServerInv, SocketInv
  <2>4. QED
    BY <2>1, <2>2, <2>3, OwnTextKeeps
<1>3. CASE Defer \/ WaitEnds \/ Build
  <2>1. outstr' \in {outstr, serving} /\ UNCHANGED <<serving, answer, scripted, replies>>
    BY <1>3 DEF Defer, WaitEnds, Build
  <2>2. QED
    BY <1>0, <2>1, OwnTextKeeps
<1>4. CASE ToastEnd
  BY <1>4, SendingKeeps
<1>5. CASE Reply
  BY <1>5, ReplyKeeps
<1>6. CASE MainLeaves \/ UNCHANGED srvVars
  <2>1. UNCHANGED <<serving, outstr, answer, scripted, replies>>
    BY <1>6 DEF MainLeaves, srvVars
  <2>2. QED
    BY <1>0, <2>1, OwnTextKeeps
<1>7. QED
  BY <1>1, <1>2, <1>3, <1>4, <1>5, <1>6 DEF SrvNext, RestThread

LEMMA OutInvariant == SrvSpec => []OutInv
<1>1. QED
  BY InitOut, StepOut, ServerInvariant, PTL DEF SrvSpec

(* However many clients share _outstr, nobody is sent a text that was made  *)
(* for another one.                                                         *)
THEOREM OwnTexts == SrvSpec => []OwnAnswer
BY OutInvariant, PTL DEF OutInv, AnswerInv

(* However often the script calls reply() and whenever it does, each text   *)
(* of its own is sent once.                                                 *)
THEOREM RepliesOnce == SrvSpec => []ReplyOnce
<1>1. OutInv => ReplyOnce
  BY PendingIs DEF OutInv, ReplyInv, ReplyOnce
<1>2. QED
  BY <1>1, OutInvariant, PTL

-----------------------------------------------------------------------------
(* The rounds of the server keep what those of RestConn keep, also in the   *)
(* middle of _toast, when bytes are in _req that RestConn has in the socket.*)

LEMMA BeginTypes ==
  ASSUME TypeInv, ToastBegin
  PROVE  TypeInv'
<1>0. ConnInv /\ SetsOK /\ AnsweredOK /\ RoomOK /\ TextOK /\ CountOK
  BY DEF TypeInv, ConnInv
<1>1. PICK c \in isset : /\ req' = [req EXCEPT ![c] = req[c] \o wire[c]]
                         /\ wire' = [wire EXCEPT ![c] = <<>>]
  BY DEF ToastBegin
<1>2. /\ pc = "serve"
      /\ UNCHANGED <<sent, ended, accepted, backlog, kons, open, toasted, pc, isset, knock>>
  BY DEF ToastBegin, clientVars
<1>3. c \in Clients /\ c \in open /\ c \notin backlog
  BY <1>0, <1>2 DEF SetsOK
<1>4. ConnInv' /\ CountOK'
  BY <1>0, <1>2, RoomKept DEF ConnInv, SetsOK, AnsweredOK, CountOK
<1>5. Split(c, wire[c], req[c], sent[c]) /\ sent[c] \in 0..Len(Bytes(c))
  BY <1>0, <1>3, BytesText DEF TextOK
<1>6. Split(c, <<>>, req[c] \o wire[c], sent[c]) /\ req[c] \o wire[c] \in Seq(Byte)
  BY <1>3, <1>5, ReadText
<1>7. TextOK'
  BY <1>0, <1>1, <1>2, <1>3, <1>6, NoBytes DEF TextOK
<1>8. QED
  BY <1>4, <1>7 DEF TypeInv

LEMMA EndTypes ==
  ASSUME TypeInv, ServerInv, ToastEnd
  PROVE  TypeInv'
<1>0. ConnInv /\ SetsOK /\ AnsweredOK /\ RoomOK /\ TextOK /\ CountOK
  BY DEF TypeInv, ConnInv
<1>1. /\ Toast(serving)
      /\ open' = open \ {serving} /\ isset' = isset \ {serving}
      /\ wire' = [wire EXCEPT ![serving] = <<>>]
      /\ req' = [req EXCEPT ![serving] = <<>>]
      /\ at = "send" /\ UNCHANGED <<sent, ended, accepted, backlog, kons, pc, knock>>
  BY DEF ToastEnd, Closes, Term, clientVars
<1>2. serving \in Clients /\ serving \in isset /\ pc = "serve"
  BY <1>1 DEF ServerInv, ServingInv
<1>3. serving \in open /\ serving \notin backlog /\ toasted[serving] = 0
  BY <1>0, <1>2 DEF SetsOK, AnsweredOK
<1>4. toasted' = [toasted EXCEPT ![serving] = 1]
  BY <1>0, <1>1, <1>3 DEF Toast, AnsweredOK
<1>5. SetsOK'
  BY <1>0, <1>1, <1>2 DEF SetsOK
<1>6. AnsweredOK'
  <2>1. toasted' \in [Clients -> {0, 1}] /\ sent' \in [Clients -> Nat]
    BY <1>0, <1>1, <1>4 DEF AnsweredOK
  <2>2. \A c \in open' \cup backlog' : toasted'[c] = 0
    <3>1. SUFFICES ASSUME NEW c \in open' \cup backlog' PROVE toasted'[c] = 0
      OBVIOUS
    <3>2. c # serving /\ c \in open \cup backlog /\ c \in Clients
      BY <1>0, <1>1, <1>3 DEF SetsOK
    <3>3. QED
      BY <1>0, <1>1, <1>4, <3>2 DEF AnsweredOK
  <2>3. QED
    BY <2>1, <2>2 DEF AnsweredOK
<1>7. RoomOK'
  BY <1>0, <1>1, RoomKept DEF SetsOK
<1>8. TextOK'
  BY <1>0, <1>1, <1>2, <1>3, TermText
<1>9. CountOK'
  BY <1>0, <1>1 DEF CountOK
<1>10. QED
  BY <1>5, <1>6, <1>7, <1>8, <1>9 DEF TypeInv, ConnInv

(* What _toast works on are bytes the client sent in a row.                 *)
TakenOK ==
  \E i, j \in 0..4 : serving # Nobody => taken = SubSeq(Bytes(serving), i + 1, j)
StepsOK ==
  /\ at \in {"idle", "defer", "wait", "build", "send"}
  /\ replies \in 0..MaxReplies
  /\ main \in {"runs", "leaving", "left"}
SrvTypeInv == TypeInv /\ TakenOK /\ StepsOK

LEMMA BeginTaken ==
  ASSUME TypeInv, ToastBegin
  PROVE  TakenOK'
<1>1. PICK c \in isset : serving' = c /\ taken' = wire[c]
  BY DEF ToastBegin
<1>2. c \in Clients
  BY DEF TypeInv, CountOK
<1>3. TypeOK
  BY TextTypes
<1>4. PICK i, j, k \in 0..sent[c] : wire[c] = SubSeq(Bytes(c), j + 1, k)
  BY <1>2, <1>3 DEF TypeOK
<1>5. sent[c] \in 0..4
  BY <1>2, <1>3 DEF TypeOK
<1>6. j \in 0..4 /\ k \in 0..4
  BY <1>4, <1>5
<1>7. QED
  BY <1>1, <1>4, <1>6 DEF TakenOK

LEMMA StepSrv == SrvTypeInv /\ ServerInv /\ [SrvNext]_srvVars => SrvTypeInv'
<1> SUFFICES ASSUME SrvTypeInv, ServerInv, [SrvNext]_srvVars PROVE SrvTypeInv'
  OBVIOUS
<1>0. TypeInv /\ TakenOK /\ StepsOK
  BY DEF SrvTypeInv
<1>1. TypeInv'
  <2>1. CASE Round \/ RoundFails \/ ReadOn \/ Client
    <3>1. Next
      BY <2>1 DEF Round, RoundFails, ReadOn, Client, Next, Spin, Serve
    <3>2. QED
      BY <1>0, <3>1, NextTypes
  <2>2. CASE Elsewhere
    <3>1. UNCHANGED vars
      BY <2>2, ElsewhereFrame
    <3>2. QED
      BY <1>0, <3>1, NextTypes
  <2>3. QED
    BY <1>0, <2>1, <2>2, StepKinds, BeginTypes, EndTypes DEF Client
<1>2. TakenOK'
  <2>1. CASE ToastBegin
    BY <1>0, <2>1, BeginTaken
  <2>2. CASE ToastEnd
    <3>1. serving' = Nobody
      BY <2>2 DEF ToastEnd, Over
    <3>2. 0 \in 0..4
      OBVIOUS
    <3>3. QED
      BY <3>1, <3>2 DEF TakenOK
  <2>3. CASE ~(ToastBegin \/ ToastEnd)
    <3>1. UNCHANGED <<serving, taken>>
      BY <2>3, StepKinds, ElsewhereFrame DEF Round, RoundFails, ReadOn, toastVars
    <3>2. QED
      BY <1>0, <3>1 DEF TakenOK
  <2>4. QED
    BY <2>1, <2>2, <2>3
<1>3. StepsOK'
  <2>1. at' \in {"idle", "defer", "wait", "build", "send"}
    BY <1>0 DEF StepsOK, SrvNext, RestThread, Round, RoundFails, ReadOn, Client, ToastBegin,
       ToastEnd, Over, Defer, WaitEnds, Build, Reply, MainLeaves, srvVars, toastVars
  <2>2. main' \in {"runs", "leaving", "left"}
    BY <1>0 DEF StepsOK, SrvNext, RestThread, Round, RoundFails, ReadOn, Client, ToastBegin,
       ToastEnd, Defer, WaitEnds, Build, Reply, MainLeaves, srvVars, mainVars
  <2>3. replies' = replies \/ (replies < MaxReplies /\ replies' = replies + 1)
    BY DEF SrvNext, RestThread, Round, RoundFails, ReadOn, Client, ToastBegin,
       ToastEnd, Defer, WaitEnds, Build, Reply, MainLeaves, srvVars, mainVars
  <2>4. replies' \in 0..MaxReplies
    BY <1>0, <2>3, RepliesAssumption DEF StepsOK
  <2>5. QED
    BY <2>1, <2>2, <2>4 DEF StepsOK
<1>4. QED
  BY <1>1, <1>2, <1>3 DEF SrvTypeInv

LEMMA InitSrv == SrvInit => SrvTypeInv
<1> SUFFICES ASSUME SrvInit PROVE SrvTypeInv
  OBVIOUS
<1>1. TypeInv
  BY InitConn, InitText DEF SrvInit, TypeInv
<1>2. 0 \in 0..4 /\ 0 \in 0..MaxReplies
  BY RepliesAssumption
<1>3. TakenOK /\ StepsOK
  BY <1>2 DEF SrvInit, TakenOK, StepsOK
<1>4. QED
  BY <1>1, <1>3 DEF SrvTypeInv

LEMMA SrvTypeInvariant == SrvSpec => []SrvTypeInv
<1>1. QED
  BY InitSrv, StepSrv, ServerInvariant, PTL DEF SrvSpec

(* The state of the server is well formed throughout a request: what it     *)
(* looks for the header in, what is in _req and what waits in the socket    *)
(* are pieces of what that client sent.                                     *)
THEOREM SrvTypes == SrvSpec => []SrvTypeOK
<1>1. SrvTypeInv /\ ServerInv /\ OutInv => SrvTypeOK
  <2> SUFFICES ASSUME SrvTypeInv, ServerInv, OutInv PROVE SrvTypeOK
    OBVIOUS
  <2>1. TypeOK
    BY TextTypes DEF SrvTypeInv
  <2>2. serving \in Clients \cup {Nobody} /\ (at = "idle" <=> serving = Nobody)
    BY DEF ServerInv, ServingInv
  <2>3. outstr \in Author /\ answer \in [Clients -> Author]
    BY <2>2 DEF OutInv, AnswerInv, Author
  <2>4. QED
    BY <2>1, <2>2, <2>3 DEF SrvTypeOK, SrvTypeInv, TakenOK, StepsOK, OutInv, ReplyInv
<1>2. QED
  BY <1>1, SrvTypeInvariant, ServerInvariant, OutInvariant, PTL

(* While _toast takes its time, the limit holds, no socket is lost and no   *)
(* request is answered twice.                                               *)
THEOREM ServerConnections == SrvSpec => [](Bounded /\ NoLeak /\ AnsweredOnce)
<1>1. SrvTypeInv => Bounded /\ NoLeak /\ AnsweredOnce
  BY ConnSafe DEF SrvTypeInv, TypeInv
<1>2. QED
  BY <1>1, SrvTypeInvariant, PTL
=============================================================================
