-------------------------- MODULE EchoServerProofs --------------------------
(***************************************************************************)
(* The server with any number of clients and requests is an echo service:  *)
(* every answer a client reads belongs to the request it waits for.        *)
(*                                                                         *)
(* The argument follows a request through the queues.  While a connection  *)
(* works, the request its client waits for is in one of four places, and   *)
(* the other three have nothing of this client.  After it has failed that  *)
(* is no longer so, but then nothing gets to the client any more.          *)
(***************************************************************************)
EXTENDS EchoServer, SequenceTheorems, TLAPS

\* An answer that is on its way to the client is the one it waits for, even if
\* the connection has failed since.
ReadInv ==
  \A c \in Clients :
    /\ client[c] = "reading" => toClient[c] \in {<<>>, <<asked[c]>>}
    /\ client[c] \in {"start", "ready"} => toClient[c] = <<>>

CountInv ==
  \A c \in Clients :
    /\ client[c] \in {"start", "ready", "done"} => asked[c] = Len(got[c])
    /\ client[c] = "reading" => asked[c] = Len(got[c]) + 1

\* A write is for the first node of the queue.
WriteInv ==
  \A c \in Clients : /\ writing[c] # "none" => send_que[c] # <<>>
                     /\ ~broken[c] /\ writing[c] = "none" => send_que[c] = <<>>

IInv == TypeOK /\ NothingLost /\ ReadInv /\ CountInv /\ WriteInv

-----------------------------------------------------------------------------
\* Nothing is under way before the clients connect.
LEMMA InitHolds == Init => IInv
<1> SUFFICES ASSUME Init PROVE IInv
  OBVIOUS
<1>1. TypeOK
  BY EchoAssumption DEF Init, TypeOK, Messages
<1>2. NothingLost
  BY DEF Init, NothingLost, Placed, Nowhere, NoneQueued, Unsent
<1>3. ReadInv /\ CountInv /\ WriteInv
  BY DEF Init, ReadInv, CountInv, WriteInv
<1>. QED  BY <1>1, <1>2, <1>3 DEF IInv

-----------------------------------------------------------------------------
(* What the steps do to the queue of the logic layer, and to a client they *)
(* have nothing to do with.                                                *)
SameQueued(d) == /\ NoneQueued(d)' <=> NoneQueued(d)
                 /\ OneQueued(d)' <=> OneQueued(d)

\* A queue that stays holds the same messages.
LEMMA QueueUnchanged ==
  ASSUME NEW d, msg_que' = msg_que, asked'[d] = asked[d]
  PROVE  SameQueued(d)
BY DEF SameQueued, NoneQueued, OneQueued

\* A message for c is none for d.
LEMMA QueueAppend ==
  ASSUME TypeOK, NEW c \in Clients, NEW d \in Clients, c # d, NEW m \in Messages,
         msg_que' = Append(msg_que, [to |-> c, msg |-> m]), asked'[d] = asked[d]
  PROVE  SameQueued(d)
<1> DEFINE n == Len(msg_que)
<1>1. /\ n \in Nat /\ Len(msg_que') = n + 1
      /\ \A i \in 1 .. n : msg_que'[i] = msg_que[i]
      /\ msg_que'[n + 1].to = c
  BY DEF TypeOK
<1>2. NoneQueued(d)' <=> NoneQueued(d)
  BY <1>1 DEF NoneQueued
<1>3. ASSUME OneQueued(d) PROVE OneQueued(d)'
  <2>1. PICK i \in 1 .. n :
          /\ msg_que[i] = [to |-> d, msg |-> asked[d]]
          /\ \A j \in 1 .. n : j # i => msg_que[j].to # d
    BY <1>3 DEF OneQueued
  <2>2. i \in 1 .. n + 1 /\ msg_que'[i] = [to |-> d, msg |-> asked[d]]
    BY <1>1, <2>1
  <2>3. \A j \in 1 .. n + 1 : j # i => msg_que'[j].to # d
    BY <1>1, <2>1
  <2>. QED  BY <1>1, <2>2, <2>3 DEF OneQueued
<1>4. ASSUME OneQueued(d)' PROVE OneQueued(d)
  <2>1. PICK i \in 1 .. n + 1 :
          /\ msg_que'[i] = [to |-> d, msg |-> asked[d]]
          /\ \A j \in 1 .. n + 1 : j # i => msg_que'[j].to # d
    BY <1>1, <1>4 DEF OneQueued
  <2>2. i \in 1 .. n
    BY <1>1, <2>1
  <2>. QED  BY <1>1, <2>1, <2>2 DEF OneQueued
<1>. QED  BY <1>2, <1>3, <1>4 DEF SameQueued

\* The parts of a sequence that is not empty.
LEMMA SeqParts ==
  ASSUME NEW S, NEW q \in Seq(S), q # <<>>
  PROVE  /\ Len(q) \in Nat \ {0} /\ Head(q) = q[1] /\ Head(q) \in S
         /\ Tail(q) \in Seq(S) /\ Len(Tail(q)) = Len(q) - 1
         /\ \A i \in 1 .. Len(q) - 1 : Tail(q)[i] = q[i + 1]
<1>1. Len(q) \in Nat \ {0}
  BY EmptySeq
<1>2. Head(q) \in S /\ Tail(q) \in Seq(S) /\ Len(Tail(q)) = Len(q) - 1
  BY <1>1, HeadTailProperties
<1>3. \A i \in 1 .. Len(q) - 1 : Tail(q)[i] = q[i + 1]
  BY <1>1
<1>4. Head(q) = q[1]
  OBVIOUS
<1>. QED  BY <1>1, <1>2, <1>3, <1>4

\* The first message that goes leaves those for d behind, if it is not for d.
LEMMA QueueTail ==
  ASSUME TypeOK, NEW d \in Clients, msg_que # <<>>, msg_que' = Tail(msg_que),
         Head(msg_que).to # d, asked'[d] = asked[d]
  PROVE  SameQueued(d)
<1> DEFINE n == Len(msg_que)
<1>1. /\ n \in Nat \ {0} /\ Len(msg_que') = n - 1
      /\ \A i \in 1 .. n - 1 : msg_que'[i] = msg_que[i + 1]
      /\ msg_que[1].to # d
  <2>1. msg_que \in Seq([to : Clients, msg : Messages])
    BY DEF TypeOK
  <2>. QED  BY <2>1, SeqParts
<1>2. \A i \in 1 .. n : i = 1 \/ (i - 1 \in 1 .. n - 1 /\ msg_que'[i - 1] = msg_que[i])
  BY <1>1
<1>3. NoneQueued(d)' <=> NoneQueued(d)
  <2>1. ASSUME NoneQueued(d) PROVE NoneQueued(d)'
    BY <1>1, <2>1 DEF NoneQueued
  <2>2. ASSUME NoneQueued(d)' PROVE NoneQueued(d)
    BY <1>1, <1>2, <2>2 DEF NoneQueued
  <2>. QED  BY <2>1, <2>2
<1>4. ASSUME OneQueued(d) PROVE OneQueued(d)'
  <2>1. PICK i \in 1 .. n :
          /\ msg_que[i] = [to |-> d, msg |-> asked[d]]
          /\ \A j \in 1 .. n : j # i => msg_que[j].to # d
    BY <1>4 DEF OneQueued
  <2>2. i - 1 \in 1 .. n - 1 /\ msg_que'[i - 1] = [to |-> d, msg |-> asked[d]]
    BY <1>1, <1>2, <2>1
  <2>3. ASSUME NEW j \in 1 .. n - 1, j # i - 1 PROVE msg_que'[j].to # d
    BY <1>1, <2>1, <2>3
  <2>. QED  BY <1>1, <2>2, <2>3 DEF OneQueued
<1>5. ASSUME OneQueued(d)' PROVE OneQueued(d)
  <2>1. PICK i \in 1 .. n - 1 :
          /\ msg_que'[i] = [to |-> d, msg |-> asked[d]]
          /\ \A j \in 1 .. n - 1 : j # i => msg_que'[j].to # d
    BY <1>1, <1>5 DEF OneQueued
  <2>2. i + 1 \in 1 .. n /\ msg_que[i + 1] = [to |-> d, msg |-> asked[d]]
    BY <1>1, <2>1
  <2>3. ASSUME NEW j \in 1 .. n, j # i + 1 PROVE msg_que[j].to # d
    BY <1>1, <1>2, <2>1, <2>3
  <2>. QED  BY <1>1, <2>2, <2>3 DEF OneQueued
<1>. QED  BY <1>3, <1>4, <1>5 DEF SameQueued

\* A client of whose things none moves keeps its place.
LEMMA Stays ==
  ASSUME NEW d, Placed(d), SameQueued(d),
         client'[d] = "reading" <=> client[d] = "reading",
         asked'[d] = asked[d], toServer'[d] = toServer[d],
         toClient'[d] = toClient[d], Unsent(d)' = Unsent(d)
  PROVE  Placed(d)'
BY DEF SameQueued, Placed, Nowhere, Coming, InLogic, InSession, Going

\* The same for all clients but one, if the queue is none of theirs.
LEMMA OthersStay ==
  ASSUME NothingLost, NEW c,
         \A d \in Clients : d # c =>
           /\ SameQueued(d)
           /\ broken'[d] = broken[d] /\ client'[d] = client[d] /\ asked'[d] = asked[d]
           /\ toServer'[d] = toServer[d] /\ toClient'[d] = toClient[d]
           /\ send_que'[d] = send_que[d] /\ writing'[d] = writing[d],
         c \in Clients /\ ~broken'[c] => Placed(c)'
  PROVE  NothingLost'
<1> SUFFICES ASSUME NEW d \in Clients, d # c, ~broken'[d] PROVE Placed(d)'
  BY DEF NothingLost
<1>1. Unsent(d)' = Unsent(d) /\ Placed(d)
  BY DEF Unsent, NothingLost
<1>. QED  BY <1>1, Stays

-----------------------------------------------------------------------------
\* A client connects, or does not.
LEMMA ConnectStep ==
  ASSUME IInv, NEW c \in Clients, Connect(c)
  PROVE  IInv'
<1> USE DEF IInv
<1>1. TypeOK'
  BY EchoAssumption DEF Connect, clientVars, sessionVars, TypeOK, Messages
<1>2. NothingLost'
  <2>1. \A d \in Clients : SameQueued(d)
    BY QueueUnchanged DEF Connect, clientVars, sessionVars, TypeOK
  <2>2. Unsent(c)' = Unsent(c)
    BY DEF Connect, clientVars, sessionVars, TypeOK, Unsent
  <2>3. ~broken'[c] => Placed(c)'
    BY <2>1, <2>2, Stays DEF Connect, clientVars, sessionVars, TypeOK, NothingLost
  <2>. QED  BY <2>1, <2>3, OthersStay DEF Connect, clientVars, sessionVars, TypeOK
<1>3. ReadInv'
  BY DEF Connect, clientVars, sessionVars, TypeOK, ReadInv
<1>4. CountInv'
  BY DEF Connect, clientVars, sessionVars, TypeOK, CountInv
<1>5. WriteInv'
  BY DEF Connect, clientVars, sessionVars, TypeOK, WriteInv
<1>. QED  BY <1>1, <1>2, <1>3, <1>4, <1>5

\* A client that has its answer asks again.
LEMMA WriteStep ==
  ASSUME IInv, NEW c \in Clients, Write(c)
  PROVE  IInv'
<1> USE DEF IInv
<1>1. TypeOK'
  BY EchoAssumption DEF Write, clientVars, sessionVars, TypeOK, Messages
<1>2. NothingLost'
  <2>1. msg_que' = msg_que /\ broken' = broken /\ UNCHANGED <<toClient, send_que, writing>>
    BY DEF Write, sessionVars
  <2>2. \A d \in Clients : d # c => SameQueued(d)
    BY <2>1, QueueUnchanged DEF Write, TypeOK
  <2>3. ASSUME ~broken[c] PROVE Placed(c)'
    <3>1. Nowhere(c) /\ client'[c] = "reading" /\ toServer'[c] = Append(toServer[c], asked'[c])
      BY <2>3 DEF Write, TypeOK, NothingLost, Placed
    <3>2. toServer'[c] = <<asked'[c]>>
      BY <3>1 DEF Nowhere
    <3>3. NoneQueued(c)' /\ Unsent(c)' = <<>> /\ toClient'[c] = <<>>
      BY <2>1, <3>1 DEF Nowhere, NoneQueued, Unsent
    <3>. QED  BY <3>1, <3>2, <3>3 DEF Placed, Coming
  <2>. QED  BY <2>1, <2>2, <2>3, OthersStay DEF Write, TypeOK
<1>3. ReadInv'
  BY DEF Write, clientVars, sessionVars, TypeOK, ReadInv
<1>4. CountInv'
  BY DEF Write, clientVars, sessionVars, TypeOK, CountInv
<1>5. WriteInv'
  BY DEF Write, clientVars, sessionVars, TypeOK, WriteInv
<1>. QED  BY <1>1, <1>2, <1>3, <1>4, <1>5

\* What a client reads is the answer it waits for.
LEMMA ReadStep ==
  ASSUME IInv, NEW c \in Clients, Read(c)
  PROVE  IInv'
<1> USE DEF IInv
<1>1. TypeOK'
  <2>1. Head(toClient[c]) \in Messages /\ Tail(toClient[c]) \in Seq(Messages)
    BY HeadTailProperties DEF Read, TypeOK
  <2>2. Append(got[c], Head(toClient[c])) \in Seq(Messages)
    BY <2>1, AppendProperties DEF TypeOK
  <2>. QED  BY <2>1, <2>2 DEF Read, sessionVars, TypeOK
<1>2. NothingLost'
  <2>1. msg_que' = msg_que /\ broken' = broken /\ UNCHANGED <<asked, toServer, send_que, writing>>
    BY DEF Read, sessionVars
  <2>2. \A d \in Clients : d # c => SameQueued(d)
    BY <2>1, QueueUnchanged
  <2>3. ASSUME ~broken[c] PROVE Placed(c)'
    <3>1. Going(c) /\ client'[c] = "ready" /\ toClient'[c] = Tail(toClient[c])
      BY <2>3 DEF Read, TypeOK, NothingLost, Placed, Coming, InLogic, InSession
    <3>2. toClient'[c] = <<>>
      BY <3>1 DEF Going
    <3>3. NoneQueued(c)' /\ Unsent(c)' = <<>> /\ toServer'[c] = <<>>
      BY <2>1, <3>1 DEF Going, NoneQueued, Unsent
    <3>. QED  BY <3>1, <3>2, <3>3 DEF Placed, Nowhere
  <2>. QED  BY <2>1, <2>2, <2>3, OthersStay DEF Read, TypeOK
<1>3. ReadInv'
  <2>1. toClient[c] = <<asked[c]>> /\ toClient'[c] = Tail(toClient[c])
    BY DEF Read, ReadInv, TypeOK
  <2>2. toClient'[c] = <<>>
    BY <2>1
  <2>. QED  BY <2>2 DEF Read, sessionVars, TypeOK, ReadInv
<1>4. CountInv'
  BY DEF Read, clientVars, sessionVars, TypeOK, CountInv
<1>5. WriteInv'
  BY DEF Read, clientVars, sessionVars, TypeOK, WriteInv
<1>. QED  BY <1>1, <1>2, <1>3, <1>4, <1>5

\* A client that leaves closes its connection.
LEMMA LeaveStep ==
  ASSUME IInv, NEW c \in Clients, Leave(c)
  PROVE  IInv'
<1> USE DEF IInv
<1>1. TypeOK'
  BY EchoAssumption DEF Leave, clientVars, sessionVars, TypeOK, Messages
<1>2. NothingLost'
  <2>1. \A d \in Clients : SameQueued(d)
    BY QueueUnchanged DEF Leave, clientVars, sessionVars, TypeOK
  <2>2. broken'[c]
    BY DEF Leave, clientVars, sessionVars, TypeOK
  <2>. QED  BY <2>1, <2>2, OthersStay DEF Leave, clientVars, sessionVars, TypeOK
<1>3. ReadInv'
  BY DEF Leave, clientVars, sessionVars, TypeOK, ReadInv
<1>4. CountInv'
  BY DEF Leave, clientVars, sessionVars, TypeOK, CountInv
<1>5. WriteInv'
  BY DEF Leave, clientVars, sessionVars, TypeOK, WriteInv
<1>. QED  BY <1>1, <1>2, <1>3, <1>4, <1>5

\* A connection that has failed is no longer spoken for.
LEMMA ConnectionFailsStep ==
  ASSUME IInv, NEW c \in Clients, ConnectionFails(c)
  PROVE  IInv'
<1> USE DEF IInv
<1>1. TypeOK'
  BY EchoAssumption DEF ConnectionFails, clientVars, sessionVars, TypeOK, Messages
<1>2. NothingLost'
  <2>1. \A d \in Clients : SameQueued(d)
    BY QueueUnchanged DEF ConnectionFails, clientVars, sessionVars, TypeOK
  <2>2. broken'[c]
    BY DEF ConnectionFails, clientVars, sessionVars, TypeOK
  <2>. QED  BY <2>1, <2>2, OthersStay DEF ConnectionFails, clientVars, sessionVars, TypeOK
<1>3. ReadInv'
  BY DEF ConnectionFails, clientVars, sessionVars, TypeOK, ReadInv
<1>4. CountInv'
  BY DEF ConnectionFails, clientVars, sessionVars, TypeOK, CountInv
<1>5. WriteInv'
  BY DEF ConnectionFails, clientVars, sessionVars, TypeOK, WriteInv
<1>. QED  BY <1>1, <1>2, <1>3, <1>4, <1>5

\* A session is made for the connection.
LEMMA HandleAcceptStep ==
  ASSUME IInv, NEW c \in Clients, HandleAccept(c)
  PROVE  IInv'
<1> USE DEF IInv
<1>1. TypeOK'
  BY EchoAssumption DEF HandleAccept, clientVars, sessionVars, TypeOK, Messages
<1>2. NothingLost'
  <2>1. \A d \in Clients : SameQueued(d)
    BY QueueUnchanged DEF HandleAccept, clientVars, sessionVars, TypeOK
  <2>2. Unsent(c)' = Unsent(c)
    BY DEF HandleAccept, clientVars, sessionVars, TypeOK, Unsent
  <2>3. ~broken'[c] => Placed(c)'
    BY <2>1, <2>2, Stays DEF HandleAccept, clientVars, sessionVars, TypeOK, NothingLost
  <2>. QED  BY <2>1, <2>3, OthersStay DEF HandleAccept, clientVars, sessionVars, TypeOK
<1>3. ReadInv'
  BY DEF HandleAccept, clientVars, sessionVars, TypeOK, ReadInv
<1>4. CountInv'
  BY DEF HandleAccept, clientVars, sessionVars, TypeOK, CountInv
<1>5. WriteInv'
  BY DEF HandleAccept, clientVars, sessionVars, TypeOK, WriteInv
<1>. QED  BY <1>1, <1>2, <1>3, <1>4, <1>5

\* The request goes from the connection into the logic layer's queue.
LEMMA HandleReadStep ==
  ASSUME IInv, NEW c \in Clients, HandleRead(c)
  PROVE  IInv'
<1> USE DEF IInv
<1>1. TypeOK'
  BY EchoAssumption DEF HandleRead, clientVars, sessionVars, TypeOK, Messages
<1>2. NothingLost'
  <2>0. Head(toServer[c]) \in Messages
    BY HeadTailProperties DEF HandleRead, TypeOK
  <2>1. /\ msg_que' = Append(msg_que, [to |-> c, msg |-> Head(toServer[c])]) /\ toServer[c] # <<>>
        /\ toServer' = [toServer EXCEPT ![c] = Tail(@)]
        /\ UNCHANGED <<client, asked, broken, toClient, send_que, writing>>
    BY DEF HandleRead, clientVars, sessionVars
  <2>2. \A d \in Clients : d # c => SameQueued(d)
    BY <2>0, <2>1, QueueAppend
  <2>3. ASSUME ~broken[c] PROVE Placed(c)'
    <3>1. Coming(c) /\ client[c] = "reading"
      BY <2>1, <2>3 DEF NothingLost, Placed, Nowhere, InLogic, InSession, Going
    <3>2. Head(toServer[c]) = asked[c] /\ Tail(toServer[c]) = <<>>
      BY <3>1 DEF Coming
    <3>3. OneQueued(c)'
      <4> DEFINE n == Len(msg_que)
      <4>1. /\ n \in Nat /\ Len(msg_que') = n + 1
            /\ \A i \in 1 .. n : msg_que'[i] = msg_que[i]
            /\ msg_que'[n + 1] = [to |-> c, msg |-> asked[c]]
        BY <2>1, <3>2 DEF TypeOK
      <4>2. \A i \in 1 .. n : msg_que[i].to # c
        BY <3>1 DEF Coming, NoneQueued
      <4>. QED  BY <2>1, <4>1, <4>2 DEF OneQueued
    <3>4. Unsent(c)' = <<>> /\ toClient'[c] = <<>> /\ toServer'[c] = <<>>
      BY <2>1, <3>1, <3>2 DEF Coming, Unsent, TypeOK
    <3>. QED  BY <2>1, <3>1, <3>3, <3>4 DEF Placed, InLogic
  <2>. QED  BY <2>1, <2>2, <2>3, OthersStay DEF TypeOK
<1>3. ReadInv'
  BY DEF HandleRead, clientVars, sessionVars, TypeOK, ReadInv
<1>4. CountInv'
  BY DEF HandleRead, clientVars, sessionVars, TypeOK, CountInv
<1>5. WriteInv'
  BY DEF HandleRead, clientVars, sessionVars, TypeOK, WriteInv
<1>. QED  BY <1>1, <1>2, <1>3, <1>4, <1>5

\* A failed read closes the session.
LEMMA HandleReadErrorStep ==
  ASSUME IInv, NEW c \in Clients, HandleReadError(c)
  PROVE  IInv'
<1> USE DEF IInv
<1>1. TypeOK'
  BY EchoAssumption DEF HandleReadError, Close, clientVars, sessionVars, TypeOK, Messages
<1>2. NothingLost'
  <2>1. \A d \in Clients : SameQueued(d)
    BY QueueUnchanged DEF HandleReadError, Close, clientVars, sessionVars, TypeOK
  <2>2. broken'[c]
    BY DEF HandleReadError, Close, clientVars, sessionVars, TypeOK
  <2>. QED  BY <2>1, <2>2, OthersStay DEF HandleReadError, Close, clientVars, sessionVars, TypeOK
<1>3. ReadInv'
  BY DEF HandleReadError, Close, clientVars, sessionVars, TypeOK, ReadInv
<1>4. CountInv'
  BY DEF HandleReadError, Close, clientVars, sessionVars, TypeOK, CountInv
<1>5. WriteInv'
  BY DEF HandleReadError, Close, clientVars, sessionVars, TypeOK, WriteInv
<1>. QED  BY <1>1, <1>2, <1>3, <1>4, <1>5

\* The answer goes from the session to the connection.
LEMMA WriteCompletesStep ==
  ASSUME IInv, NEW c \in Clients, WriteCompletes(c)
  PROVE  IInv'
<1> USE DEF IInv
<1>1. TypeOK'
  <2>1. Head(send_que[c]) \in Messages
    BY HeadTailProperties DEF WriteCompletes, WriteInv, TypeOK
  <2>2. Append(toClient[c], Head(send_que[c])) \in Seq(Messages)
    BY <2>1, AppendProperties DEF TypeOK
  <2>. QED  BY <2>1, <2>2 DEF WriteCompletes, clientVars, TypeOK
<1>2. NothingLost'
  <2>1. /\ writing[c] = "active" /\ writing' = [writing EXCEPT ![c] = "done"]
        /\ toClient' = [toClient EXCEPT ![c] = Append(@, Head(send_que[c]))]
        /\ UNCHANGED <<client, asked, broken, toServer, msg_que, send_que>>
    BY DEF WriteCompletes, clientVars
  <2>2. \A d \in Clients : d # c => SameQueued(d)
    BY <2>1, QueueUnchanged
  <2>3. ASSUME ~broken[c] PROVE Placed(c)'
    <3>1. Unsent(c) = send_que[c] /\ send_que[c] # <<>>
      BY <2>1 DEF Unsent, WriteInv
    <3>2. InSession(c) /\ client[c] = "reading"
      BY <2>3, <3>1 DEF NothingLost, Placed, Nowhere, Coming, InLogic, Going
    <3>3. send_que[c] = <<asked[c]>> /\ toClient[c] = <<>>
      BY <3>1, <3>2 DEF InSession
    <3>4. toClient'[c] = <<asked[c]>>
      BY <2>1, <3>3 DEF TypeOK
    <3>5. Unsent(c)' = <<>> /\ toServer'[c] = <<>> /\ NoneQueued(c)'
      BY <2>1, <3>2, <3>3 DEF InSession, Unsent, TypeOK, NoneQueued
    <3>. QED  BY <2>1, <3>2, <3>4, <3>5 DEF Placed, Going
  <2>. QED  BY <2>1, <2>2, <2>3, OthersStay DEF TypeOK
<1>3. ReadInv'
  <2>1. client'[c] = client[c] /\ asked'[c] = asked[c] /\ ~broken'[c] /\ writing[c] = "active"
    BY DEF WriteCompletes, clientVars
  <2>2. Unsent(c) # <<>>
    BY <2>1 DEF Unsent, WriteInv
  <2>3. Placed(c)' /\ client[c] = "reading"
    BY <1>2, <2>1, <2>2 DEF WriteCompletes, NothingLost, Placed, Nowhere
  <2>4. toClient'[c] \in {<<>>, <<asked'[c]>>}
    BY <2>1, <2>3 DEF Placed, Nowhere, Coming, InLogic, InSession, Going
  <2>. QED  BY <2>1, <2>3, <2>4 DEF WriteCompletes, clientVars, TypeOK, ReadInv
<1>4. CountInv'
  BY DEF WriteCompletes, clientVars, sessionVars, TypeOK, CountInv
<1>5. WriteInv'
  BY DEF WriteCompletes, clientVars, sessionVars, TypeOK, WriteInv
<1>. QED  BY <1>1, <1>2, <1>3, <1>4, <1>5

\* What is still to be written stays so when HandleWrite takes out the node.
LEMMA HandleWriteStep ==
  ASSUME IInv, NEW c \in Clients, HandleWrite(c)
  PROVE  IInv'
<1> USE DEF IInv
<1>1. TypeOK'
  <2>1. Tail(send_que[c]) \in Seq(Messages)
    BY HeadTailProperties DEF HandleWrite, WriteInv, TypeOK
  <2>2. writing' \in [Clients -> {"none", "active", "done"}]
    BY DEF HandleWrite, TypeOK
  <2>. QED  BY <2>1, <2>2 DEF HandleWrite, clientVars, TypeOK
<1>2. NothingLost'
  <2>1. \A d \in Clients : SameQueued(d)
    BY QueueUnchanged DEF HandleWrite, clientVars, sessionVars, TypeOK
  <2>2. Unsent(c)' = Unsent(c)
    <3>1. send_que[c] \in Seq(Messages) /\ send_que[c] # <<>>
      BY DEF HandleWrite, WriteInv, TypeOK
    <3>2. writing'[c] # "done" /\ send_que'[c] = Tail(send_que[c]) /\ writing[c] = "done"
      BY DEF HandleWrite, TypeOK
    <3>. QED  BY <3>1, <3>2 DEF Unsent
  <2>3. ~broken'[c] => Placed(c)'
    BY <2>1, <2>2, Stays DEF HandleWrite, clientVars, sessionVars, TypeOK, NothingLost
  <2>. QED  BY <2>1, <2>3, OthersStay DEF HandleWrite, clientVars, sessionVars, TypeOK
<1>3. ReadInv'
  BY DEF HandleWrite, clientVars, sessionVars, TypeOK, ReadInv
<1>4. CountInv'
  BY DEF HandleWrite, clientVars, sessionVars, TypeOK, CountInv
<1>5. WriteInv'
  <2>1. send_que[c] \in Seq(Messages) /\ send_que[c] # <<>>
    BY DEF HandleWrite, WriteInv, TypeOK
  <2>2. /\ send_que'[c] = Tail(send_que[c])
        /\ writing'[c] = IF Len(send_que[c]) > 1 THEN "active" ELSE "none"
    BY DEF HandleWrite, TypeOK
  <2>3. writing'[c] = "none" <=> send_que'[c] = <<>>
    <3>1. Tail(send_que[c]) \in Seq(Messages) /\ Len(Tail(send_que[c])) = Len(send_que[c]) - 1
          /\ Len(send_que[c]) \in Nat \ {0}
      BY <2>1, SeqParts
    <3>2. Tail(send_que[c]) = <<>> <=> Len(Tail(send_que[c])) = 0
      BY <3>1, EmptySeq
    <3> DEFINE n == Len(send_que[c])
    <3>3. n \in Nat \ {0} /\ (Tail(send_que[c]) = <<>> <=> n = 1)
          /\ writing'[c] = (IF n > 1 THEN "active" ELSE "none")
      BY <2>2, <3>1, <3>2
    <3> HIDE DEF n
    <3>4. writing'[c] = "none" <=> n = 1
      BY <3>3
    <3>. QED  BY <2>2, <3>3, <3>4
  <2>4. \A d \in Clients : d # c => send_que'[d] = send_que[d] /\ writing'[d] = writing[d]
    BY DEF HandleWrite, TypeOK
  <2>. QED  BY <2>3, <2>4 DEF HandleWrite, WriteInv
<1>. QED  BY <1>1, <1>2, <1>3, <1>4, <1>5

\* A failed write closes the session.
LEMMA HandleWriteErrorStep ==
  ASSUME IInv, NEW c \in Clients, HandleWriteError(c)
  PROVE  IInv'
<1> USE DEF IInv
<1>1. TypeOK'
  BY EchoAssumption DEF HandleWriteError, Close, clientVars, sessionVars, TypeOK, Messages
<1>2. NothingLost'
  <2>1. \A d \in Clients : SameQueued(d)
    BY QueueUnchanged DEF HandleWriteError, Close, clientVars, sessionVars, TypeOK
  <2>2. broken'[c]
    BY DEF HandleWriteError, Close, clientVars, sessionVars, TypeOK
  <2>. QED  BY <2>1, <2>2, OthersStay DEF HandleWriteError, Close, clientVars, sessionVars, TypeOK
<1>3. ReadInv'
  BY DEF HandleWriteError, Close, clientVars, sessionVars, TypeOK, ReadInv
<1>4. CountInv'
  BY DEF HandleWriteError, Close, clientVars, sessionVars, TypeOK, CountInv
<1>5. WriteInv'
  BY DEF HandleWriteError, Close, clientVars, sessionVars, TypeOK, WriteInv
<1>. QED  BY <1>1, <1>2, <1>3, <1>4, <1>5

\* The request goes from the logic layer's queue into its session's.
LEMMA CallbackStep ==
  ASSUME IInv, Callback
  PROVE  IInv'
<1> USE DEF IInv
<1>0. PICK c \in Clients, m \in Messages :
        /\ Head(msg_que) = [to |-> c, msg |-> m] /\ Tail(msg_que) \in Seq([to : Clients, msg : Messages])
  <2>1. Head(msg_que) \in [to : Clients, msg : Messages]
        /\ Tail(msg_que) \in Seq([to : Clients, msg : Messages])
    BY HeadTailProperties DEF Callback, TypeOK
  <2>. QED  BY <2>1
<1>a. /\ msg_que # <<>> /\ msg_que' = Tail(msg_que)
      /\ send_que' = [send_que EXCEPT ![c] = Append(@, m)]
      /\ writing' = IF send_que[c] = <<>> THEN [writing EXCEPT ![c] = "active"] ELSE writing
      /\ UNCHANGED <<clientVars, broken, toServer, toClient, session>>
  <2>1. Head(msg_que).to = c /\ Head(msg_que).msg = m
    BY <1>0
  <2>. QED  BY <2>1 DEF Callback
<1>1. TypeOK'
  <2>1. Append(send_que[c], m) \in Seq(Messages)
    BY AppendProperties DEF TypeOK
  <2>2. send_que' \in [Clients -> Seq(Messages)]
    BY <1>a, <2>1 DEF TypeOK
  <2>3. writing' \in [Clients -> {"none", "active", "done"}]
    BY <1>a DEF TypeOK
  <2>. QED  BY <1>0, <1>a, <2>2, <2>3 DEF clientVars, TypeOK
<1>2. NothingLost'
  <2>1. UNCHANGED <<client, asked, broken, toServer, toClient>>
    BY <1>a DEF clientVars
  <2>2. \A d \in Clients : d # c => SameQueued(d)
    BY <1>0, <1>a, <2>1, QueueTail
  <2>3. ASSUME ~broken[c] PROVE Placed(c)'
    <3> DEFINE n == Len(msg_que)
    <3>1. /\ n \in Nat \ {0} /\ msg_que[1] = [to |-> c, msg |-> m]
          /\ Len(msg_que') = n - 1 /\ \A i \in 1 .. n - 1 : msg_que'[i] = msg_que[i + 1]
      <4>1. msg_que \in Seq([to : Clients, msg : Messages])
        BY DEF TypeOK
      <4>. QED  BY <1>0, <1>a, <4>1, SeqParts
    <3>2. ~NoneQueued(c)
      BY <3>1 DEF NoneQueued
    <3>3. InLogic(c) /\ client[c] = "reading"
      BY <2>3, <3>2 DEF NothingLost, Placed, Nowhere, Coming, InSession, Going
    <3>4. PICK i \in 1 .. n :
            /\ msg_que[i] = [to |-> c, msg |-> asked[c]]
            /\ \A j \in 1 .. n : j # i => msg_que[j].to # c
      BY <3>3 DEF InLogic, OneQueued
    <3>5. i = 1 /\ m = asked[c]
      BY <3>1, <3>4
    <3>6. NoneQueued(c)'
      BY <3>1, <3>4, <3>5 DEF NoneQueued
    <3>7. Unsent(c)' = <<m>>
      <4>1. Unsent(c) = <<>> /\ send_que'[c] = Append(send_que[c], m)
        BY <1>a, <3>3 DEF InLogic, TypeOK
      <4>2. CASE send_que[c] = <<>>
        BY <1>a, <4>1, <4>2 DEF Unsent, TypeOK
      <4>3. CASE send_que[c] # <<>>
        <5>1. writing[c] = "done" /\ writing' = writing /\ Tail(send_que[c]) = <<>>
          BY <1>a, <4>1, <4>3 DEF Unsent
        <5>2. Tail(Append(send_que[c], m)) = <<m>>
          <6>1. send_que[c] \in Seq(Messages)
            BY DEF TypeOK
          <6>2. Tail(Append(send_que[c], m)) = Append(Tail(send_que[c]), m)
            BY <4>3, <6>1, HeadTailAppend
          <6>3. Tail(send_que[c]) = <<>>
            BY <5>1
          <6>4. Append(<<>>, m) = <<m>>
            OBVIOUS
          <6>. QED  BY <6>2, <6>3, <6>4, Zenon
        <5>. QED  BY <4>1, <5>1, <5>2 DEF Unsent
      <4>. QED  BY <4>2, <4>3
    <3>. QED  BY <2>1, <3>3, <3>5, <3>6, <3>7 DEF Placed, InLogic, InSession
  <2>. QED  BY <1>a, <2>1, <2>2, <2>3, OthersStay DEF TypeOK
<1>3. ReadInv'
  BY <1>a DEF clientVars, ReadInv
<1>4. CountInv'
  BY <1>a DEF clientVars, CountInv
<1>5. WriteInv'
  <2>1. send_que'[c] # <<>>
    <3>1. send_que[c] \in Seq(Messages) /\ send_que'[c] = Append(send_que[c], m)
      BY <1>a DEF TypeOK
    <3>2. Append(send_que[c], m) # <<>>
      BY <3>1, AppendProperties
    <3>. QED  BY <3>1, <3>2
  <2>2. writing'[c] = "none" => writing[c] = "none" /\ send_que[c] # <<>>
    BY <1>a DEF TypeOK
  <2>3. \A d \in Clients : d # c => send_que'[d] = send_que[d] /\ writing'[d] = writing[d]
    BY <1>a DEF TypeOK
  <2>. QED  BY <1>a, <2>1, <2>2, <2>3 DEF WriteInv
<1>. QED  BY <1>1, <1>2, <1>3, <1>4, <1>5

-----------------------------------------------------------------------------
\* Every step keeps the invariant.
LEMMA StepHolds == IInv /\ [Next]_vars => IInv'
<1> SUFFICES ASSUME IInv, [Next]_vars PROVE IInv'
  OBVIOUS
<1>1. CASE \E c \in Clients : ClientThread(c)
  BY <1>1, ConnectStep, WriteStep, ReadStep, LeaveStep DEF ClientThread
<1>2. CASE \E c \in Clients : SessionThread(c)
  BY <1>2, HandleAcceptStep, HandleReadStep, HandleReadErrorStep, WriteCompletesStep,
      HandleWriteStep, HandleWriteErrorStep DEF SessionThread
<1>3. CASE \E c \in Clients : ConnectionFails(c)
  BY <1>3, ConnectionFailsStep
<1>4. CASE Callback
  BY <1>4, CallbackStep
<1>5. CASE UNCHANGED vars
  <2>1. TypeOK' /\ ReadInv' /\ CountInv' /\ WriteInv'
    BY <1>5 DEF vars, IInv, TypeOK, ReadInv, CountInv, WriteInv
  <2>2. \A c \in Clients : SameQueued(c) /\ Unsent(c)' = Unsent(c)
    BY <1>5, QueueUnchanged DEF vars, Unsent
  <2>3. NothingLost'
    BY <1>5, <2>2, Stays DEF vars, IInv, NothingLost
  <2>. QED  BY <2>1, <2>3 DEF IInv
<1>. QED  BY <1>1, <1>2, <1>3, <1>4, <1>5 DEF Next, Joined

LEMMA Always == Spec => []IInv
BY InitHolds, StepHolds, PTL DEF Spec

\* Type correctness of the server and its clients.
THEOREM TypeCorrect == Spec => []TypeOK
<1>1. IInv => TypeOK
  BY DEF IInv
<1>. QED  BY <1>1, Always, PTL

\* With any number of clients, no queue between a client and its answer loses,
\* repeats or misdirects a request.
THEOREM NothingLostCorrect == Spec => []NothingLost
<1>1. IInv => NothingLost
  BY DEF IInv
<1>. QED  BY <1>1, Always, PTL

\* A client that waits for each answer never fills the send queue.
THEOREM TwoQueuedCorrect == Spec => []TwoQueued
<1>1. IInv => TwoQueued
  <2> SUFFICES ASSUME IInv, NEW c \in Clients, ~broken[c] PROVE Len(send_que[c]) <= 2
    BY DEF TwoQueued
  <2>1. send_que[c] \in Seq(Messages) /\ Unsent(c) \in {<<>>, <<asked[c]>>}
    BY DEF IInv, TypeOK, NothingLost, Placed, Nowhere, Coming, InLogic, InSession, Going
  <2>2. Len(Unsent(c)) <= 1
    <3>1. Len(<<>>) = 0 /\ Len(<<asked[c]>>) = 1
      OBVIOUS
    <3>2. Len(Unsent(c)) = 0 \/ Len(Unsent(c)) = 1
      BY <2>1, <3>1, Zenon
    <3> DEFINE n == Len(Unsent(c))
    <3>3. n = 0 \/ n = 1
      BY <3>2
    <3> HIDE DEF n
    <3>4. n <= 1
      BY <3>3
    <3>. QED  BY <3>4 DEF n
  <2>3. CASE writing[c] = "done"
    <3>1. Len(Tail(send_que[c])) = Len(send_que[c]) - 1 /\ Len(send_que[c]) \in Nat
      BY <2>1, <2>3, SeqParts DEF IInv, WriteInv
    <3>2. Len(Tail(send_que[c])) <= 1
      BY <2>2, <2>3 DEF Unsent
    <3>. QED  BY <3>1, <3>2
  <2>4. CASE writing[c] # "done"
    BY <2>1, <2>2, <2>4 DEF Unsent
  <2>. QED  BY <2>3, <2>4
<1>. QED  BY <1>1, Always, PTL

-----------------------------------------------------------------------------
(* The refinement: connecting fails or a client leaves early is GiveUp,    *)
(* Write is Ask, Read is Answer; the rest is inside the service.           *)
LEMMA ClientImplements ==
  ASSUME IInv, NEW c \in Clients, ClientThread(c)
  PROVE  [Echo!Next]_(Echo!vars)
<1> USE DEF Echo!Next, Echo!vars, IInv, TypeOK
<1> DEFINE up == [d \in Clients |-> client[d] # "failed"]
<1>1. CASE Connect(c)
  <2>1. CASE client' = [client EXCEPT ![c] = "ready"]
    BY <1>1, <2>1 DEF Connect
  <2>2. CASE client' = [client EXCEPT ![c] = "failed"]
    <3>1. Echo!GiveUp(c)
      BY <1>1, <2>2 DEF Connect, Echo!GiveUp
    <3>. QED  BY <3>1
  <2>. QED  BY <1>1, <2>1, <2>2 DEF Connect
<1>2. CASE Write(c)
  <2>1. Echo!Ask(c)
    BY <1>2 DEF Write, CountInv, Echo!Ask
  <2>. QED  BY <2>1
<1>3. CASE Read(c)
  <2>1. Head(toClient[c]) = asked[c]
    BY <1>3 DEF Read, ReadInv
  <2>2. Echo!Answer(c)
    <3>1. client[c] = "reading" /\ client' = [client EXCEPT ![c] = "ready"]
      BY <1>3 DEF Read
    <3>2. up' = up /\ up[c]
      BY <3>1
    <3>3. got' = [got EXCEPT ![c] = Append(@, asked[c])] /\ asked' = asked
      BY <1>3, <2>1 DEF Read
    <3>4. Len(got[c]) < asked[c]
      <4>1. got[c] \in Seq(Messages)
        OBVIOUS
      <4>2. Len(got[c]) \in Nat
        BY <4>1, EmptySeq
      <4>. QED  BY <3>1, <4>2 DEF CountInv
    <3>. QED  BY <3>2, <3>3, <3>4 DEF Echo!Answer
  <2>. QED  BY <2>2
<1>4. CASE Leave(c)
  <2>1. CASE client' = [client EXCEPT ![c] = "done"] /\ client[c] = "ready"
    BY <1>4, <2>1 DEF Leave
  <2>2. CASE client' = [client EXCEPT ![c] = "failed"] /\ client[c] \in {"ready", "reading"}
    <3>1. Echo!GiveUp(c)
      BY <1>4, <2>2 DEF Leave, Echo!GiveUp
    <3>. QED  BY <3>1
  <2>. QED  BY <1>4, <2>1, <2>2 DEF Leave
<1>. QED  BY <1>1, <1>2, <1>3, <1>4 DEF ClientThread

\* Every behaviour of the server with its clients is one of the echo service.
THEOREM Refinement == Spec => Echo!Spec
<1>1. Init => Echo!Init
  BY DEF Init, Echo!Init
<1>2. IInv /\ [Next]_vars => [Echo!Next]_(Echo!vars)
  <2> SUFFICES ASSUME IInv, [Next]_vars PROVE [Echo!Next]_(Echo!vars)
    OBVIOUS
  <2>1. CASE \E c \in Clients : ClientThread(c)
    BY <2>1, ClientImplements
  <2>2. CASE ~ \E c \in Clients : ClientThread(c)
    <3>1. UNCHANGED clientVars
      BY <2>2 DEF Next, SessionThread, ConnectionFails, HandleAccept, HandleRead,
          HandleReadError, WriteCompletes, HandleWrite, HandleWriteError, Callback,
          Joined, vars, clientVars
    <3>. QED  BY <3>1 DEF clientVars, Echo!vars
  <2>. QED  BY <2>1, <2>2
<1>. QED  BY <1>1, <1>2, Always, PTL DEF Spec, Echo!Spec
=============================================================================
