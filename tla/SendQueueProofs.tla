--------------------------- MODULE SendQueueProofs ---------------------------
(***************************************************************************)
(* Theorems about SendQueue, for every queue limit and every number of     *)
(* pieces: the peer gets whole nodes in order, a write's buffer stays      *)
(* alive, and the output of a working connection never stops.              *)
(***************************************************************************)
EXTENDS SendQueue, SequenceTheorems, TLAPS

\* The queue holds the last nodes accepted, in order.
QueueShape ==
  /\ Len(send_que) <= accepted
  /\ \A i \in 1 .. Len(send_que) : send_que[i] = accepted - Len(send_que) + i

\* At most one write is under way, and it is about the node in front.  With
\* none under way the queue is empty, or its first write has failed for good.
OneWrite ==
  /\ Len(writes) <= 1
  /\ writes # <<>> =>
       /\ send_que # <<>>
       /\ writes[1].node = Head(send_que)
       /\ writes[1].status = "active" => writes[1].sent < Parts
       /\ writes[1].status = "failed" => socket # "open"
  /\ writes = <<>> /\ send_que # <<>> => socket = "closed"

\* The wire ends where the write under way has got to.
WireEnd ==
  /\ writes # <<>> =>
       /\ writes[1].status = "active" => Due = <<writes[1].node, writes[1].sent + 1>>
       /\ writes[1].status = "done" => Due = <<writes[1].node + 1, 1>>
  /\ send_que = <<>> => Due = <<accepted + 1, 1>>

(* The types without the bound on the queue. *)
Types ==
  /\ send_que \in Seq(Nat)
  /\ writes \in Seq(Op)
  /\ wire \in Seq(Nat \X Nat)
  /\ socket \in {"open", "broken", "closed"}
  /\ registered \in BOOLEAN
  /\ sends \in 0 .. MaxSends
  /\ accepted \in 0 .. sends

\* The inductive invariant.
IInv == Types /\ QueueShape /\ OneWrite /\ WireEnd /\ WireInOrder /\ QueueBound

\* The initial states satisfy the inductive invariant.
LEMMA InitInv == Init => IInv
<1> SUFFICES ASSUME Init PROVE IInv
  OBVIOUS
<1> USE DEF Init
<1>1. Types
  <2>1. registered \in BOOLEAN
    OBVIOUS
  <2>2. sends \in 0 .. MaxSends /\ accepted \in 0 .. sends
    BY SendQueueAssumption
  <2>3. send_que \in Seq(Nat) /\ writes \in Seq(Op) /\ wire \in Seq(Nat \X Nat)
    OBVIOUS
  <2>. QED  BY <2>1, <2>2, <2>3 DEF Types
<1>2. QueueShape /\ OneWrite
  BY DEF QueueShape, OneWrite
<1>3. WireEnd /\ WireInOrder
  BY DEF WireEnd, WireInOrder, Due
<1>4. QueueBound
  BY SendQueueAssumption DEF QueueBound
<1>. QED  BY <1>1, <1>2, <1>3, <1>4 DEF IInv

\* What the invariant says of the numbers and of an operation under way.
LEMMA Facts ==
  ASSUME IInv
  PROVE  /\ MAX_SENDQUE \in Nat /\ Parts \in Nat /\ Parts >= 1 /\ MaxSends \in Nat
         /\ sends \in Nat /\ accepted \in Nat /\ accepted <= sends /\ sends <= MaxSends
         /\ Len(send_que) \in Nat /\ Len(wire) \in Nat
         /\ \A i \in Ops : i = 1 /\ writes # <<>> /\ Len(writes) = 1 /\ writes[1] \in Op
<1>1. /\ MAX_SENDQUE \in Nat /\ Parts \in Nat /\ Parts >= 1 /\ MaxSends \in Nat
  BY SendQueueAssumption
<1>2. sends \in Nat /\ sends <= MaxSends
  BY <1>1 DEF IInv, Types
<1>3. accepted \in Nat /\ accepted <= sends
  BY <1>2 DEF IInv, Types
<1>4. Len(send_que) \in Nat /\ Len(wire) \in Nat /\ writes \in Seq(Op) /\ Len(writes) <= 1
  BY DEF IInv, Types, OneWrite
<1>5. ASSUME NEW i \in Ops
      PROVE  i = 1 /\ writes # <<>> /\ Len(writes) = 1 /\ writes[1] \in Op
  <2> DEFINE L == Len(writes)
  <2>1. L \in Nat /\ L <= 1 /\ i \in 1 .. L
    BY <1>4, <1>5 DEF Ops
  <2> HIDE DEF L
  <2>2. i = 1 /\ L = 1
    BY <2>1
  <2> USE DEF L
  <2>. QED  BY <1>4, <2>2
<1>. QED  BY <1>1, <1>2, <1>3, <1>4, <1>5

\* With one operation under way, removing it leaves none.
LEMMA WithoutOne ==
  ASSUME IInv, 1 \in Ops
  PROVE  WithoutOp(1) = <<>>
<1>1. Len(writes) = 1
  BY Facts
<1>2. SubSeq(writes, 1, 1 - 1) = <<>> /\ SubSeq(writes, 1 + 1, Len(writes)) = <<>>
  BY <1>1, SubSeqEmpty
<1>. QED  BY <1>2 DEF WithoutOp

-----------------------------------------------------------------------------
(* Each action preserves the inductive invariant. *)

\* Send on a full queue keeps the inductive invariant.
LEMMA SendRefusedInv ==
  ASSUME IInv, SendRefused
  PROVE  IInv'
<1> USE DEF SendRefused
<1>1. Types'
  <2>1. sends' \in 0 .. MaxSends /\ accepted' \in 0 .. sends'
    BY Facts
  <2>. QED  BY <2>1 DEF IInv, Types
<1>2. QueueShape' /\ OneWrite' /\ WireEnd' /\ WireInOrder' /\ QueueBound'
  BY DEF IInv, QueueShape, OneWrite, WireEnd, Due, WireInOrder, QueueBound
<1>. QED  BY <1>1, <1>2 DEF IInv

\* Send keeps the inductive invariant.
LEMMA SendInv ==
  ASSUME IInv, Send
  PROVE  IInv'
<1> DEFINE n == accepted + 1
           op == [node |-> n, sent |-> 0, status |-> "active"]
<1>0. /\ sends < MaxSends /\ ~(Len(send_que) > MAX_SENDQUE)
      /\ sends' = sends + 1 /\ accepted' = n
      /\ send_que' = Append(send_que, n)
      /\ writes' = IF Len(send_que) > 0 THEN writes ELSE Append(writes, op)
      /\ UNCHANGED <<wire, socket, registered>>
  BY DEF Send, Full, async_write
<1>1. /\ send_que \in Seq(Nat) /\ writes \in Seq(Op) /\ n \in Nat /\ op \in Op
  BY Facts DEF IInv, Types, Op
<1>2. /\ send_que' \in Seq(Nat) /\ Len(send_que') = Len(send_que) + 1
      /\ \A i \in 1 .. Len(send_que) : send_que'[i] = send_que[i]
      /\ send_que'[Len(send_que) + 1] = n
  BY <1>0, <1>1, AppendProperties
<1> HIDE DEF op, n
<1>3. Due' = Due
  BY <1>0 DEF Due
<1>4. QueueShape'
  <2>1. Len(send_que) \in Nat /\ accepted \in Nat /\ Len(send_que) <= accepted
    BY Facts DEF IInv, QueueShape
  <2>2. ASSUME NEW i \in 1 .. Len(send_que')
        PROVE  send_que'[i] = accepted' - Len(send_que') + i
    <3>1. CASE i = Len(send_que) + 1
      BY <1>0, <1>2, <2>1, <3>1 DEF n
    <3>2. CASE i \in 1 .. Len(send_que)
      <4>1. send_que'[i] = accepted - Len(send_que) + i
        BY <1>2, <3>2 DEF IInv, QueueShape
      <4>. QED  BY <1>0, <1>2, <2>1, <4>1 DEF n
    <3>. QED  BY <1>2, <2>1, <3>1, <3>2
  <2>. QED  BY <1>0, <1>2, <2>1, <2>2 DEF QueueShape, n
<1>5. QueueBound'
  BY <1>0, <1>2, Facts DEF QueueBound
<1>6. WireInOrder'
  BY <1>0 DEF IInv, WireInOrder
<1>7. Types' /\ OneWrite' /\ WireEnd'
  <2>1. sends' \in 0 .. MaxSends /\ accepted' \in 0 .. sends'
    BY <1>0, Facts DEF n
  <2>2. send_que' # <<>>
    BY <1>2, Facts
  <2>3. CASE Len(send_que) > 0
    <3>1. send_que # <<>> /\ writes' = writes /\ Head(send_que') = Head(send_que)
      <4>1. Head(send_que') = send_que'[1] /\ Head(send_que) = send_que[1]
        BY <1>1, <1>2, <2>2, <2>3
      <4>2. 1 \in 1 .. Len(send_que)
        BY <2>3, Facts
      <4>. QED  BY <1>0, <1>1, <1>2, <2>3, <4>1, <4>2
    <3>2. Types'
      BY <1>0, <1>2, <2>1, <3>1 DEF IInv, Types
    <3>3. OneWrite'
      BY <1>0, <2>2, <3>1 DEF IInv, OneWrite
    <3>4. WireEnd'
      BY <1>3, <2>2, <3>1 DEF IInv, WireEnd
    <3>. QED  BY <3>2, <3>3, <3>4
  <2>4. CASE ~(Len(send_que) > 0)
    <3>1. send_que = <<>> /\ writes = <<>>
      BY <1>1, <2>4 DEF IInv, OneWrite
    <3>2. writes' = <<op>> /\ send_que' = <<n>>
      BY <1>0, <2>4, <3>1
    <3>3. /\ op \in Op /\ op.node = n /\ op.sent = 0 /\ op.status = "active"
      BY <1>1 DEF op
    <3>4. writes' \in Seq(Op) /\ Len(writes') = 1 /\ writes'[1] = op /\ writes' # <<>>
      BY <3>2, <3>3
    <3>5. Types'
      BY <1>0, <1>2, <2>1, <3>4 DEF IInv, Types
    <3>6. OneWrite'
      BY <2>2, <3>2, <3>3, <3>4, Facts DEF OneWrite
    <3>7. Due = <<n, 1>>
      BY <3>1 DEF IInv, WireEnd, n
    <3>8. WireEnd'
      BY <1>3, <2>2, <3>3, <3>4, <3>7 DEF WireEnd
    <3>. QED  BY <3>5, <3>6, <3>8
  <2>. QED  BY <2>3, <2>4
<1>. QED  BY <1>4, <1>5, <1>6, <1>7 DEF IInv

\* A piece of a node going out keeps the inductive invariant.
LEMMA WriteSomeInv ==
  ASSUME IInv, NEW i \in Ops, WriteSome(i)
  PROVE  IInv'
<1> DEFINE op == writes[1]
           piece == <<op.node, op.sent + 1>>
           st == IF op.sent + 1 = Parts THEN "done" ELSE "active"
<1>0. i = 1 /\ writes # <<>> /\ Len(writes) = 1 /\ op \in Op /\ 1 \in Ops
  BY Facts
<1>1. /\ op.status = "active" /\ socket = "open"
      /\ wire' = Append(wire, piece)
      /\ UNCHANGED <<send_que, socket, registered, sends, accepted>>
  BY <1>0 DEF WriteSome
<1>2. /\ op.node \in Nat /\ op.sent \in Nat /\ op.sent < Parts /\ Parts \in Nat
  BY <1>0, <1>1, Facts DEF Op, IInv, OneWrite
<1>3. writes' = <<[node |-> op.node, sent |-> op.sent + 1, status |-> st]>>
  <2>1. writes \in Seq(Op)
    BY DEF IInv, Types
  <2>2. writes' = [writes EXCEPT ![1].sent = op.sent + 1, ![1].status = st]
    BY <1>0, <1>1 DEF WriteSome
  <2>. QED  BY <1>0, <2>1, <2>2 DEF Op
<1>4. /\ Len(writes') = 1 /\ writes' # <<>> /\ writes'[1].node = op.node
      /\ writes'[1].sent = op.sent + 1 /\ writes'[1].status = st
      /\ writes' \in Seq(Op)
  BY <1>2, <1>3 DEF Op
<1>5. Due = piece
  BY <1>0, <1>1 DEF IInv, WireEnd
<1>6. piece \in Nat \X Nat /\ wire \in Seq(Nat \X Nat)
  BY <1>2 DEF IInv, Types
<1> HIDE DEF piece
<1>7. /\ wire' \in Seq(Nat \X Nat) /\ Len(wire') = Len(wire) + 1
      /\ \A k \in 1 .. Len(wire) : wire'[k] = wire[k]
      /\ wire'[Len(wire) + 1] = piece
  BY <1>1, <1>6, AppendProperties
<1>8. Len(wire) \in Nat
  BY Facts
<1>9. WireInOrder'
  <2>1. CASE wire = <<>>
    <3>1. Len(wire) = 0 /\ piece = <<1, 1>>
      BY <1>5, <2>1 DEF Due
    <3>. QED  BY <1>7, <3>1 DEF WireInOrder
  <2>2. CASE wire # <<>>
    <3>1. Len(wire) >= 1
      BY <1>6, <1>8, <2>2
    <3>2. wire'[1] = <<1, 1>>
      BY <1>7, <1>8, <2>2, <3>1 DEF IInv, WireInOrder
    <3>3. ASSUME NEW k \in 1 .. Len(wire') - 1 PROVE wire'[k + 1] = Successor(wire'[k])
      <4>1. CASE k = Len(wire)
        BY <1>5, <1>7, <1>8, <2>2, <3>1, <4>1 DEF Due
      <4>2. CASE k \in 1 .. Len(wire) - 1
        <5>1. wire'[k] = wire[k] /\ wire'[k + 1] = wire[k + 1]
          <6>1. k \in 1 .. Len(wire) /\ k + 1 \in 1 .. Len(wire)
            BY <1>8, <4>2
          <6>. QED  BY <1>7, <6>1
        <5>. QED  BY <4>2, <5>1 DEF IInv, WireInOrder
      <4>. QED  BY <1>7, <1>8, <4>1, <4>2
    <3>. QED  BY <3>2, <3>3 DEF WireInOrder
  <2>. QED  BY <2>1, <2>2
<1>10. Due' = Successor(piece)
  <2>1. wire' # <<>> /\ wire'[Len(wire')] = piece
    BY <1>7, <1>8
  <2>. QED  BY <2>1 DEF Due
<1>11. OneWrite'
  BY <1>0, <1>1, <1>2, <1>4, Facts DEF IInv, OneWrite
<1>12. WireEnd'
  <2>1. send_que # <<>>
    BY <1>0 DEF IInv, OneWrite
  <2>2. CASE op.sent + 1 = Parts
    <3>1. Successor(piece) = <<op.node + 1, 1>>
      BY <1>2, <2>2 DEF Successor, piece
    <3>. QED  BY <1>1, <1>4, <1>10, <2>1, <2>2, <3>1 DEF WireEnd
  <2>3. CASE op.sent + 1 # Parts
    <3>1. Successor(piece) = <<op.node, (op.sent + 1) + 1>>
      BY <1>2, <2>3 DEF Successor, piece
    <3>. QED  BY <1>1, <1>4, <1>10, <2>1, <2>3, <3>1 DEF WireEnd
  <2>. QED  BY <2>2, <2>3
<1>13. Types'
  BY <1>1, <1>4, <1>7 DEF IInv, Types
<1>14. QueueShape' /\ QueueBound'
  BY <1>1 DEF IInv, QueueShape, QueueBound
<1>. QED  BY <1>9, <1>11, <1>12, <1>13, <1>14 DEF IInv

\* The failure of a write keeps the inductive invariant.
LEMMA WriteFailsInv ==
  ASSUME IInv, NEW i \in Ops, WriteFails(i)
  PROVE  IInv'
<1> DEFINE op == writes[1]
<1>0. i = 1 /\ writes # <<>> /\ Len(writes) = 1 /\ op \in Op /\ 1 \in Ops
  BY Facts
<1>1. /\ op.status = "active" /\ socket # "open"
      /\ UNCHANGED <<send_que, wire, socket, registered, sends, accepted>>
  BY <1>0 DEF WriteFails
<1>2. writes' = <<[node |-> op.node, sent |-> op.sent, status |-> "failed"]>>
  <2>1. writes \in Seq(Op)
    BY DEF IInv, Types
  <2>2. writes' = [writes EXCEPT ![1].status = "failed"]
    BY <1>0 DEF WriteFails
  <2>. QED  BY <1>0, <2>1, <2>2 DEF Op
<1>3. /\ Len(writes') = 1 /\ writes' # <<>> /\ writes'[1].node = op.node
      /\ writes'[1].status = "failed" /\ writes' \in Seq(Op)
  BY <1>0, <1>2 DEF Op
<1>4. Types'
  BY <1>1, <1>3 DEF IInv, Types
<1>5. OneWrite'
  BY <1>0, <1>1, <1>3 DEF IInv, OneWrite
<1>6. WireEnd'
  <2>1. Due' = Due
    BY <1>1 DEF Due
  <2>. QED  BY <1>1, <1>3, <2>1 DEF IInv, WireEnd
<1>7. QueueShape' /\ WireInOrder' /\ QueueBound'
  BY <1>1 DEF IInv, QueueShape, WireInOrder, QueueBound
<1>. QED  BY <1>4, <1>5, <1>6, <1>7 DEF IInv

\* Steps that only change the socket and the server's table.
LEMMA SocketInv ==
  ASSUME IInv, UNCHANGED <<send_que, writes, wire, sends, accepted>>,
         socket' \in {"broken", "closed"}, registered' \in BOOLEAN,
         socket = "closed" => socket' = "closed"
  PROVE  IInv'
<1>1. Types'
  BY DEF IInv, Types
<1>2. OneWrite'
  BY DEF IInv, OneWrite
<1>3. WireEnd'
  BY DEF IInv, WireEnd, Due
<1>4. QueueShape' /\ WireInOrder' /\ QueueBound'
  BY DEF IInv, QueueShape, WireInOrder, QueueBound
<1>. QED  BY <1>1, <1>2, <1>3, <1>4 DEF IInv

\* The error branch of HandleWrite keeps the inductive invariant.
LEMMA HandleWriteErrorInv ==
  ASSUME IInv, NEW i \in Ops, HandleWriteError(i)
  PROVE  IInv'
<1>0. i = 1 /\ writes # <<>> /\ 1 \in Ops
  BY Facts
<1>1. /\ writes' = <<>> /\ socket' = "closed" /\ registered' = FALSE
      /\ UNCHANGED <<send_que, wire, sends, accepted>>
  BY <1>0, WithoutOne DEF HandleWriteError, Close, ClearSession
<1>2. Types'
  <2>1. registered' \in BOOLEAN
    BY <1>1
  <2>2. writes' \in Seq(Op) /\ socket' \in {"open", "broken", "closed"}
    BY <1>1
  <2>3. UNCHANGED <<send_que, wire, sends, accepted>>
    BY <1>1
  <2>. QED  BY <2>1, <2>2, <2>3 DEF IInv, Types
<1>3. OneWrite'
  BY <1>1 DEF OneWrite
<1>4. WireEnd'
  <2>1. send_que' # <<>>
    BY <1>0, <1>1 DEF IInv, OneWrite
  <2>. QED  BY <1>1, <2>1 DEF WireEnd
<1>5. QueueShape' /\ WireInOrder' /\ QueueBound'
  BY <1>1 DEF IInv, QueueShape, WireInOrder, QueueBound
<1>. QED  BY <1>2, <1>3, <1>4, <1>5 DEF IInv

\* The success branch of HandleWrite keeps the inductive invariant.
LEMMA HandleWriteInv ==
  ASSUME IInv, NEW i \in Ops, HandleWrite(i)
  PROVE  IInv'
<1> DEFINE q == Tail(send_que)
           op == [node |-> Head(q), sent |-> 0, status |-> "active"]
<1>0. i = 1 /\ writes # <<>> /\ 1 \in Ops
  BY Facts
<1>1. /\ writes[1].status = "done" /\ send_que' = q
      /\ writes' = IF q = <<>> THEN <<>> ELSE <<op>>
      /\ UNCHANGED <<wire, socket, registered, sends, accepted>>
  <2>1. WithoutOp(i) = <<>>
    BY <1>0, WithoutOne
  <2>2. /\ writes[i].status = "done" /\ send_que' = q
        /\ writes' = IF send_que' = <<>> THEN WithoutOp(i)
                     ELSE Append(WithoutOp(i), [node |-> Head(send_que'), sent |-> 0,
                                                status |-> "active"])
        /\ UNCHANGED <<wire, socket, registered, sends, accepted>>
    BY DEF HandleWrite
  <2>3. Append(<<>>, op) = <<op>>
    <3> HIDE DEF op
    <3>. QED  OBVIOUS
  <2> HIDE DEF q
  <2>. QED  BY <1>0, <2>1, <2>2, <2>3
<1>2. send_que # <<>> /\ send_que \in Seq(Nat) /\ writes[1].node = Head(send_que)
  BY <1>0 DEF IInv, OneWrite, Types
<1>3. /\ q \in Seq(Nat) /\ Len(q) = Len(send_que) - 1
      /\ \A k \in 1 .. Len(q) : q[k] = send_que[k + 1]
  BY <1>2, HeadTailProperties
<1>4. /\ Len(send_que) \in Nat /\ Len(send_que) >= 1 /\ accepted \in Nat
      /\ Len(q) \in Nat /\ Len(send_que) <= accepted
  BY <1>2, <1>3, Facts DEF IInv, QueueShape
<1>5. Head(send_que) = accepted - Len(send_que) + 1
  <2>1. Head(send_que) = send_que[1] /\ 1 \in 1 .. Len(send_que)
    BY <1>2, <1>4
  <2>. QED  BY <2>1 DEF IInv, QueueShape
<1>6. Due' = <<Head(send_que) + 1, 1>>
  <2>1. Due = <<writes[1].node + 1, 1>>
    BY <1>0, <1>1 DEF IInv, WireEnd
  <2>2. Due' = Due
    BY <1>1 DEF Due
  <2>. QED  BY <1>2, <2>1, <2>2
<1>7. QueueShape'
  <2>1. ASSUME NEW k \in 1 .. Len(q)  PROVE q[k] = accepted - Len(q) + k
    <3>1. k + 1 \in 1 .. Len(send_que)
      BY <1>3, <1>4
    <3>2. q[k] = accepted - Len(send_que) + (k + 1)
      BY <1>3, <3>1 DEF IInv, QueueShape
    <3>. QED  BY <1>3, <1>4, <3>2
  <2>2. Len(q) <= accepted
    BY <1>3, <1>4
  <2> HIDE DEF q
  <2>. QED  BY <1>1, <2>1, <2>2 DEF QueueShape
<1>8. WireInOrder' /\ QueueBound'
  <2>1. Len(q) <= MAX_SENDQUE + 1
    BY <1>3, <1>4, Facts DEF IInv, QueueBound
  <2> HIDE DEF q
  <2>. QED  BY <1>1, <2>1 DEF IInv, WireInOrder, QueueBound
<1>9. Types' /\ OneWrite' /\ WireEnd'
  <2>1. CASE q = <<>>
    <3> HIDE DEF q
    <3>1. Len(q) = 0
      BY <2>1
    <3>2. Head(send_que) + 1 = accepted + 1
      <4>1. Len(send_que) = 1
        BY <1>3, <1>4, <3>1
      <4>. QED  BY <1>4, <1>5, <4>1
    <3>3. writes' = <<>> /\ send_que' = <<>>
      BY <1>1, <2>1
    <3>4. Types'
      BY <1>1, <3>3 DEF IInv, Types
    <3>. QED  BY <1>1, <1>6, <3>2, <3>3, <3>4 DEF OneWrite, WireEnd
  <2>2. CASE q # <<>>
    <3>1. Len(q) >= 1
      BY <1>3, <1>4, <2>2
    <3>2. Head(q) = Head(send_que) + 1
      <4>1. Head(q) = q[1] /\ 1 \in 1 .. Len(q)
        BY <1>3, <1>4, <2>2, <3>1
      <4>2. q[1] = send_que[2] /\ 2 \in 1 .. Len(send_que)
        BY <1>3, <1>4, <3>1, <4>1
      <4>3. send_que[2] = accepted - Len(send_que) + 2
        BY <4>2 DEF IInv, QueueShape
      <4>. QED  BY <1>4, <1>5, <4>1, <4>2, <4>3
    <3>3. Head(q) \in Nat
      BY <1>3, <2>2, HeadTailProperties
    <3> HIDE DEF q
    <3>4. /\ op \in Op /\ op.node = Head(q) /\ op.sent = 0 /\ op.status = "active"
      BY <3>3, SendQueueAssumption DEF Op
    <3> HIDE DEF op
    <3>5. /\ writes' = <<op>> /\ send_que' = q /\ writes' \in Seq(Op)
          /\ Len(writes') = 1 /\ writes'[1] = op /\ writes' # <<>>
      BY <1>1, <2>2, <3>4
    <3>6. Types'
      BY <1>1, <1>3, <3>5 DEF IInv, Types
    <3>7. OneWrite'
      BY <2>2, <3>4, <3>5, Facts DEF OneWrite
    <3>8. WireEnd'
      BY <1>6, <2>2, <3>2, <3>4, <3>5 DEF WireEnd
    <3>. QED  BY <3>6, <3>7, <3>8
  <2>. QED  BY <2>1, <2>2
<1>. QED  BY <1>7, <1>8, <1>9 DEF IInv

\* Every step, and a stuttering step, keeps the inductive invariant.
LEMMA NextInv == IInv /\ [Next]_vars => IInv'
<1> SUFFICES ASSUME IInv, [Next]_vars PROVE IInv'
  OBVIOUS
<1>1. CASE Send
  BY <1>1, SendInv
<1>2. CASE SendRefused
  BY <1>2, SendRefusedInv
<1>3. ASSUME NEW i \in Ops, WriteSome(i) PROVE IInv'
  BY <1>3, WriteSomeInv
<1>4. ASSUME NEW i \in Ops, WriteFails(i) PROVE IInv'
  BY <1>4, WriteFailsInv
<1>5. CASE ConnectionFails
  <2>1. registered \in BOOLEAN
    BY DEF IInv, Types
  <2>. QED  BY <1>5, <2>1, SocketInv DEF ConnectionFails
<1>6. ASSUME NEW i \in Ops, HandleWrite(i) PROVE IInv'
  BY <1>6, HandleWriteInv
<1>7. ASSUME NEW i \in Ops, HandleWriteError(i) PROVE IInv'
  BY <1>7, HandleWriteErrorInv
<1>8. CASE HandleReadError
  <2>1. registered' \in BOOLEAN
    BY <1>8 DEF HandleReadError, ClearSession
  <2>. QED  BY <1>8, <2>1, SocketInv DEF HandleReadError, Close
<1>9. CASE UNCHANGED vars
  BY <1>9 DEF vars, IInv, Types, QueueShape, OneWrite, WireEnd, Due,
              WireInOrder, QueueBound
<1>. QED
  BY <1>1, <1>2, <1>3, <1>4, <1>5, <1>6, <1>7, <1>8, <1>9
     DEF Next, Kernel, WriteHandlers, Quiet

-----------------------------------------------------------------------------
\* Every reachable state satisfies the inductive invariant.
LEMMA Invariance == Spec => []IInv
BY InitInv, NextInv, PTL DEF Spec

\* Type correctness of the session's write state.
THEOREM TypeCorrect == Spec => []TypeOK
<1>1. IInv => TypeOK
  BY DEF IInv, Types, TypeOK
<1>. QED  BY <1>1, Invariance, PTL

\* The peer gets whole nodes in the order Send accepted them, however many
\* pieces async_write needs and whenever the connection fails.
THEOREM WireCorrect == Spec => []WireInOrder
<1>1. IInv => WireInOrder
  BY DEF IInv
<1>. QED  BY <1>1, Invariance, PTL

\* A write under way reads from the node in front of the queue, which keeps
\* it alive.
THEOREM BufferCorrect == Spec => []BufferAlive
<1>1. IInv => BufferAlive
  <2> SUFFICES ASSUME IInv, NEW i \in Ops
               PROVE  send_que # <<>> /\ writes[i].node = Head(send_que)
    BY DEF BufferAlive
  <2>1. i = 1 /\ writes # <<>>
    BY Facts
  <2>. QED  BY <2>1 DEF IInv, OneWrite
<1>. QED  BY <1>1, Invariance, PTL

\* A working connection with nodes to send has a write under way.
THEOREM NoStallCorrect == Spec => []NoStall
<1>1. IInv => NoStall
  BY DEF IInv, OneWrite, NoStall
<1>. QED  BY <1>1, Invariance, PTL

\* The queue never holds more than MAX_SENDQUE + 1 nodes.
THEOREM BoundCorrect == Spec => []QueueBound
<1>1. IInv => QueueBound
  BY DEF IInv
<1>. QED  BY <1>1, Invariance, PTL

-----------------------------------------------------------------------------
(* SendQueue implements SendService. *)

\* The node in front has gone out, and HandleWrite has not run.
Out == IF writes # <<>> /\ writes[1].status = "done" THEN 1 ELSE 0

\* The nodes the peer does not have yet are those in the queue, without the one
\* in front if it has gone out.  It holds of a failed session too, whose queue
\* nobody empties.
DeliveredInv == Delivered = accepted - Len(send_que) + Out

(* The session is not stuck: its queue is empty or a write has not failed. *)
Working == send_que = <<>> \/ (writes # <<>> /\ writes[1].status # "failed")

\* For a session that is not stuck that follows from the inductive invariant.
LEMMA WorkingDelivered == IInv /\ Working => DeliveredInv
<1> SUFFICES ASSUME IInv, Working PROVE DeliveredInv
  OBVIOUS
<1> DEFINE n == Len(send_que)
<1>1. accepted \in Nat /\ n \in Nat /\ send_que \in Seq(Nat) /\ writes \in Seq(Op)
  BY Facts DEF IInv, Types
<1>2. CASE send_que = <<>>
  <2>1. writes = <<>> /\ n = 0
    BY <1>2 DEF IInv, OneWrite
  <2>2. Due[1] = accepted + 1
    BY <1>2 DEF IInv, WireEnd
  <2> HIDE DEF n
  <2>3. Due[1] - 1 = accepted - n + 0
    BY <1>1, <2>1, <2>2
  <2>. QED  BY <2>1, <2>3 DEF DeliveredInv, Delivered, Out, n
<1>3. CASE send_que # <<>>
  <2> DEFINE h == Head(send_que)
             st == writes[1].status
  <2>1. writes # <<>> /\ st # "failed"
    BY <1>3 DEF Working
  <2>2. 1 \in Ops
    BY <1>1, <2>1, EmptySeq DEF Ops
  <2>3. writes[1] \in Op
    BY <2>2, Facts
  <2>4. st \in {"active", "done"} /\ writes[1].node = h
    BY <2>1, <2>3 DEF Op, IInv, OneWrite
  <2>5. h = accepted - n + 1
    <3>1. h = send_que[1] /\ 1 \in 1 .. n
      BY <1>1, <1>3, EmptySeq
    <3>. QED  BY <3>1 DEF IInv, QueueShape
  <2>6. Due[1] = h + Out
    <3>0. h + 0 = h
      BY <1>1, <2>5
    <3>1. CASE st = "active"
      <4>1. Due = <<h, writes[1].sent + 1>>
        BY <2>1, <2>4, <3>1 DEF IInv, WireEnd
      <4>. QED  BY <3>0, <3>1, <4>1 DEF Out
    <3>2. CASE st = "done"
      <4>1. Due = <<h + 1, 1>>
        BY <2>1, <2>4, <3>2 DEF IInv, WireEnd
      <4>. QED  BY <2>1, <3>2, <4>1 DEF Out
    <3>. QED  BY <2>4, <3>1, <3>2
  <2>7. Out \in Nat
    BY DEF Out
  <2> HIDE DEF h, n
  <2>8. Due[1] - 1 = accepted - n + Out
    BY <1>1, <2>5, <2>6, <2>7
  <2>. QED  BY <2>8 DEF DeliveredInv, Delivered, n
<1>. QED  BY <1>2, <1>3

\* An accepted node is a step of the service, and waits.
LEMMA SendServes ==
  ASSUME IInv, DeliveredInv, Send
  PROVE  DeliveredInv' /\ Service!Accept
<1> DEFINE n == Len(send_que)
<1>1. /\ sends < MaxSends /\ ~(n > MAX_SENDQUE)
      /\ sends' = sends + 1 /\ accepted' = accepted + 1
      /\ send_que' = Append(send_que, accepted + 1)
      /\ writes' = IF n > 0 THEN writes
                   ELSE Append(writes, [node |-> accepted + 1, sent |-> 0, status |-> "active"])
      /\ UNCHANGED <<wire, socket>>
  BY DEF Send, Full, async_write
<1>2. /\ accepted \in Nat /\ sends \in Nat /\ n \in Nat /\ MAX_SENDQUE \in Nat
      /\ MaxSends \in Nat
  BY Facts
<1>3. Delivered' = Delivered
  BY <1>1 DEF Delivered, Due
<1>4. Len(send_que') = n + 1
  <2>1. send_que \in Seq(Nat) /\ accepted + 1 \in Nat
    BY <1>2 DEF IInv, Types
  <2>. QED  BY <1>1, <2>1, AppendProperties
<1>5. Out' = Out /\ Out \in {0, 1}
  <2>1. CASE n > 0
    BY <1>1, <2>1 DEF Out
  <2>2. CASE ~(n > 0)
    <3>1. send_que = <<>>
      BY <1>2, <2>2, EmptySeq DEF IInv, Types
    <3>2. writes = <<>>
      BY <3>1 DEF IInv, OneWrite
    <3>3. writes' = <<[node |-> accepted + 1, sent |-> 0, status |-> "active"]>>
      BY <1>1, <2>2, <3>2
    <3>4. writes'[1].status = "active"
      BY <3>3
    <3>. QED  BY <3>2, <3>4 DEF Out
  <2>. QED  BY <2>1, <2>2
<1>6. Delivered = accepted - n + Out
  BY DEF DeliveredInv
<1> HIDE DEF n
<1>7. DeliveredInv'
  <2>1. Delivered' = (accepted + 1) - (n + 1) + Out'
    BY <1>2, <1>3, <1>5, <1>6
  <2>. QED  BY <1>1, <1>4, <2>1 DEF DeliveredInv
<1>8. Service!Accept
  <2>1. accepted + (sends - accepted) < MaxSends
    BY <1>1, <1>2
  <2>2. accepted - Delivered <= MAX_SENDQUE
    BY <1>1, <1>2, <1>5, <1>6
  <2>3. sends' - accepted' = sends - accepted
    BY <1>1, <1>2
  <2>. QED  BY <1>1, <1>3, <2>1, <2>2, <2>3 DEF Service!Accept, Service!MayCall, Service!Waiting
<1>. QED  BY <1>7, <1>8

\* Send refuses a node only with MAX_SENDQUE of them waiting.
LEMMA RefusalServes ==
  ASSUME IInv, DeliveredInv, SendRefused
  PROVE  DeliveredInv' /\ Service!Refuse
<1> DEFINE n == Len(send_que)
<1>1. /\ sends < MaxSends /\ n > MAX_SENDQUE /\ sends' = sends + 1
      /\ UNCHANGED <<send_que, writes, wire, socket, accepted>>
  BY DEF SendRefused, Full
<1>2. /\ accepted \in Nat /\ sends \in Nat /\ n \in Nat /\ MAX_SENDQUE \in Nat
      /\ MaxSends \in Nat
  BY Facts
<1>3. Delivered' = Delivered /\ Out' = Out /\ Out \in {0, 1}
  BY <1>1 DEF Delivered, Due, Out
<1>4. Delivered = accepted - n + Out
  BY DEF DeliveredInv
<1>5. DeliveredInv'
  BY <1>1, <1>3, <1>4 DEF DeliveredInv
<1> HIDE DEF n
<1>6. Service!Refuse
  <2>1. accepted + (sends - accepted) < MaxSends
    BY <1>1, <1>2
  <2>2. accepted - Delivered >= MAX_SENDQUE
    BY <1>1, <1>2, <1>3, <1>4
  <2>3. sends' - accepted' = (sends - accepted) + 1
    BY <1>1, <1>2
  <2>. QED  BY <1>1, <1>3, <2>1, <2>2, <2>3 DEF Service!Refuse, Service!MayCall, Service!Waiting
<1>. QED  BY <1>5, <1>6

\* The last piece of a node delivers it, the others do not show.
LEMMA WriteSomeServes ==
  ASSUME IInv, DeliveredInv, NEW i \in Ops, WriteSome(i),
         IInv' /\ Working' => DeliveredInv'
  PROVE  DeliveredInv' /\ (Service!Deliver \/ UNCHANGED Service!vars)
<1>1. i = 1 /\ writes # <<>> /\ Len(writes) = 1 /\ writes[1] \in Op
  BY Facts
<1>2. /\ writes[1].status = "active" /\ socket = "open"
      /\ UNCHANGED <<send_que, socket, sends, accepted>>
  BY <1>1 DEF WriteSome
<1>3. IInv'
  BY WriteSomeInv
<1>4. writes' # <<>> /\ writes'[1].status \in {"active", "done"}
  <2>1. writes \in Seq(Op)
    BY DEF IInv, Types
  <2>2. writes' = [writes EXCEPT ![1].sent = writes[1].sent + 1,
                     ![1].status = IF writes[1].sent + 1 = Parts THEN "done" ELSE "active"]
    BY <1>1, <1>2 DEF WriteSome
  <2>. QED  BY <1>1, <2>1, <2>2 DEF Op
<1>5. DeliveredInv'
  BY <1>3, <1>4 DEF Working
<1> DEFINE n == Len(send_que)
<1>6. Delivered = accepted - n + 0
  BY <1>2 DEF DeliveredInv, Out
<1>7. Delivered' = accepted - n + Out' /\ Out' \in {0, 1}
  BY <1>2, <1>5 DEF DeliveredInv, Out
<1>8. n \in Nat /\ n > 0 /\ accepted \in Nat
  <2>1. send_que # <<>> /\ send_que \in Seq(Nat)
    BY <1>1 DEF IInv, OneWrite, Types
  <2>. QED  BY <2>1, Facts, EmptySeq
<1> HIDE DEF n
<1>9. CASE Out' = 1
  <2>1. Delivered' = Delivered + 1 /\ Delivered < accepted
    BY <1>6, <1>7, <1>8, <1>9
  <2>2. Service!Deliver
    BY <1>2, <2>1 DEF Service!Deliver
  <2>. QED  BY <1>5, <2>2
<1>10. CASE Out' = 0
  <2>1. Delivered' = Delivered
    BY <1>6, <1>7, <1>10
  <2>2. UNCHANGED Service!vars
    BY <1>2, <2>1 DEF Service!vars
  <2>. QED  BY <1>5, <2>2
<1>. QED  BY <1>7, <1>9, <1>10

\* HandleWrite takes the node off that the peer has got.
LEMMA HandleWriteServes ==
  ASSUME IInv, DeliveredInv, NEW i \in Ops, HandleWrite(i)
  PROVE  DeliveredInv' /\ UNCHANGED Service!vars
<1> DEFINE n == Len(send_que)
<1>1. i = 1 /\ writes # <<>> /\ Len(writes) = 1 /\ 1 \in Ops
  BY Facts
<1>2. /\ writes[1].status = "done" /\ send_que' = Tail(send_que)
      /\ UNCHANGED <<wire, socket, sends, accepted>>
      /\ writes' = IF send_que' = <<>> THEN WithoutOp(1)
                   ELSE Append(WithoutOp(1), [node |-> Head(send_que'), sent |-> 0,
                                              status |-> "active"])
  BY <1>1 DEF HandleWrite
<1>3. writes' = <<>> \/ (Len(writes') = 1 /\ writes'[1].status = "active")
  <2>1. WithoutOp(1) = <<>>
    BY <1>1, WithoutOne
  <2>2. CASE send_que' = <<>>
    BY <1>2, <2>1, <2>2
  <2>3. CASE send_que' # <<>>
    <3> DEFINE op == [node |-> Head(send_que'), sent |-> 0, status |-> "active"]
    <3>1. writes' = Append(WithoutOp(1), op) /\ op.status = "active"
      BY <1>2, <2>3
    <3> HIDE DEF op
    <3>2. <<>> \in Seq({op}) /\ Len(<<>>) = 0
      OBVIOUS
    <3>3. Len(Append(<<>>, op)) = 0 + 1 /\ Append(<<>>, op)[0 + 1] = op
      BY <3>2, AppendProperties
    <3>4. Len(writes') = 1 /\ writes'[1] = op
      BY <2>1, <3>1, <3>3
    <3>. QED  BY <3>1, <3>4
  <2>. QED  BY <2>2, <2>3
<1>4. Out = 1 /\ Out' = 0
  BY <1>1, <1>2, <1>3 DEF Out
<1>5. Delivered' = Delivered
  BY <1>2 DEF Delivered, Due
<1>6. Len(send_que') = n - 1 /\ n \in Nat /\ accepted \in Nat
  <2>1. send_que # <<>> /\ send_que \in Seq(Nat)
    BY <1>1 DEF IInv, OneWrite, Types
  <2>. QED  BY <1>2, <2>1, Facts, HeadTailProperties
<1>7. DeliveredInv'
  <2>1. Delivered = accepted - n + 1
    BY <1>4 DEF DeliveredInv
  <2> HIDE DEF n
  <2>2. Delivered' = accepted - (n - 1) + 0
    BY <1>5, <1>6, <2>1
  <2>. QED  BY <1>2, <1>4, <1>6, <2>2 DEF DeliveredInv
<1>. QED  BY <1>2, <1>5, <1>7 DEF Service!vars

\* A failed write has delivered nothing more; what is queued stays there.
LEMMA FailuresServe ==
  ASSUME IInv, DeliveredInv, NEW i \in Ops, WriteFails(i) \/ HandleWriteError(i)
  PROVE  DeliveredInv' /\ (UNCHANGED Service!vars \/ Service!Lose)
<1>1. i = 1 /\ writes # <<>> /\ Len(writes) = 1 /\ 1 \in Ops /\ writes[1] \in Op
  BY Facts
<1>2. /\ UNCHANGED <<send_que, wire, sends, accepted>>
      /\ writes[1].status # "done" /\ socket # "open" /\ socket' # "open"
  <2>1. CASE WriteFails(i)
    BY <1>1, <2>1 DEF WriteFails
  <2>2. CASE HandleWriteError(i)
    BY <1>1, <2>2 DEF HandleWriteError, Close, IInv, OneWrite
  <2>. QED  BY <2>1, <2>2
<1>3. Out = 0
  BY <1>2 DEF Out
<1>4. Out' = 0
  <2>1. CASE WriteFails(i)
    <3>1. writes \in Seq(Op) /\ writes' = [writes EXCEPT ![1].status = "failed"]
      BY <1>1, <2>1 DEF WriteFails, IInv, Types
    <3>2. writes'[1].status = "failed"
      BY <1>1, <3>1 DEF Op
    <3>. QED  BY <3>2 DEF Out
  <2>2. CASE HandleWriteError(i)
    <3>1. writes' = <<>>
      BY <1>1, <2>2, WithoutOne DEF HandleWriteError
    <3>. QED  BY <3>1 DEF Out
  <2>. QED  BY <2>1, <2>2
<1>5. Delivered' = Delivered
  BY <1>2 DEF Delivered, Due
<1>. QED  BY <1>2, <1>3, <1>4, <1>5 DEF DeliveredInv, Service!vars

\* A step of the connection or of the read side alone, and a step of nothing.
LEMMA SocketServes ==
  ASSUME IInv, DeliveredInv, UNCHANGED <<send_que, writes, wire, sends, accepted>>,
         socket' = "open" => socket = "open"
  PROVE  DeliveredInv' /\ (UNCHANGED Service!vars \/ Service!Lose)
<1>1. Delivered' = Delivered /\ Out' = Out
  BY DEF Delivered, Due, Out
<1>2. DeliveredInv'
  BY <1>1 DEF DeliveredInv
<1>3. CASE socket = "open" /\ socket' # "open"
  BY <1>1, <1>2, <1>3 DEF Service!Lose
<1>4. CASE (socket = "open") = (socket' = "open")
  BY <1>1, <1>2, <1>4 DEF Service!vars
<1>. QED  BY <1>3, <1>4

\* Every step is one of the service or none.
LEMMA StepServes ==
  IInv /\ DeliveredInv /\ [Next]_vars => DeliveredInv' /\ [Service!Next]_(Service!vars)
<1>0. IInv' /\ Working' => DeliveredInv'
  BY WorkingDelivered, PTL
<1> SUFFICES ASSUME IInv, DeliveredInv, [Next]_vars
             PROVE  DeliveredInv' /\ [Service!Next]_(Service!vars)
  OBVIOUS
<1>1. CASE Send
  BY <1>1, SendServes DEF Service!Next
<1>2. CASE SendRefused
  BY <1>2, RefusalServes DEF Service!Next
<1>3. ASSUME NEW i \in Ops, WriteSome(i)
      PROVE  DeliveredInv' /\ [Service!Next]_(Service!vars)
  BY <1>0, <1>3, WriteSomeServes DEF Service!Next
<1>4. ASSUME NEW i \in Ops, WriteFails(i) \/ HandleWriteError(i)
      PROVE  DeliveredInv' /\ [Service!Next]_(Service!vars)
  BY <1>4, FailuresServe DEF Service!Next
<1>5. ASSUME NEW i \in Ops, HandleWrite(i)
      PROVE  DeliveredInv' /\ [Service!Next]_(Service!vars)
  BY <1>5, HandleWriteServes DEF Service!Next
<1>6. CASE ConnectionFails \/ HandleReadError
  <2>1. UNCHANGED <<send_que, writes, wire, sends, accepted>> /\ socket' # "open"
    BY <1>6 DEF ConnectionFails, HandleReadError, Close
  <2>. QED  BY <2>1, SocketServes DEF Service!Next
<1>7. CASE UNCHANGED vars
  <2>1. UNCHANGED <<send_que, writes, wire, sends, accepted>> /\ socket' = socket
    BY <1>7 DEF vars
  <2>. QED  BY <2>1, SocketServes DEF Service!Next
<1>. QED  BY <1>1, <1>2, <1>3, <1>4, <1>5, <1>6, <1>7
             DEF Next, Kernel, WriteHandlers, Quiet

\* Queue, lock, asynchronous writes and handlers implement the safety part of
\* SendService: what Send has accepted the peer gets whole and in order, and Send
\* refuses nothing while fewer than MAX_SENDQUE nodes wait.
THEOREM Refinement == Spec => Service!Spec
<1>1. Init => DeliveredInv /\ Service!Init
  <2> SUFFICES ASSUME Init PROVE DeliveredInv /\ Service!Init
    OBVIOUS
  <2>1. Delivered = 0
    BY DEF Init, Delivered, Due
  <2>2. DeliveredInv
    <3>1. Len(send_que) = 0 /\ accepted = 0 /\ Out = 0
      BY DEF Init, Out
    <3>2. 0 = 0 - 0 + 0
      OBVIOUS
    <3>. QED  BY <2>1, <3>1, <3>2 DEF DeliveredInv
  <2>. QED  BY <2>1, <2>2 DEF Init, Service!Init
<1>. QED  BY <1>1, Invariance, StepServes, PTL DEF Spec, Service!Spec
=============================================================================
