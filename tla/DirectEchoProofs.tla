-------------------------- MODULE DirectEchoProofs --------------------------
(***************************************************************************)
(* Theorems about DirectEcho, for every queue limit, every number of       *)
(* messages in a read and every number of requests: requests are answered  *)
(* in order or discarded, and a peer that leaves no more of them           *)
(* unanswered than the queue's limit loses none.                           *)
(***************************************************************************)
EXTENDS DirectEcho, SequenceTheorems, FiniteSetTheorems, TLAPS

\* _data has messages in it from the read's completion to the loop's end, and
\* the session reads again only after that.
ReadShape ==
  /\ looping => read = "none"
  /\ chunk # <<>> <=> looping \/ read = "data"

\* A write is about the node in front.
WriteShape == writing # "none" => send_que # <<>>

\* Stated for all pairs: from neighbours to pairs it would take an induction.
Increasing(s) == \A i, j \in 1 .. Len(s) : i < j => s[i] < s[j]

\* EchoedInOrder, with what the next request rests on: all numbers are those of
\* requests sent.
OrderInv ==
  /\ Increasing(Pipeline)
  /\ \A i \in 1 .. Len(Pipeline) : Pipeline[i] \in 1 .. sent /\ Pipeline[i] \notin lost
  /\ lost \subseteq 1 .. sent
  /\ Len(Pipeline) + Cardinality(lost) = sent

\* The peer keeps to its window.
WindowInv == sent <= Len(replies) + window

\* The inductive invariant.
IInv == TypeOK /\ ReadShape /\ WriteShape /\ OrderInv /\ WindowInv /\ NothingDiscarded

-----------------------------------------------------------------------------
(* Sequences of requests. *)

\* Taking the head of a sequence out and putting it in front again.
LEMMA HeadAndTail ==
  ASSUME NEW S, NEW q \in Seq(S), q # <<>>
  PROVE  /\ Head(q) \in S /\ Tail(q) \in Seq(S) /\ <<Head(q)>> \in Seq(S)
         /\ Len(q) \in Nat \ {0} /\ Len(Tail(q)) = Len(q) - 1
         /\ q = <<Head(q)>> \o Tail(q)
<1>1. Len(q) \in Nat \ {0}
  BY EmptySeq
<1>2. Head(q) \in S /\ Tail(q) \in Seq(S) /\ Len(Tail(q)) = Len(q) - 1
  BY HeadTailProperties
<1>3. q = SubSeq(q, 1, Len(q)) /\ Tail(q) = SubSeq(q, 2, Len(q))
  BY SubSeqFull, TailIsSubSeq
<1>4. SubSeq(q, 1, Len(q)) = <<q[1]>> \o SubSeq(q, 1 + 1, Len(q))
  BY <1>1, SubSeqRecursiveFirst
<1>5. Head(q) = q[1] /\ 1 + 1 = 2
  OBVIOUS
<1>6. <<Head(q)>> \in Seq(S)
  BY <1>2
<1>. QED  BY <1>1, <1>2, <1>3, <1>4, <1>5, <1>6

\* t is s with one element less, which is m.
LacksOne(t, s, m) ==
  /\ Increasing(t) /\ Len(t) + 1 = Len(s)
  /\ \A i \in 1 .. Len(t) : t[i] # m /\ \E j \in 1 .. Len(s) : t[i] = s[j]
  /\ \E j \in 1 .. Len(s) : m = s[j]

\* Without one of its elements an increasing sequence still increases, and the
\* element is not in it any more.
LEMMA RemoveOne ==
  ASSUME NEW a \in Seq(Nat), NEW m \in Nat, NEW b \in Seq(Nat),
         Increasing(a \o (<<m>> \o b))
  PROVE  LacksOne(a \o b, a \o (<<m>> \o b), m)
<1> DEFINE r == <<m>> \o b
           s == a \o r
           t == a \o b
           k == Len(a)
           n == Len(b)
<1>0. Increasing(s) /\ a \in Seq(Nat) /\ b \in Seq(Nat)
  OBVIOUS
<1>1. k \in Nat /\ n \in Nat /\ <<m>> \in Seq(Nat) /\ Len(<<m>>) = 1 /\ <<m>>[1] = m
  OBVIOUS
<1>2. /\ r \in Seq(Nat) /\ Len(r) = n + 1
      /\ \A i \in 1 .. n + 1 : r[i] = IF i <= 1 THEN m ELSE b[i - 1]
  <2>1. /\ r \in Seq(Nat) /\ Len(r) = 1 + n
        /\ \A i \in 1 .. 1 + n : r[i] = IF i <= 1 THEN <<m>>[i] ELSE b[i - 1]
    BY <1>1, ConcatProperties
  <2>. QED  BY <1>1, <2>1
<1> HIDE DEF r
<1>3. /\ s \in Seq(Nat) /\ Len(s) = k + (n + 1)
      /\ \A i \in 1 .. k + (n + 1) : s[i] = IF i <= k THEN a[i] ELSE r[i - k]
  <2>1. /\ s \in Seq(Nat) /\ Len(s) = k + Len(r)
        /\ \A i \in 1 .. k + Len(r) : s[i] = IF i <= k THEN a[i] ELSE r[i - k]
    BY <1>2, ConcatProperties
  <2>. QED  BY <1>2, <2>1
<1>4. /\ t \in Seq(Nat) /\ Len(t) = k + n
      /\ \A i \in 1 .. k + n : t[i] = IF i <= k THEN a[i] ELSE b[i - k]
  BY ConcatProperties
<1> HIDE DEF s, t, k, n
<1>5. s[k + 1] = m
  BY <1>1, <1>2, <1>3
<1>6. ASSUME NEW i \in 1 .. k + n
      PROVE  t[i] = IF i <= k THEN s[i] ELSE s[i + 1]
  <2>1. CASE i <= k
    <3>1. i \in 1 .. k + (n + 1)
      BY <1>1
    <3>. QED  BY <1>3, <1>4, <2>1, <3>1
  <2>2. CASE i > k
    <3>1. t[i] = b[i - k]
      BY <1>1, <1>4, <2>2
    <3>2. s[i + 1] = r[i - k + 1] /\ i - k + 1 \in 1 .. n + 1 /\ i - k + 1 > 1
      <4>1. i + 1 \in 1 .. k + (n + 1) /\ ~(i + 1 <= k) /\ (i + 1) - k = i - k + 1
        BY <1>1, <2>2
      <4>. QED  BY <1>1, <1>3, <2>2, <4>1
    <3>3. r[i - k + 1] = b[i - k]
      <4>1. (i - k + 1) - 1 = i - k /\ ~(i - k + 1 <= 1)
        BY <1>1, <2>2
      <4>. QED  BY <1>2, <3>2, <4>1
    <3>. QED  BY <1>1, <2>2, <3>1, <3>2, <3>3
  <2>. QED  BY <1>1, <2>1, <2>2
<1>7. ASSUME NEW i \in 1 .. k + n, NEW j \in 1 .. k + n, i < j
      PROVE  t[i] < t[j]
  <2> DEFINE p == IF i <= k THEN i ELSE i + 1
             q == IF j <= k THEN j ELSE j + 1
  <2>1. t[i] = s[p] /\ t[j] = s[q]
    BY <1>1, <1>6
  <2>2. p \in 1 .. Len(s) /\ q \in 1 .. Len(s) /\ p < q
    <3>1. k \in Nat /\ n \in Nat /\ Len(s) = k + (n + 1)
      BY <1>1, <1>3
    <3>. QED  BY <1>7, <3>1
  <2>. QED  BY <1>0, <2>1, <2>2 DEF Increasing
<1>8. ASSUME NEW i \in 1 .. k + n
      PROVE  t[i] # m /\ \E j \in 1 .. Len(s) : t[i] = s[j]
  <2> DEFINE p == IF i <= k THEN i ELSE i + 1
  <2>1. t[i] = s[p]
    BY <1>1, <1>6
  <2>2. p \in 1 .. Len(s) /\ k + 1 \in 1 .. Len(s) /\ (p < k + 1 \/ k + 1 < p)
    <3>1. k \in Nat /\ n \in Nat /\ Len(s) = k + (n + 1)
      BY <1>1, <1>3
    <3>2. CASE i <= k
      BY <3>1, <3>2
    <3>3. CASE ~(i <= k)
      BY <3>1, <3>3
    <3>. QED  BY <3>1, <3>2, <3>3
  <2>3. s[p] \in Nat /\ s[k + 1] \in Nat
    BY <1>3, <2>2, ElementOfSeq
  <2>4. s[p] < s[k + 1] \/ s[k + 1] < s[p]
    BY <1>0, <2>2 DEF Increasing
  <2>. QED  BY <1>5, <2>1, <2>2, <2>3, <2>4
<1>9. k + 1 \in 1 .. Len(s)
  BY <1>1, <1>3
<1>10. Increasing(t) /\ Len(t) + 1 = Len(s)
  BY <1>1, <1>3, <1>4, <1>7 DEF Increasing
<1>11. \A i \in 1 .. Len(t) : t[i] # m /\ \E j \in 1 .. Len(s) : t[i] = s[j]
  BY <1>4, <1>8
<1>12. s = a \o (<<m>> \o b) /\ t = a \o b
  BY DEF r, s, t
<1>13. \E j \in 1 .. Len(s) : m = s[j]
  BY <1>5, <1>9
<1>. QED  BY <1>10, <1>11, <1>12, <1>13 DEF LacksOne

-----------------------------------------------------------------------------
(* What the invariant says of the numbers and of the parts of the pipeline. *)

LEMMA Facts ==
  ASSUME TypeOK, WriteShape
  PROVE  /\ MAX_SENDQUEUE \in Nat /\ MaxFrames \in Nat /\ window \in Nat /\ sent \in Nat
         /\ Frames \subseteq Nat
         /\ Unsent \in Seq(Frames) /\ Pipeline \in Seq(Frames)
         /\ Len(replies) \in Nat /\ Len(send_que) \in Nat /\ Len(chunk) \in Nat
         /\ Len(Unsent) \in Nat /\ Len(toServer) \in Nat
         /\ Len(Pipeline) = Len(replies) + Len(Unsent) + Len(chunk) + Len(toServer)
         /\ Len(send_que) <= Len(Unsent) + 1
<1>1. /\ MAX_SENDQUEUE \in Nat /\ MaxFrames \in Nat /\ window \in Nat /\ sent \in Nat
  BY DirectAssumption DEF TypeOK
<1>2. Frames \subseteq Nat
  BY <1>1 DEF Frames
<1>3. /\ replies \in Seq(Frames) /\ send_que \in Seq(Frames)
      /\ chunk \in Seq(Frames) /\ toServer \in Seq(Frames)
  BY DEF TypeOK
<1>4. /\ Unsent \in Seq(Frames) /\ Len(send_que) <= Len(Unsent) + 1
  <2>1. CASE writing = "done"
    <3>1. send_que # <<>> /\ Unsent = Tail(send_que)
      BY <2>1 DEF WriteShape, Unsent
    <3>. QED  BY <1>3, <3>1, HeadAndTail
  <2>2. CASE writing # "done"
    BY <1>3, <2>2, LenProperties DEF Unsent
  <2>. QED  BY <2>1, <2>2
<1>5. /\ replies \o Unsent \in Seq(Frames)
      /\ Len(replies \o Unsent) = Len(replies) + Len(Unsent)
  BY <1>3, <1>4, ConcatProperties
<1>6. /\ replies \o Unsent \o chunk \in Seq(Frames)
      /\ Len(replies \o Unsent \o chunk) = Len(replies \o Unsent) + Len(chunk)
  BY <1>3, <1>5, ConcatProperties
<1>7. /\ Pipeline \in Seq(Frames)
      /\ Len(Pipeline) = Len(replies \o Unsent \o chunk) + Len(toServer)
  BY <1>3, <1>6, ConcatProperties DEF Pipeline
<1>8. /\ Len(replies) \in Nat /\ Len(send_que) \in Nat /\ Len(chunk) \in Nat
      /\ Len(Unsent) \in Nat /\ Len(toServer) \in Nat
  BY <1>3, <1>4, LenProperties
<1>. QED  BY <1>1, <1>2, <1>4, <1>5, <1>6, <1>7, <1>8

\* A step that moves messages along the pipeline keeps the order.
LEMMA Moves ==
  ASSUME IInv, Pipeline' = Pipeline, UNCHANGED <<window, sent, lost>>,
         Len(replies') \in Nat, Len(replies) <= Len(replies')
  PROVE  OrderInv' /\ WindowInv' /\ NothingDiscarded'
<1>1. OrderInv'
  BY DEF IInv, OrderInv, Increasing
<1>2. WindowInv'
  BY Facts DEF IInv, WindowInv
<1>3. NothingDiscarded'
  BY DEF IInv, NothingDiscarded
<1>. QED  BY <1>1, <1>2, <1>3

\* A step that leaves the messages where they are.
LEMMA Rests ==
  ASSUME IInv, UNCHANGED <<window, sent, lost, replies, chunk, toServer, send_que>>,
         writing' = writing \/ (writing # "done" /\ writing' # "done")
  PROVE  OrderInv' /\ WindowInv' /\ NothingDiscarded'
<1>1. Unsent' = Unsent
  BY DEF Unsent
<1>2. Pipeline' = Pipeline
  BY <1>1 DEF Pipeline
<1>3. Len(replies) \in Nat
  BY Facts DEF IInv
<1>. QED  BY <1>2, <1>3, Moves

-----------------------------------------------------------------------------
(* Each action preserves the inductive invariant. *)

LEMMA InitHolds == Init => IInv
<1> SUFFICES ASSUME Init PROVE IInv
  OBVIOUS
<1> USE DEF Init
<1>1. TypeOK
  <2>1. looping \in BOOLEAN /\ registered \in BOOLEAN
    OBVIOUS
  <2>2. window \in 1 .. MaxFrames /\ sent \in 0 .. MaxFrames /\ Len(send_que) <= MAX_SENDQUEUE + 1
    BY DirectAssumption
  <2>3. lost \subseteq Frames
    OBVIOUS
  <2>. QED  BY <2>1, <2>2, <2>3 DEF TypeOK
<1>2. ReadShape /\ WriteShape /\ NothingDiscarded
  BY DEF ReadShape, WriteShape, NothingDiscarded
<1>3. Pipeline = <<>>
  BY DEF Pipeline, Unsent
<1>4. OrderInv
  BY <1>3, FS_EmptySet DEF OrderInv, Increasing
<1>5. WindowInv
  BY DirectAssumption DEF WindowInv
<1>. QED  BY <1>1, <1>2, <1>4, <1>5 DEF IInv

\* The peer's next request comes after all the others.
LEMMA PeerSendsHolds ==
  ASSUME IInv, PeerSends
  PROVE  IInv'
<1> DEFINE n == sent + 1
           q == Pipeline
<1>1. /\ sent < MaxFrames /\ sent < Len(replies) + window
      /\ sent' = n /\ toServer' = Append(toServer, n)
      /\ UNCHANGED <<window, read, looping, chunk, send_que, writing, replies, lost,
                     socket, registered>>
  BY DEF PeerSends, readVars, writeVars, connVars
<1>2. n \in Frames /\ n \in 0 .. MaxFrames
  BY <1>1, Facts DEF IInv, TypeOK, Frames
<1>3. toServer' \in Seq(Frames)
  BY <1>1, <1>2, AppendProperties DEF IInv, TypeOK
<1>4. Unsent' = Unsent
  BY <1>1 DEF Unsent
<1>5. Pipeline' = Append(q, n)
  <2> DEFINE p == replies \o Unsent \o chunk
  <2>1. p \in Seq(Frames)
    <3>1. /\ replies \in Seq(Frames) /\ Unsent \in Seq(Frames) /\ chunk \in Seq(Frames)
      BY Facts DEF IInv, TypeOK
    <3>. QED  BY <3>1, ConcatProperties
  <2>2. q = p \o toServer /\ Pipeline' = p \o Append(toServer, n)
    BY <1>1, <1>4 DEF Pipeline
  <2> HIDE DEF p
  <2>3. toServer \in Seq(Frames) /\ <<n>> \in Seq(Frames)
    BY <1>2 DEF IInv, TypeOK
  <2>4. Append(toServer, n) = toServer \o <<n>>
    BY <1>2, <2>3, AppendIsConcat
  <2>5. p \o (toServer \o <<n>>) = (p \o toServer) \o <<n>>
    BY <2>1, <2>3, ConcatAssociative
  <2>6. q \in Seq(Frames)
    BY Facts DEF IInv
  <2>7. Append(q, n) = q \o <<n>>
    BY <1>2, <2>6, AppendIsConcat
  <2>. QED  BY <2>2, <2>4, <2>5, <2>7
<1>6. /\ q \in Seq(Frames) /\ Len(q) \in Nat /\ sent \in Nat /\ Len(replies) \in Nat
      /\ window \in Nat
  BY Facts DEF IInv
<1> HIDE DEF q
<1>7. /\ Len(Pipeline') = Len(q) + 1 /\ Pipeline'[Len(q) + 1] = n
      /\ \A i \in 1 .. Len(q) : Pipeline'[i] = q[i]
  BY <1>2, <1>5, <1>6, AppendProperties
<1>8. OrderInv'
  <2>1. /\ \A i \in 1 .. Len(q) : q[i] \in 1 .. sent /\ q[i] \notin lost
        /\ lost \subseteq 1 .. sent /\ Increasing(q) /\ Len(q) + Cardinality(lost) = sent
    BY DEF IInv, OrderInv, q
  <2>2. Increasing(Pipeline')
    <3>1. ASSUME NEW i \in 1 .. Len(q) + 1, NEW j \in 1 .. Len(q) + 1, i < j
          PROVE  Pipeline'[i] < Pipeline'[j]
      <4>1. i \in 1 .. Len(q)
        BY <1>6, <3>1
      <4>2. CASE j = Len(q) + 1
        BY <1>6, <1>7, <2>1, <4>1, <4>2
      <4>3. CASE j \in 1 .. Len(q)
        BY <1>7, <2>1, <3>1, <4>1, <4>3 DEF Increasing
      <4>. QED  BY <1>6, <4>2, <4>3
    <3>. QED  BY <1>7, <3>1 DEF Increasing
  <2>3. ASSUME NEW i \in 1 .. Len(q) + 1
        PROVE  Pipeline'[i] \in 1 .. n /\ Pipeline'[i] \notin lost
    <3>1. CASE i = Len(q) + 1
      BY <1>6, <1>7, <2>1, <3>1
    <3>2. CASE i \in 1 .. Len(q)
      BY <1>6, <1>7, <2>1, <3>2
    <3>. QED  BY <1>6, <3>1, <3>2
  <2>4. lost \subseteq 1 .. n
    BY <1>6, <2>1
  <2>5. Len(q) + 1 + Cardinality(lost) = n
    <3>1. IsFiniteSet(lost)
      <4>1. IsFiniteSet(1 .. sent)
        BY <1>6, FS_Interval
      <4>. QED  BY <2>1, <4>1, FS_Subset
    <3>2. Cardinality(lost) \in Nat
      BY <3>1, FS_CardinalityType
    <3>. QED  BY <1>6, <2>1, <3>2
  <2>. QED  BY <1>1, <1>7, <2>2, <2>3, <2>4, <2>5 DEF OrderInv
<1>9. WindowInv' /\ NothingDiscarded'
  BY <1>1, <1>6 DEF IInv, WindowInv, NothingDiscarded
<1>10. TypeOK'
  <2>1. looping' \in BOOLEAN /\ registered' \in BOOLEAN
    BY <1>1 DEF IInv, TypeOK
  <2>. QED  BY <1>1, <1>2, <1>3, <2>1 DEF IInv, TypeOK
<1>11. ReadShape' /\ WriteShape'
  BY <1>1 DEF IInv, ReadShape, WriteShape
<1>. QED  BY <1>8, <1>9, <1>10, <1>11 DEF IInv

LEMMA ConnectionFailsHolds ==
  ASSUME IInv, ConnectionFails
  PROVE  IInv'
<1>1. /\ socket' = "broken"
      /\ UNCHANGED <<window, sent, toServer, read, looping, chunk, send_que, writing,
                     replies, lost, registered>>
  BY DEF ConnectionFails, peerVars, readVars, writeVars
<1>2. OrderInv' /\ WindowInv' /\ NothingDiscarded'
  <2>1. writing' = writing \/ (writing # "done" /\ writing' # "done")
    BY <1>1
  <2>2. UNCHANGED <<window, sent, lost, replies, chunk, toServer, send_que>>
    BY <1>1
  <2>. QED  BY <2>1, <2>2, Rests
<1>3. TypeOK'
  <2>1. looping' \in BOOLEAN /\ registered' \in BOOLEAN
    BY <1>1 DEF IInv, TypeOK
  <2>. QED  BY <1>1, <2>1 DEF IInv, TypeOK
<1>4. ReadShape' /\ WriteShape'
  BY <1>1 DEF IInv, ReadShape, WriteShape
<1>. QED  BY <1>2, <1>3, <1>4 DEF IInv

\* What a read takes out of the connection it puts into _data, which was empty.
LEMMA ReadSomeHolds ==
  ASSUME IInv, NEW n \in 1 .. PerRead, ReadSome(n)
  PROVE  IInv'
<1>1. /\ read = "armed" /\ n <= Len(toServer) /\ read' = "data"
      /\ chunk' = SubSeq(toServer, 1, n)
      /\ toServer' = SubSeq(toServer, n + 1, Len(toServer))
      /\ UNCHANGED <<window, sent, looping, send_que, writing, replies, lost, socket,
                     registered>>
  BY DEF ReadSome, writeVars, connVars
<1>2. n \in Nat \ {0} /\ Len(toServer) \in Nat /\ toServer \in Seq(Frames)
  <2>1. n \in Nat \ {0}
    BY DirectAssumption
  <2>. QED  BY <2>1, Facts DEF IInv, TypeOK
<1>3. /\ chunk' \in Seq(Frames) /\ toServer' \in Seq(Frames) /\ Len(chunk') = n
  <2>1. \A i \in 1 .. n : toServer[i] \in Frames
    BY <1>1, <1>2
  <2>2. \A i \in n + 1 .. Len(toServer) : toServer[i] \in Frames
    BY <1>1, <1>2
  <2>3. /\ SubSeq(toServer, 1, n) \in Seq(Frames)
        /\ Len(SubSeq(toServer, 1, n)) = IF 1 <= n THEN n - 1 + 1 ELSE 0
    BY <1>2, <2>1, SubSeqProperties
  <2>4. SubSeq(toServer, n + 1, Len(toServer)) \in Seq(Frames)
    BY <1>2, <2>2, SubSeqProperties
  <2>. QED  BY <1>1, <1>2, <2>3, <2>4
<1>4. chunk' \o toServer' = toServer
  <2>1. 1 \in 1 .. Len(toServer) + 1 /\ n \in 1 - 1 .. Len(toServer) /\ Len(toServer) \in n .. Len(toServer)
    BY <1>1, <1>2
  <2>2. SubSeq(toServer, 1, n) \o SubSeq(toServer, n + 1, Len(toServer))
          = SubSeq(toServer, 1, Len(toServer))
    BY <1>2, <2>1, ConcatAdjacentSubSeq
  <2>. QED  BY <1>1, <1>2, <2>2, SubSeqFull
<1>5. chunk = <<>> /\ looping = FALSE
  <2>1. looping \in BOOLEAN
    BY DEF IInv, TypeOK
  <2>. QED  BY <1>1, <2>1 DEF IInv, ReadShape
<1>6. Unsent' = Unsent
  BY <1>1 DEF Unsent
<1>7. Pipeline' = Pipeline
  <2> DEFINE p == replies \o Unsent
  <2>1. p \in Seq(Frames)
    BY Facts, ConcatProperties DEF IInv, TypeOK
  <2>2. Pipeline = p \o chunk \o toServer /\ Pipeline' = p \o chunk' \o toServer'
    BY <1>1, <1>6 DEF Pipeline
  <2> HIDE DEF p
  <2>3. p \o chunk = p
    BY <1>5, <2>1, ConcatEmptySeq
  <2>4. p \o chunk' \o toServer' = p \o (chunk' \o toServer')
    BY <1>3, <2>1, ConcatAssociative
  <2>. QED  BY <1>4, <2>2, <2>3, <2>4
<1>8. OrderInv' /\ WindowInv' /\ NothingDiscarded'
  <2>1. Len(replies) \in Nat
    BY Facts DEF IInv
  <2>. QED  BY <1>1, <1>7, <2>1, Moves
<1>9. TypeOK'
  <2>1. looping' \in BOOLEAN /\ registered' \in BOOLEAN
    BY <1>1 DEF IInv, TypeOK
  <2>. QED  BY <1>1, <1>3, <2>1 DEF IInv, TypeOK
<1>10. ReadShape' /\ WriteShape'
  <2>1. chunk' # <<>>
    BY <1>2, <1>3, EmptySeq
  <2>. QED  BY <1>1, <1>5, <2>1 DEF IInv, ReadShape, WriteShape
<1>. QED  BY <1>8, <1>9, <1>10 DEF IInv

\* The failure of the read or of the write: nothing moves.
LEMMA FailureHolds ==
  ASSUME IInv, ReadFails \/ WriteFails
  PROVE  IInv'
<1>1. /\ UNCHANGED <<window, sent, toServer, looping, chunk, send_que, replies, lost,
                     socket, registered>>
      /\ \/ read = "armed" /\ read' = "error" /\ writing' = writing
         \/ read' = read /\ writing = "active" /\ writing' = "failed"
  BY DEF ReadFails, WriteFails, peerVars, readVars, writeVars, connVars
<1>2. OrderInv' /\ WindowInv' /\ NothingDiscarded'
  <2>1. writing' = writing \/ (writing # "done" /\ writing' # "done")
    BY <1>1
  <2>2. UNCHANGED <<window, sent, lost, replies, chunk, toServer, send_que>>
    BY <1>1
  <2>. QED  BY <2>1, <2>2, Rests
<1>3. TypeOK'
  <2>1. looping' \in BOOLEAN /\ registered' \in BOOLEAN
    BY <1>1 DEF IInv, TypeOK
  <2>. QED  BY <1>1, <2>1 DEF IInv, TypeOK
<1>4. ReadShape' /\ WriteShape'
  BY <1>1 DEF IInv, ReadShape, WriteShape
<1>. QED  BY <1>2, <1>3, <1>4 DEF IInv

\* The node in front goes out: its number moves to the end of the answers.
LEMMA WriteCompletesHolds ==
  ASSUME IInv, WriteCompletes
  PROVE  IInv'
<1> DEFINE m == Head(send_que)
<1>1. /\ writing = "active" /\ writing' = "done"
      /\ replies' = Append(replies, m)
      /\ UNCHANGED <<window, sent, toServer, read, looping, chunk, send_que, lost, socket,
                     registered>>
  BY DEF WriteCompletes, peerVars, readVars, connVars
<1>2. /\ send_que # <<>> /\ send_que \in Seq(Frames) /\ replies \in Seq(Frames)
  BY <1>1 DEF IInv, WriteShape, TypeOK
<1>3. /\ m \in Frames /\ Tail(send_que) \in Seq(Frames) /\ <<m>> \in Seq(Frames)
      /\ send_que = <<m>> \o Tail(send_que)
  BY <1>2, HeadAndTail
<1> HIDE DEF m
<1>4. /\ replies' \in Seq(Frames) /\ Len(replies') = Len(replies) + 1
      /\ replies' = replies \o <<m>>
  BY <1>1, <1>2, <1>3, AppendProperties, AppendIsConcat
<1>5. Unsent = send_que /\ Unsent' = Tail(send_que)
  BY <1>1 DEF Unsent
<1>6. replies' \o Unsent' = replies \o Unsent
  <2>1. (replies \o <<m>>) \o Tail(send_que) = replies \o (<<m>> \o Tail(send_que))
    BY <1>2, <1>3, ConcatAssociative
  <2>. QED  BY <1>3, <1>4, <1>5, <2>1
<1>7. Pipeline' = Pipeline
  BY <1>1, <1>6 DEF Pipeline
<1>8. OrderInv' /\ WindowInv' /\ NothingDiscarded'
  <2>1. Len(replies) \in Nat
    BY Facts DEF IInv
  <2>2. Len(replies') \in Nat /\ Len(replies) <= Len(replies')
    BY <1>4, <2>1
  <2>. QED  BY <1>1, <1>7, <2>2, Moves
<1>9. TypeOK'
  <2>1. looping' \in BOOLEAN /\ registered' \in BOOLEAN
    BY <1>1 DEF IInv, TypeOK
  <2>. QED  BY <1>1, <1>4, <2>1 DEF IInv, TypeOK
<1>10. ReadShape' /\ WriteShape'
  BY <1>1, <1>2 DEF IInv, ReadShape, WriteShape
<1>. QED  BY <1>8, <1>9, <1>10 DEF IInv

\* HandleRead, and the two error branches: nothing moves.
LEMMA HandlerHolds ==
  ASSUME IInv, HandleRead \/ HandleReadError \/ HandleWriteError
  PROVE  IInv'
<1>1. /\ UNCHANGED <<window, sent, toServer, chunk, send_que, replies, lost>>
      /\ socket' \in {socket, "closed"} /\ registered' \in {registered, FALSE}
      /\ \/ looping = FALSE /\ read = "data" /\ looping' = TRUE /\ read' = "none" /\ writing' = writing
         \/ looping = FALSE /\ read = "error" /\ looping' = looping /\ read' = "none" /\ writing' = writing
         \/ looping' = looping /\ read' = read /\ writing = "failed" /\ writing' = "none"
  <2>1. looping \in BOOLEAN
    BY DEF IInv, TypeOK
  <2>. QED  BY <2>1 DEF HandleRead, HandleReadError, HandleWriteError, Close, peerVars,
                        readVars, writeVars, connVars
<1>2. OrderInv' /\ WindowInv' /\ NothingDiscarded'
  <2>1. writing' = writing \/ (writing # "done" /\ writing' # "done")
    BY <1>1
  <2>2. UNCHANGED <<window, sent, lost, replies, chunk, toServer, send_que>>
    BY <1>1
  <2>. QED  BY <2>1, <2>2, Rests
<1>3. TypeOK'
  <2>1. looping' \in BOOLEAN /\ registered' \in BOOLEAN
    BY <1>1 DEF IInv, TypeOK
  <2>. QED  BY <1>1, <2>1 DEF IInv, TypeOK
<1>4. ReadShape' /\ WriteShape'
  BY <1>1 DEF IInv, ReadShape, WriteShape
<1>. QED  BY <1>2, <1>3, <1>4 DEF IInv

\* HandleWrite takes the node off the queue that the peer has got.
LEMMA HandleWriteHolds ==
  ASSUME IInv, HandleWrite
  PROVE  IInv'
<1>1. /\ writing = "done" /\ send_que' = Tail(send_que)
      /\ writing' = IF Len(send_que) > 1 THEN "active" ELSE "none"
      /\ UNCHANGED <<window, sent, toServer, read, looping, chunk, replies, lost, socket,
                     registered>>
  BY DEF HandleWrite, peerVars, readVars, connVars
<1>2. /\ send_que # <<>> /\ send_que \in Seq(Frames)
      /\ MAX_SENDQUEUE \in Nat /\ Len(send_que) <= MAX_SENDQUEUE + 1
  BY <1>1, DirectAssumption DEF IInv, WriteShape, TypeOK
<1>3. /\ send_que' \in Seq(Frames) /\ Len(send_que') = Len(send_que) - 1
      /\ Len(send_que) \in Nat \ {0}
  BY <1>1, <1>2, HeadAndTail
<1>4. Pipeline' = Pipeline
  <2>1. Unsent' = Unsent
    BY <1>1 DEF Unsent
  <2>. QED  BY <1>1, <2>1 DEF Pipeline
<1>5. OrderInv' /\ WindowInv' /\ NothingDiscarded'
  <2>1. Len(replies) \in Nat
    BY Facts DEF IInv
  <2>. QED  BY <1>1, <1>4, <2>1, Moves
<1>6. TypeOK'
  <2>1. looping' \in BOOLEAN /\ registered' \in BOOLEAN
    BY <1>1 DEF IInv, TypeOK
  <2>2. Len(send_que') <= MAX_SENDQUEUE + 1
    BY <1>2, <1>3
  <2>. QED  BY <1>1, <1>3, <2>1, <2>2 DEF IInv, TypeOK
<1>7. ReadShape' /\ WriteShape'
  <2>1. writing' # "none" => send_que' # <<>>
    <3> DEFINE k == Len(send_que)
    <3>1. writing' # "none" => k > 1
      BY <1>1
    <3>2. send_que' = <<>> => Len(send_que') = 0
      OBVIOUS
    <3>3. Len(send_que') = k - 1 /\ k \in Nat
      BY <1>3
    <3> HIDE DEF k
    <3>. QED  BY <3>1, <3>2, <3>3
  <2>. QED  BY <1>1, <2>1 DEF IInv, ReadShape, WriteShape
<1>. QED  BY <1>5, <1>6, <1>7 DEF IInv

\* Send queues the message: it stays at its place in the pipeline.
LEMMA SendQueues ==
  ASSUME IInv, NEW m \in Frames, Len(send_que) <= MAX_SENDQUEUE, Send(m)
  PROVE  /\ send_que' \in Seq(Frames) /\ Len(send_que') <= MAX_SENDQUEUE + 1
         /\ send_que' # <<>> /\ writing' \in {writing, "active"}
         /\ Unsent' = Unsent \o <<m>> /\ lost' = lost
<1>1. MAX_SENDQUEUE \in Nat /\ send_que \in Seq(Frames) /\ Len(send_que) \in Nat
  BY Facts DEF IInv, TypeOK
<1>2. /\ send_que' = Append(send_que, m) /\ lost' = lost
      /\ writing' = IF send_que = <<>> THEN "active" ELSE writing
  BY <1>1 DEF Send
<1>3. /\ send_que' \in Seq(Frames) /\ Len(send_que') = Len(send_que) + 1 /\ send_que' # <<>>
      /\ send_que' = send_que \o <<m>>
  BY <1>1, <1>2, AppendProperties, AppendIsConcat
<1>4. Unsent' = Unsent \o <<m>>
  <2>1. CASE writing = "done"
    <3>1. send_que # <<>>
      BY <2>1 DEF IInv, WriteShape
    <3>2. Tail(Append(send_que, m)) = Append(Tail(send_que), m)
      BY <1>1, <3>1, HeadTailAppend
    <3>3. Append(Tail(send_que), m) = Tail(send_que) \o <<m>>
      BY <1>1, <3>1, HeadAndTail, AppendIsConcat
    <3>. QED  BY <1>2, <2>1, <3>1, <3>2, <3>3 DEF Unsent
  <2>2. CASE writing # "done"
    BY <1>2, <1>3, <2>2 DEF Unsent
  <2>. QED  BY <2>1, <2>2
<1>5. Len(send_que') <= MAX_SENDQUEUE + 1
  BY <1>1, <1>3
<1>. QED  BY <1>2, <1>3, <1>4, <1>5

\* With the window kept, Send finds room: what it has not sent and what is left
\* of the chunk are answers the peer still waits for.
LEMMA RoomForWindow ==
  ASSUME IInv, chunk # <<>>, window <= MAX_SENDQUEUE
  PROVE  Len(send_que) <= MAX_SENDQUEUE
<1> DEFINE r == Len(replies)
           u == Len(Unsent)
           c == Len(chunk)
           t == Len(toServer)
           q == Len(send_que)
<1>1. Len(Pipeline) + 0 = sent
  BY FS_EmptySet DEF IInv, NothingDiscarded, OrderInv
<1>2. /\ r \in Nat /\ u \in Nat /\ c \in Nat /\ t \in Nat /\ q \in Nat
      /\ window \in Nat /\ MAX_SENDQUEUE \in Nat /\ sent \in Nat
      /\ Len(Pipeline) = r + u + c + t /\ q <= u + 1
  BY Facts DEF IInv
<1>3. c > 0
  BY <1>2, EmptySeq DEF IInv, TypeOK
<1>4. sent <= r + window
  BY DEF IInv, WindowInv
<1> HIDE DEF r, u, c, t, q
<1>5. q <= MAX_SENDQUEUE
  BY <1>1, <1>2, <1>3, <1>4
<1>. QED  BY <1>5 DEF q

\* One round of HandleRead's loop: the message goes to the queue, or is lost.
LEMMA IterateHolds ==
  ASSUME IInv, Iterate
  PROVE  IInv'
<1> DEFINE m == Head(chunk)
           front == replies \o Unsent
           back == Tail(chunk) \o toServer
<1>1. /\ looping /\ Send(m) /\ chunk' = Tail(chunk)
      /\ looping' = (Len(chunk) > 1)
      /\ read' = IF Len(chunk) > 1 THEN read ELSE "armed"
      /\ UNCHANGED <<window, sent, toServer, replies, socket, registered>>
  BY DEF Iterate, peerVars, connVars
<1>2. /\ chunk # <<>> /\ chunk \in Seq(Frames) /\ read = "none"
      /\ toServer \in Seq(Frames) /\ replies \in Seq(Frames) /\ Unsent \in Seq(Frames)
  BY <1>1, Facts DEF IInv, ReadShape, TypeOK
<1>3. /\ m \in Frames /\ <<m>> \in Seq(Frames) /\ Tail(chunk) \in Seq(Frames)
      /\ Len(chunk) \in Nat \ {0} /\ Len(Tail(chunk)) = Len(chunk) - 1
      /\ chunk = <<m>> \o Tail(chunk)
  BY <1>2, HeadAndTail
<1> HIDE DEF m
<1>4. front \in Seq(Frames) /\ back \in Seq(Frames)
  BY <1>2, <1>3, ConcatProperties
<1>5. Pipeline = front \o (<<m>> \o back)
  <2>1. Pipeline = (front \o (<<m>> \o Tail(chunk))) \o toServer
    BY <1>3 DEF Pipeline
  <2> DEFINE x == <<m>> \o Tail(chunk)
  <2>2. x \in Seq(Frames) /\ front \in Seq(Frames) /\ toServer \in Seq(Frames)
    BY <1>2, <1>3, <1>4, ConcatProperties
  <2>3. x \o toServer = <<m>> \o back
    BY <1>2, <1>3, ConcatAssociative
  <2> HIDE DEF front, back, x
  <2>4. (front \o x) \o toServer = front \o (x \o toServer)
    BY <2>2, ConcatAssociative
  <2>. QED  BY <2>1, <2>3, <2>4 DEF x
<1>6. ReadShape'
  <2>1. chunk' # <<>> <=> Len(chunk) > 1
    <3> DEFINE k == Len(chunk)
    <3>1. chunk' = <<>> => k - 1 = 0
      BY <1>1, <1>3
    <3>2. k - 1 = 0 => chunk' = <<>>
      BY <1>1, <1>3, EmptySeq
    <3>3. k \in Nat \ {0}
      BY <1>3
    <3> HIDE DEF k
    <3>4. chunk' # <<>> <=> k > 1
      BY <3>1, <3>2, <3>3
    <3>. QED  BY <3>4 DEF k
  <2>. QED  BY <1>1, <1>2, <2>1 DEF ReadShape
<1>7. Len(replies) \in Nat /\ Len(send_que) \in Nat /\ MAX_SENDQUEUE \in Nat
  BY Facts DEF IInv
<1>8. CASE Len(send_que) <= MAX_SENDQUEUE
  <2>1. /\ send_que' \in Seq(Frames) /\ Len(send_que') <= MAX_SENDQUEUE + 1
        /\ send_que' # <<>> /\ writing' \in {writing, "active"}
        /\ Unsent' = Unsent \o <<m>> /\ lost' = lost
    BY <1>1, <1>3, <1>8, SendQueues
  <2>2. Pipeline' = Pipeline
    <3>1. Pipeline' = ((replies \o (Unsent \o <<m>>)) \o Tail(chunk)) \o toServer
      BY <1>1, <2>1 DEF Pipeline
    <3>2. replies \o (Unsent \o <<m>>) = front \o <<m>>
      BY <1>2, <1>3, ConcatAssociative
    <3> DEFINE x == front \o <<m>>
               y == Tail(chunk)
               z == <<m>>
    <3>3. x \in Seq(Frames) /\ y \in Seq(Frames) /\ toServer \in Seq(Frames)
      BY <1>2, <1>3, <1>4, ConcatProperties
    <3>4. front \in Seq(Frames) /\ z \in Seq(Frames) /\ back \in Seq(Frames)
      BY <1>3, <1>4
    <3> HIDE DEF front, back, x, y, z
    <3>5. (x \o y) \o toServer = x \o (y \o toServer)
      BY <3>3, ConcatAssociative
    <3>6. (front \o z) \o back = front \o (z \o back)
      BY <3>4, ConcatAssociative
    <3>. QED  BY <1>5, <3>1, <3>2, <3>5, <3>6 DEF back, x, y, z
  <2>3. OrderInv' /\ WindowInv' /\ NothingDiscarded'
    <3>1. Len(replies') \in Nat /\ Len(replies) <= Len(replies')
      BY <1>1, <1>7
    <3>. QED  BY <1>1, <2>1, <2>2, <3>1, Moves
  <2>4. TypeOK'
    <3>1. looping' \in BOOLEAN /\ registered' \in BOOLEAN
      BY <1>1 DEF IInv, TypeOK
    <3>2. chunk' \in Seq(Frames) /\ read' \in {"none", "armed"}
      BY <1>1, <1>2, <1>3
    <3>. QED  BY <1>1, <2>1, <3>1, <3>2 DEF IInv, TypeOK
  <2>. QED  BY <1>6, <2>1, <2>3, <2>4 DEF IInv, WriteShape
<1>9. CASE Len(send_que) > MAX_SENDQUEUE
  <2>1. lost' = lost \cup {m} /\ UNCHANGED <<send_que, writing>>
    BY <1>1, <1>9 DEF Send
  <2>2. Pipeline' = front \o back
    <3>1. Unsent' = Unsent
      BY <2>1 DEF Unsent
    <3>2. Pipeline' = (front \o Tail(chunk)) \o toServer
      BY <1>1, <3>1 DEF Pipeline
    <3> DEFINE y == Tail(chunk)
    <3>3. front \in Seq(Frames) /\ y \in Seq(Frames) /\ toServer \in Seq(Frames)
      BY <1>2, <1>3, <1>4
    <3> HIDE DEF front, y
    <3>4. (front \o y) \o toServer = front \o (y \o toServer)
      BY <3>3, ConcatAssociative
    <3>. QED  BY <3>2, <3>4 DEF y
  <2>3. OrderInv'
    <3>1. front \in Seq(Nat) /\ back \in Seq(Nat) /\ m \in Nat
      BY <1>3, <1>4, Facts, SeqMonotonic DEF IInv
    <3> DEFINE p == Pipeline
               q == Pipeline'
    <3>2. /\ Increasing(p) /\ lost \subseteq 1 .. sent /\ Len(p) + Cardinality(lost) = sent
          /\ \A i \in 1 .. Len(p) : p[i] \in 1 .. sent /\ p[i] \notin lost
      BY DEF IInv, OrderInv
    <3>3. /\ Increasing(q) /\ Len(q) + 1 = Len(p)
          /\ \A i \in 1 .. Len(q) : q[i] # m /\ \E j \in 1 .. Len(p) : q[i] = p[j]
          /\ \E j \in 1 .. Len(p) : m = p[j]
      <4>1. p = front \o (<<m>> \o back) /\ q = front \o back
        BY <1>5, <2>2
      <4> HIDE DEF front, back, p, q
      <4>2. Increasing(front \o (<<m>> \o back))
        BY <3>2, <4>1
      <4>3. LacksOne(front \o back, front \o (<<m>> \o back), m)
        BY <3>1, <4>2, RemoveOne
      <4>. QED  BY <4>1, <4>3 DEF LacksOne
    <3>4. Len(p) \in Nat /\ sent \in Nat
      BY Facts DEF IInv
    <3>5. Len(q) \in Nat
      <4>1. q \in Seq(Frames)
        BY <1>4, <2>2, ConcatProperties
      <4>. QED  BY <4>1, LenProperties
    <3>6. sent' = sent
      BY <1>1
    <3> HIDE DEF p, q
    <3>7. m \in 1 .. sent /\ m \notin lost
      BY <3>2, <3>3
    <3>8. Cardinality(lost') = Cardinality(lost) + 1 /\ Cardinality(lost) \in Nat
      <4>1. IsFiniteSet(1 .. sent)
        BY <3>4, FS_Interval
      <4>2. IsFiniteSet(lost)
        BY <3>2, <4>1, FS_Subset
      <4>. QED  BY <2>1, <3>7, <4>2, FS_AddElement, FS_CardinalityType
    <3>9. Len(q) + Cardinality(lost') = sent
      <4> DEFINE k == Len(q)
                 l == Len(p)
                 d == Cardinality(lost)
      <4>1. k + 1 = l /\ l + d = sent /\ k \in Nat /\ l \in Nat /\ d \in Nat
        BY <3>2, <3>3, <3>4, <3>5, <3>8
      <4> HIDE DEF k, l, d
      <4>2. k + (d + 1) = sent
        BY <3>4, <4>1
      <4>. QED  BY <3>8, <4>2 DEF k, d
    <3>10. \A i \in 1 .. Len(q) : q[i] \in 1 .. sent /\ q[i] \notin lost'
      BY <2>1, <3>2, <3>3
    <3>11. lost' \subseteq 1 .. sent
      BY <2>1, <3>2, <3>7
    <3>. QED  BY <3>3, <3>6, <3>9, <3>10, <3>11 DEF OrderInv, q
  <2>4. WindowInv'
    BY <1>1 DEF IInv, WindowInv
  <2>5. NothingDiscarded'
    <3>1. ~(window <= MAX_SENDQUEUE)
      BY <1>2, <1>7, <1>9, RoomForWindow
    <3>. QED  BY <1>1, <3>1 DEF NothingDiscarded
  <2>6. TypeOK'
    <3>1. looping' \in BOOLEAN /\ registered' \in BOOLEAN
      BY <1>1 DEF IInv, TypeOK
    <3>2. chunk' \in Seq(Frames) /\ read' \in {"none", "armed"} /\ lost' \subseteq Frames
      BY <1>1, <1>2, <1>3, <2>1 DEF IInv, TypeOK
    <3>. QED  BY <1>1, <2>1, <3>1, <3>2 DEF IInv, TypeOK
  <2>. QED  BY <1>6, <2>1, <2>3, <2>4, <2>5, <2>6 DEF IInv, WriteShape
<1>. QED  BY <1>7, <1>8, <1>9

-----------------------------------------------------------------------------
\* Every step keeps the inductive invariant.
LEMMA StepHolds == IInv /\ [Next]_vars => IInv'
<1> SUFFICES ASSUME IInv, [Next]_vars PROVE IInv'
  OBVIOUS
<1>1. CASE PeerSends
  BY <1>1, PeerSendsHolds
<1>2. CASE ConnectionFails
  BY <1>2, ConnectionFailsHolds
<1>3. CASE Reactor
  BY <1>3, ReadSomeHolds, FailureHolds DEF Reactor
<1>4. CASE Writer
  BY <1>4, WriteCompletesHolds, FailureHolds DEF Writer
<1>5. CASE Thread
  BY <1>5, HandlerHolds, IterateHolds DEF Thread
<1>6. CASE WriteHandlers
  BY <1>6, HandleWriteHolds, HandlerHolds DEF WriteHandlers
<1>7. CASE UNCHANGED vars
  <2>1. UNCHANGED <<window, sent, toServer, read, looping, chunk, send_que, writing, replies,
                    lost, socket, registered>>
    BY <1>7 DEF vars
  <2>2. OrderInv' /\ WindowInv' /\ NothingDiscarded'
    <3>1. writing' = writing \/ (writing # "done" /\ writing' # "done")
      BY <2>1
    <3>2. UNCHANGED <<window, sent, lost, replies, chunk, toServer, send_que>>
      BY <2>1
    <3>. QED  BY <3>1, <3>2, Rests
  <2>3. TypeOK'
    <3>1. looping' \in BOOLEAN /\ registered' \in BOOLEAN
      BY <2>1 DEF IInv, TypeOK
    <3>. QED  BY <2>1, <3>1 DEF IInv, TypeOK
  <2>. QED  BY <2>1, <2>2, <2>3 DEF IInv, ReadShape, WriteShape
<1>. QED  BY <1>1, <1>2, <1>3, <1>4, <1>5, <1>6, <1>7 DEF Next, Quiet

\* The inductive invariant holds all the time.
LEMMA Always == Spec => []IInv
BY InitHolds, StepHolds, PTL DEF Spec

\* Type correctness, with the bound on the send queue.
THEOREM TypeCorrect == Spec => []TypeOK
<1>1. IInv => TypeOK
  BY DEF IInv
<1>. QED  BY <1>1, Always, PTL

\* Version 2.1 answers the requests of a peer in order, each of them once, but
\* for those that Send has discarded: none is in two places or in no place.
THEOREM EchoedInOrderCorrect == Spec => []EchoedInOrder
<1>1. IInv => EchoedInOrder
  <2> SUFFICES ASSUME IInv PROVE EchoedInOrder
    OBVIOUS
  <2>1. Len(Pipeline) \in Nat
    BY Facts DEF IInv
  <2>2. ASSUME NEW i \in 1 .. Len(Pipeline) - 1 PROVE Pipeline[i] < Pipeline[i + 1]
    <3>1. i \in 1 .. Len(Pipeline) /\ i + 1 \in 1 .. Len(Pipeline) /\ i < i + 1
      BY <2>1
    <3>. QED  BY <3>1 DEF IInv, OrderInv, Increasing
  <2>. QED  BY <2>2 DEF IInv, OrderInv, EchoedInOrder
<1>. QED  BY <1>1, Always, PTL

\* A peer that leaves at most MAX_SENDQUEUE requests unanswered loses none,
\* whatever the number of messages in a read.
THEOREM NothingDiscardedCorrect == Spec => []NothingDiscarded
<1>1. IInv => NothingDiscarded
  BY DEF IInv
<1>. QED  BY <1>1, Always, PTL
=============================================================================
