-------------------------- MODULE FrameReaderProofs --------------------------
(***************************************************************************)
(* Theorems about FrameReader: HandleRead recovers the frames of any byte  *)
(* stream, however the kernel cuts it into reads, for every MAX_LENGTH.    *)
(***************************************************************************)
EXTENDS FrameReader, SequenceTheorems, TLAPS

-----------------------------------------------------------------------------
(* What a header decodes to. *)

\* Two bytes decode to a short, whatever they are: HandleRead's msg_id and
\* msg_len are shorts.
LEMMA DecodeType ==
  ASSUME NEW b0 \in Byte, NEW b1 \in Byte
  PROVE  DecodeShort(b0, b1) \in Short
<1> DEFINE u == LoadShort(b0, b1)
<1>1. u \in UShort
  BY SMT DEF LoadShort, Byte, UShort
<1> HIDE DEF u
<1>2. u % 256 \in Byte /\ u \div 256 \in Byte
  BY <1>1, SMT DEF UShort, Byte
<1>3. network_to_host_short(u) \in UShort
  BY <1>2, SMT DEF network_to_host_short, Byte, UShort
<1>4. ASSUME NEW v \in UShort PROVE AsShort(v) \in Short
  BY SMT DEF AsShort, UShort, Short
<1>. QED  BY <1>3, <1>4 DEF DecodeShort, u

-----------------------------------------------------------------------------
(* Slices of byte sequences. *)

\* A slice inside a sequence: its type, its length, its elements.
LEMMA SliceProperties ==
  ASSUME NEW S, NEW s \in Seq(S), NEW a \in Nat, NEW b \in Nat,
         a <= b, b <= Len(s)
  PROVE  /\ Slice(s, a, b) \in Seq(S)
         /\ Len(Slice(s, a, b)) = b - a
         /\ \A i \in 1 .. b - a : Slice(s, a, b)[i] = s[a + i]
<1>1. \A i \in a + 1 .. b : s[i] \in S
  OBVIOUS
<1>2. /\ SubSeq(s, a + 1, b) \in Seq(S)
      /\ Len(SubSeq(s, a + 1, b)) = IF a + 1 <= b THEN b - (a + 1) + 1 ELSE 0
      /\ \A i \in 1 .. b - (a + 1) + 1 : SubSeq(s, a + 1, b)[i] = s[(a + 1) + i - 1]
  BY <1>1, SubSeqProperties
<1>. QED  BY <1>2 DEF Slice

\* A slice that ends where it begins is empty.
LEMMA SliceEmpty ==
  ASSUME NEW s, NEW a \in Nat
  PROVE  Slice(s, a, a) = <<>>
BY SubSeqEmpty DEF Slice

\* A slice of a slice.
LEMMA SliceOfSlice ==
  ASSUME NEW S, NEW s \in Seq(S), NEW a \in Nat, NEW b \in Nat,
         NEW c \in Nat, NEW d \in Nat,
         a <= b, b <= Len(s), c <= d, d <= b - a
  PROVE  Slice(Slice(s, a, b), c, d) = Slice(s, a + c, a + d)
<1>1. CASE c = d
  BY <1>1, SliceEmpty
<1>2. CASE c < d
  <2>1. /\ a + 1 \in 1 .. Len(s) /\ b \in 1 .. Len(s)
        /\ c + 1 \in 1 .. b - (a + 1) + 1 /\ d \in 1 .. b - (a + 1) + 1
    BY <1>2
  <2>2. SubSeq(SubSeq(s, a + 1, b), c + 1, d)
          = SubSeq(s, (a + 1) + (c + 1) - 1, (a + 1) + d - 1)
    BY <2>1, SubSeqOfSubSeq
  <2>3. (a + 1) + (c + 1) - 1 = a + c + 1 /\ (a + 1) + d - 1 = a + d
    OBVIOUS
  <2>. QED  BY <2>2, <2>3 DEF Slice
<1>. QED  BY <1>1, <1>2

\* Adjacent slices put together.
LEMMA SliceConcat ==
  ASSUME NEW S, NEW s \in Seq(S), NEW a \in Nat, NEW b \in Nat, NEW c \in Nat,
         a <= b, b <= c, c <= Len(s)
  PROVE  Slice(s, a, b) \o Slice(s, b, c) = Slice(s, a, c)
<1>1. a + 1 \in 1 .. Len(s) + 1 /\ b \in (a + 1) - 1 .. Len(s) /\ c \in b .. Len(s)
  OBVIOUS
<1>. QED  BY <1>1, ConcatAdjacentSubSeq DEF Slice

-----------------------------------------------------------------------------
(* The inductive invariant.  Framing alone is not inductive: it needs to   *)
(* know what the two nodes and _data hold (NodeInv, BufferInv), that no    *)
(* return path forgets the read (NeverDeaf), and that the reference        *)
(* framing belongs to the stream (the stream is one of Streams).  The      *)
(* first part, Base, does not mention the frames, and so it outlasts a     *)
(* node of length -1.                                                      *)
Base == /\ TypeOK
        /\ stream \in Streams
        /\ BufferInv
        /\ NeverDeaf
        /\ Len(head) < HeadLen

Track == /\ Framing
         /\ NodeInv
         /\ RefusedForCause

IInv == Base /\ Track

\* A header is two bytes long, or four when it has an id.
LEMMA HeadLenType ==
  /\ HeadLen \in Nat /\ HeadLen \in {2, 4} /\ HeadLen > 0
  /\ WithId => HeadLen = 4
BY WithIdAssumption DEF HeadLen, HEAD_TOTAL_LEN, HEAD_DATA_LEN

\* The fields of a header that is inside the stream are shorts.
LEMMA HeaderType ==
  ASSUME NEW b \in Seq(Byte), NEW p \in Nat, p + HeadLen <= Len(b)
  PROVE  HeaderId(b, p) \in Short /\ HeaderLen(b, p) \in Short
<1>1. \A i \in 1 .. HeadLen : b[p + i] \in Byte
  BY HeadLenType
<1>2. /\ b[p + 1] \in Byte /\ b[p + 2] \in Byte
      /\ WithId => b[p + 3] \in Byte /\ b[p + 4] \in Byte
  BY <1>1, HeadLenType
<1>3. 0 \in Short
  BY DEF Short
<1>4. CASE WithId
  BY <1>2, <1>4, DecodeType DEF HeaderId, HeaderLen
<1>5. CASE ~WithId
  BY <1>2, <1>3, <1>5, DecodeType DEF HeaderId, HeaderLen
<1>. QED  BY <1>4, <1>5

\* What StreamsAssumption says of the stream.
LEMMA StreamBase ==
  ASSUME stream \in Streams
  PROVE  /\ stream \in [bytes : Seq(Byte), start : Seq(Nat)]
         /\ stream.bytes \in Seq(Byte)
         /\ stream.start \in Seq(Nat)
         /\ Len(stream.bytes) \in Nat
         /\ NFrames \in Nat
         /\ Len(stream.start) = NFrames + 1
         /\ stream.start[1] = 0
         /\ IsFraming(stream.bytes, stream.start)
<1>0. stream \in [bytes : Seq(Byte), start : Seq(Nat)]
  BY StreamsAssumption
<1>1. stream.bytes \in Seq(Byte) /\ IsFraming(stream.bytes, stream.start)
  BY <1>0, StreamsAssumption
<1>2. stream.start \in Seq(Nat) /\ stream.start # <<>> /\ stream.start[1] = 0
  BY <1>1 DEF IsFraming
<1>3. Len(stream.start) \in Nat /\ Len(stream.start) >= 1 /\ Len(stream.bytes) \in Nat
  BY <1>1, <1>2
<1>. QED  BY <1>0, <1>1, <1>2, <1>3 DEF NFrames

\* The ranges of the numbers of the state.
LEMMA Numbers ==
  ASSUME Base
  PROVE  /\ MAX_LENGTH \in Nat
         /\ stream.bytes \in Seq(Byte) /\ Len(stream.bytes) \in Nat
         /\ taken \in Nat /\ taken <= Len(stream.bytes)
         /\ bytes_transferred \in Nat /\ bytes_transferred <= MAX_LENGTH
         /\ copy_len \in Nat
         /\ data \in Seq(Byte) /\ Len(data) \in Nat /\ Len(data) <= MAX_LENGTH
         /\ Len(head) \in Nat /\ Len(head) < HeadLen
         /\ msg.id \in Short /\ msg.total_len \in -1 .. MAX_LENGTH
         /\ msg.data \in Seq(Byte) /\ Len(msg.data) \in Nat
<1>1. /\ stream.bytes \in Seq(Byte) /\ Len(stream.bytes) \in Nat
      /\ MAX_LENGTH \in Nat
  BY StreamBase, MaxLengthAssumption DEF Base
<1>2. /\ msg.id \in Short /\ msg.total_len \in -1 .. MAX_LENGTH
      /\ msg.data \in Seq(Byte)
  BY DEF Base, TypeOK, MsgNode
<1>3. taken \in Nat /\ taken <= Len(stream.bytes)
      /\ bytes_transferred \in Nat /\ bytes_transferred <= MAX_LENGTH
      /\ copy_len \in Nat
  BY <1>1 DEF Base, TypeOK
<1>4. data \in Seq(Byte) /\ Len(data) \in Nat /\ Len(head) \in Nat
  BY DEF Base, TypeOK
<1>5. Len(data) <= MAX_LENGTH /\ Len(head) < HeadLen
  BY DEF Base, BufferInv
<1>6. Len(msg.data) \in Nat
  BY <1>2
<1>. QED  BY <1>1, <1>2, <1>3, <1>4, <1>5, <1>6

\* A node of a length that is not negative has the _cur_len that its bytes say.
LEMMA NarrowLen ==
  ASSUME NEW n \in Nat, n < 32768
  PROVE  NarrowShort(n) = n
<1>1. n % 65536 = n
  OBVIOUS
<1>. QED  BY <1>1 DEF NarrowShort, AsShort

\* The conversion of a number to short leaves a short.
LEMMA NarrowType ==
  ASSUME NEW n \in Nat
  PROVE  NarrowShort(n) \in Short
<1>1. n % 65536 \in UShort
  BY DEF UShort
<1>. QED  BY <1>1, SMT DEF NarrowShort, AsShort, UShort, Short

-----------------------------------------------------------------------------
(* Each action keeps Base. *)

\* Reading again: the loop has used all of _data.
LEMMA RearmFacts ==
  ASSUME Base, pc = "loop", NEW next \in {"idle", "rearmed"}, Rearm(next),
         UNCHANGED <<stream, taken, life>>,
         next = "rearmed" => ~b_head_parse'
  PROVE  /\ BufferInv' /\ NeverDeaf' /\ RefusedForCause'
         /\ Position' = taken
         /\ taken' \in 0 .. Len(stream'.bytes)
         /\ read' \in {"none", "armed", "data", "error"}
         /\ data' \in Seq(Byte)
         /\ pc' \in {"idle", "loop", "rearmed"}
         /\ bytes_transferred' \in 0 .. MAX_LENGTH
         /\ copy_len' \in 0 .. MAX_LENGTH
<1> USE DEF Rearm, async_read_some
<1>1. life = "open" /\ taken \in Nat /\ MAX_LENGTH \in Nat
  BY Numbers DEF Base, BufferInv
<1>2. Slice(stream.bytes, taken, taken) = <<>>
  BY <1>1, SliceEmpty
<1>3. BufferInv'
  BY <1>1, <1>2 DEF BufferInv
<1>4. Position' = taken
  BY <1>1 DEF Position, Unread
<1>5. NeverDeaf' /\ RefusedForCause'
  BY <1>1 DEF NeverDeaf, RefusedForCause
<1>6. taken' \in 0 .. Len(stream'.bytes)
  BY DEF Base, TypeOK
<1>. QED  BY <1>1, <1>3, <1>4, <1>5, <1>6

\* While the loop runs, the bytes of _data it has not used are the next
\* bytes of the stream.
LEMMA LoopFacts ==
  ASSUME Base, pc = "loop"
  PROVE  /\ Position \in Nat
         /\ Position = taken - bytes_transferred
         /\ Position + bytes_transferred <= Len(stream.bytes)
         /\ \A j, k \in Nat : j <= k /\ k <= bytes_transferred =>
              Slice(data, copy_len + j, copy_len + k)
                = Slice(stream.bytes, Position + j, Position + k)
<1>1. /\ read = "none" /\ copy_len + bytes_transferred = Len(data)
      /\ Len(data) <= taken
      /\ data = Slice(stream.bytes, taken - Len(data), taken)
  BY DEF Base, BufferInv
<1>2. /\ taken \in Nat /\ taken <= Len(stream.bytes)
      /\ bytes_transferred \in Nat /\ copy_len \in Nat
      /\ Len(data) \in Nat
      /\ stream.bytes \in Seq(Byte)
  BY Numbers
<1>3. Position = taken - bytes_transferred
  BY <1>1 DEF Position, Unread
<1> DEFINE L == Len(data)
<1> HIDE DEF L
<1>4. ASSUME NEW j \in Nat, NEW k \in Nat, j <= k, k <= bytes_transferred
      PROVE  Slice(data, copy_len + j, copy_len + k)
               = Slice(stream.bytes, Position + j, Position + k)
  <2>1. L \in Nat /\ copy_len + bytes_transferred = L /\ L <= taken
        /\ data = Slice(stream.bytes, taken - L, taken)
    BY <1>1, <1>2 DEF L
  <2>2. Slice(Slice(stream.bytes, taken - L, taken), copy_len + j, copy_len + k)
          = Slice(stream.bytes, (taken - L) + (copy_len + j), (taken - L) + (copy_len + k))
    <3>1. /\ taken - L \in Nat /\ copy_len + j \in Nat /\ copy_len + k \in Nat
          /\ taken - L <= taken /\ copy_len + j <= copy_len + k
          /\ copy_len + k <= taken - (taken - L)
      BY <1>2, <1>4, <2>1
    <3>. QED  BY <1>2, <3>1, SliceOfSlice
  <2>3. (taken - L) + (copy_len + j) = Position + j
        /\ (taken - L) + (copy_len + k) = Position + k
    BY <1>2, <1>3, <2>1
  <2>. QED  BY <2>1, <2>2, <2>3
<1>. QED  BY <1>1, <1>2, <1>3, <1>4

\* The loop goes on with n bytes fewer, or reads again after the last one.
LEMMA AdvanceFacts ==
  ASSUME Base, pc = "loop", NEW n \in Nat, n <= bytes_transferred, Advance(n),
         UNCHANGED <<stream, taken, life>>, ~b_head_parse'
  PROVE  /\ BufferInv' /\ NeverDeaf' /\ RefusedForCause'
         /\ Position' = Position + n
         /\ ~MidBody'
         /\ taken' \in 0 .. Len(stream'.bytes)
         /\ read' \in {"none", "armed", "data", "error"}
         /\ data' \in Seq(Byte)
         /\ pc' \in {"idle", "loop", "rearmed"}
         /\ bytes_transferred' \in 0 .. MAX_LENGTH
         /\ copy_len' \in 0 .. MAX_LENGTH
<1>1. /\ life = "open" /\ read = "none" /\ copy_len + bytes_transferred = Len(data)
  BY DEF Base, BufferInv
<1>2. /\ Position = taken - bytes_transferred /\ taken \in Nat
      /\ bytes_transferred \in Nat /\ copy_len \in Nat /\ MAX_LENGTH \in Nat
      /\ Len(data) <= MAX_LENGTH
  BY LoopFacts, Numbers
<1>3. CASE bytes_transferred = n
  <2>1. Rearm("idle")
    BY <1>3 DEF Advance
  <2>2. ~MidBody'
    BY <2>1 DEF MidBody, Rearm
  <2>3. Position + n = taken
    BY <1>2, <1>3
  <2>. QED  BY <2>1, <2>2, <2>3, RearmFacts
<1>4. CASE bytes_transferred # n
  <2>1. /\ bytes_transferred' = bytes_transferred - n
        /\ copy_len' = copy_len + n
        /\ UNCHANGED <<pc, data, read>>
    BY <1>4 DEF Advance
  <2>2. /\ bytes_transferred - n \in Nat /\ bytes_transferred - n > 0
        /\ copy_len + n \in Nat
        /\ (copy_len + n) + (bytes_transferred - n) = Len(data)
        /\ copy_len + n <= MAX_LENGTH /\ bytes_transferred - n <= MAX_LENGTH
    BY <1>1, <1>2, <1>4
  <2>3. BufferInv'
    BY <1>1, <2>1, <2>2 DEF Base, BufferInv
  <2>4. ~MidBody'
    BY <2>1 DEF MidBody
  <2>5. Position' = Position + n
    BY <1>1, <1>2, <2>1 DEF Position, Unread
  <2>6. NeverDeaf' /\ RefusedForCause'
    BY <1>1, <2>1 DEF NeverDeaf, RefusedForCause
  <2>7. /\ taken' \in 0 .. Len(stream'.bytes) /\ data' \in Seq(Byte)
        /\ read' \in {"none", "armed", "data", "error"}
        /\ pc' \in {"idle", "loop", "rearmed"}
    BY <2>1 DEF Base, TypeOK
  <2>8. bytes_transferred' \in 0 .. MAX_LENGTH /\ copy_len' \in 0 .. MAX_LENGTH
    BY <1>2, <2>1, <2>2
  <2>. QED  BY <2>3, <2>4, <2>5, <2>6, <2>7, <2>8
<1>. QED  BY <1>3, <1>4

\* The bytes of _data that an iteration copies.
LEMMA ChunkType ==
  ASSUME Base, pc = "loop", NEW j \in Nat, NEW n \in Nat, j + n <= bytes_transferred
  PROVE  Slice(data, copy_len + j, copy_len + j + n) \in Seq(Byte)
<1>1. copy_len + bytes_transferred = Len(data)
  BY DEF Base, BufferInv
<1>2. /\ copy_len \in Nat /\ bytes_transferred \in Nat /\ data \in Seq(Byte)
      /\ Len(data) \in Nat
  BY Numbers
<1>3. /\ copy_len + j \in Nat /\ copy_len + j + n \in Nat
      /\ copy_len + j <= copy_len + j + n /\ copy_len + j + n <= Len(data)
  BY <1>1, <1>2
<1>. QED  BY <1>2, <1>3, SliceProperties

\* Chunk(n) is a sequence of bytes, of length n.
LEMMA ChunkBytes ==
  ASSUME Base, pc = "loop", NEW n \in Nat, n <= bytes_transferred
  PROVE  Chunk(n) \in Seq(Byte) /\ Len(Chunk(n)) = n
<1>1. copy_len + bytes_transferred = Len(data)
  BY DEF Base, BufferInv
<1>2. /\ copy_len \in Nat /\ bytes_transferred \in Nat /\ data \in Seq(Byte)
      /\ Len(data) \in Nat
  BY Numbers
<1>3. /\ copy_len + n \in Nat /\ copy_len <= copy_len + n
      /\ copy_len + n <= Len(data) /\ (copy_len + n) - copy_len = n
  BY <1>1, <1>2
<1>. QED  BY <1>2, <1>3, SliceProperties DEF Chunk

\* The header whose last bytes an iteration copies: its fields are shorts.
LEMMA FullHeadType ==
  ASSUME Base, HeadComplete
  PROVE  /\ head_remain \in 1 .. HeadLen /\ head_remain <= bytes_transferred
         /\ msg_id \in Short /\ msg_len \in Short
<1>1. pc = "loop" /\ bytes_transferred + Len(head) >= HeadLen
  BY DEF HeadComplete, InHead
<1>2. /\ Len(head) \in Nat /\ Len(head) < HeadLen /\ bytes_transferred \in Nat
  BY Numbers
<1>3. head_remain \in 1 .. HeadLen /\ head_remain <= bytes_transferred
  BY <1>1, <1>2, HeadLenType DEF head_remain
<1>4. /\ Chunk(head_remain) \in Seq(Byte) /\ Len(Chunk(head_remain)) = head_remain
  <2>1. head_remain \in Nat
    BY <1>3, HeadLenType
  <2>. QED  BY <1>1, <1>3, <2>1, ChunkBytes
<1>5. head \in Seq(Byte)
  BY DEF Base, TypeOK
<1>6. FullHead \in Seq(Byte) /\ Len(FullHead) = HeadLen
  <2>1. /\ head \o Chunk(head_remain) \in Seq(Byte)
        /\ Len(head \o Chunk(head_remain)) = Len(head) + Len(Chunk(head_remain))
    BY <1>4, <1>5
  <2>2. Len(head) + head_remain = HeadLen
    BY <1>2, HeadLenType DEF head_remain
  <2>. QED  BY <1>4, <2>1, <2>2 DEF FullHead
<1>7. \A i \in 1 .. HeadLen : FullHead[i] \in Byte
  BY <1>6
<1>8. /\ FullHead[1] \in Byte /\ FullHead[2] \in Byte
      /\ WithId => FullHead[3] \in Byte /\ FullHead[4] \in Byte
  BY <1>7, HeadLenType
<1>9. 0 \in Short
  BY DEF Short
<1>10. msg_id \in Short /\ msg_len \in Short
  <2>1. CASE WithId
    BY <1>8, <2>1, DecodeType DEF msg_id, msg_len
  <2>2. CASE ~WithId
    BY <1>8, <1>9, <2>2, DecodeType DEF msg_id, msg_len
  <2>. QED  BY <2>1, <2>2
<1>. QED  BY <1>3, <1>10

\* What passes the tests of the header and does not make the allocation throw
\* is a length RecvNode can be made with.
LEMMA LengthType ==
  ASSUME Base, HeadAccepted, msg_len >= -1
  PROVE  msg_id \in Short /\ msg_len \in -1 .. MAX_LENGTH
<1>1. HeadComplete /\ msg_len <= MAX_LENGTH
  BY DEF HeadAccepted
<1>2. msg_id \in Short /\ msg_len \in Int
  BY <1>1, FullHeadType DEF Short
<1>. QED  BY <1>1, <1>2, MaxLengthAssumption

\* Start keeps Base.
LEMMA StartBase ==
  ASSUME Base, Start
  PROVE  Base'
<1> USE DEF Start, async_read_some
<1>1. pc = "idle" /\ read = "none" /\ bytes_transferred = 0
  BY DEF Base, BufferInv
<1>2. TypeOK'
  <2>1. data' \in Seq(Byte) /\ read' \in {"none", "armed", "data", "error"}
        /\ life' \in {"new", "open"} \cup Ends
    OBVIOUS
  <2>. QED  BY <2>1 DEF Base, TypeOK
<1>3. BufferInv'
  <2>1. Slice(stream.bytes, taken, taken) = <<>>
    BY Numbers, SliceEmpty
  <2>. QED  BY <1>1, <2>1, Numbers DEF Base, BufferInv
<1>. QED  BY <1>2, <1>3 DEF Base, NeverDeaf

\* The arrival of data keeps Base.
LEMMA ReadSomeBase ==
  ASSUME Base, NEW n \in 1 .. MAX_LENGTH, ReadSome(n)
  PROVE  Base' /\ Len(data') = n
<1> USE DEF ReadSome
<1>1. pc # "loop" /\ bytes_transferred = 0 /\ copy_len = 0 /\ life = "open"
  BY DEF Base, BufferInv
<1>2. /\ taken \in Nat /\ taken + n \in Nat /\ taken + n <= Len(stream.bytes)
      /\ stream.bytes \in Seq(Byte) /\ n \in Nat /\ n >= 1 /\ n <= MAX_LENGTH
  BY Numbers
<1>3. data' \in Seq(Byte) /\ Len(data') = n
  <2>1. /\ Slice(stream.bytes, taken, taken + n) \in Seq(Byte)
        /\ Len(Slice(stream.bytes, taken, taken + n)) = (taken + n) - taken
    <3>1. taken <= taken + n
      BY <1>2
    <3>. QED  BY <1>2, <3>1, SliceProperties
  <2>. QED  BY <1>2, <2>1
<1>4. TypeOK'
  <2>1. taken' \in 0 .. Len(stream'.bytes) /\ read' \in {"none", "armed", "data", "error"}
    BY <1>2, Numbers
  <2>. QED  BY <1>3, <2>1 DEF Base, TypeOK
<1>5. BufferInv'
  <2>1. (taken + n) - n = taken
    BY <1>2
  <2>2. data' = Slice(stream'.bytes, taken' - Len(data'), taken')
    BY <1>3, <2>1
  <2>3. Len(data') <= MAX_LENGTH /\ Len(data') <= taken' /\ Len(data') > 0
    BY <1>2, <1>3
  <2>. QED  BY <1>1, <2>2, <2>3 DEF Base, BufferInv
<1>6. NeverDeaf'
  BY DEF NeverDeaf
<1>. QED  BY <1>3, <1>4, <1>5, <1>6 DEF Base

\* The failure of a read keeps Base.
LEMMA ReadFailsBase ==
  ASSUME Base, ReadFails
  PROVE  Base'
<1> USE DEF ReadFails
<1>1. pc # "loop" /\ life = "open"
  BY DEF Base, BufferInv
<1>2. TypeOK'
  <2>1. read' \in {"none", "armed", "data", "error"}
    OBVIOUS
  <2>. QED  BY <2>1 DEF Base, TypeOK
<1>3. BufferInv'
  BY <1>1 DEF Base, BufferInv
<1>. QED  BY <1>1, <1>2, <1>3 DEF Base, NeverDeaf

\* The beginning of HandleRead keeps Base.
LEMMA HandleReadBase ==
  ASSUME Base, HandleRead
  PROVE  Base'
<1> USE DEF HandleRead, HandlerMayRun
<1>1. /\ life = "open"
      /\ Len(data) \in Nat /\ Len(data) > 0 /\ Len(data) <= MAX_LENGTH
      /\ MAX_LENGTH \in Nat /\ data' = data
  BY Numbers DEF Base, BufferInv
<1>2. TypeOK'
  <2>1. /\ read' \in {"none", "armed", "data", "error"}
        /\ pc' \in {"idle", "loop", "rearmed"}
        /\ bytes_transferred' \in 0 .. MAX_LENGTH /\ copy_len' \in 0 .. MAX_LENGTH
    BY <1>1
  <2>. QED  BY <2>1 DEF Base, TypeOK
<1>3. BufferInv'
  BY <1>1 DEF Base, BufferInv
<1>. QED  BY <1>1, <1>2, <1>3 DEF Base, NeverDeaf

\* The error branch of HandleRead keeps Base.
LEMMA HandleReadErrorBase ==
  ASSUME Base, HandleReadError
  PROVE  Base'
<1> USE DEF HandleReadError, HandlerMayRun
<1>1. TypeOK'
  <2>1. read' \in {"none", "armed", "data", "error"} /\ life' \in {"new", "open"} \cup Ends
    BY DEF Ends
  <2>. QED  BY <2>1 DEF Base, TypeOK
<1>2. BufferInv'
  BY DEF Base, BufferInv
<1>. QED  BY <1>1, <1>2 DEF Base, NeverDeaf

\* The late assignment of _b_head_parse keeps Base.
LEMMA SetHeadParseBase ==
  ASSUME Base, SetHeadParse
  PROVE  Base'
<1> USE DEF SetHeadParse
<1>1. life = "open" /\ read # "none" /\ bytes_transferred = 0 /\ copy_len = 0
  BY DEF Base, BufferInv
<1>2. TypeOK'
  <2>1. pc' \in {"idle", "loop", "rearmed"}
    OBVIOUS
  <2>2. b_head_parse' \in BOOLEAN
    OBVIOUS
  <2>. QED  BY <2>1, <2>2 DEF Base, TypeOK
<1>3. BufferInv'
  BY <1>1 DEF Base, BufferInv
<1>. QED  BY <1>1, <1>2, <1>3 DEF Base, NeverDeaf

\* Leaving the loop keeps Base.
LEMMA LeaveBase ==
  ASSUME Base, HeadComplete, NEW end \in {"cleared", "threw"}, Leave(end)
  PROVE  Base'
<1> USE DEF Leave
<1>1. TypeOK'
  <2>1. /\ pc' \in {"idle", "loop", "rearmed"} /\ life' \in {"new", "open"} \cup Ends
        /\ bytes_transferred' \in 0 .. MAX_LENGTH /\ copy_len' \in 0 .. MAX_LENGTH
    BY Numbers DEF Ends
  <2>. QED  BY <2>1 DEF Base, TypeOK
<1>2. BufferInv'
  <2>1. read = "none"
    BY DEF Base, BufferInv, HeadComplete, InHead
  <2>. QED  BY <2>1 DEF Base, BufferInv
<1>. QED  BY <1>1, <1>2 DEF Base, NeverDeaf

\* An iteration that ends inside a header keeps Base.
LEMMA HeadPartialBase ==
  ASSUME Base, HeadPartial
  PROVE  Base'
<1> DEFINE b == bytes_transferred
<1>0. /\ pc = "loop" /\ ~b_head_parse /\ b + Len(head) < HeadLen
      /\ head' = head \o Chunk(b)
      /\ Rearm("idle")
      /\ UNCHANGED <<stream, taken, msg, b_head_parse, posted, life, overrun>>
  BY DEF HeadPartial, InHead
<1>1. Chunk(b) \in Seq(Byte) /\ Len(Chunk(b)) = b /\ b \in Nat
  <2>1. b \in Nat /\ b <= bytes_transferred
    BY Numbers
  <2> HIDE DEF b
  <2>. QED  BY <1>0, <2>1, ChunkBytes
<1> HIDE DEF b
<1>2. head' \in Seq(Byte) /\ Len(head') < HeadLen
  <2>1. head \in Seq(Byte)
    BY DEF Base, TypeOK
  <2>2. /\ head \o Chunk(b) \in Seq(Byte)
        /\ Len(head \o Chunk(b)) = Len(head) + Len(Chunk(b))
    BY <1>1, <2>1
  <2>3. Len(head) \in Nat
    BY <2>1
  <2>. QED  BY <1>0, <1>1, <2>2, <2>3, HeadLenType
<1>3. /\ BufferInv' /\ NeverDeaf'
      /\ taken' \in 0 .. Len(stream'.bytes)
      /\ read' \in {"none", "armed", "data", "error"}
      /\ data' \in Seq(Byte)
      /\ pc' \in {"idle", "loop", "rearmed"}
      /\ bytes_transferred' \in 0 .. MAX_LENGTH
      /\ copy_len' \in 0 .. MAX_LENGTH
  BY <1>0, RearmFacts
<1>4. TypeOK'
  BY <1>0, <1>2, <1>3 DEF Base, TypeOK
<1>5. HeadLen' = HeadLen /\ (stream \in Streams)'
  BY <1>0 DEF HeadLen, Base
<1>. QED  BY <1>2, <1>3, <1>4, <1>5 DEF Base

\* An iteration that completes a header and ends inside its body keeps Base.
LEMMA HeadThenPartialBodyBase ==
  ASSUME Base, HeadThenPartialBody
  PROVE  Base'
<1> DEFINE b == bytes_transferred - head_remain
<1>0. /\ HeadAccepted /\ msg_len >= -1
      /\ msg' = [id |-> msg_id, total_len |-> msg_len, data |-> BodyAfterHead(b)]
      /\ Rearm("rearmed")
      /\ UNCHANGED <<stream, taken, head, b_head_parse, posted, life>>
  BY DEF HeadThenPartialBody
<1>0a. overrun' = (overrun \/ msg_len = -1)
  BY DEF HeadThenPartialBody
<1>1. HeadComplete /\ pc = "loop" /\ ~b_head_parse
  BY <1>0 DEF HeadAccepted, HeadComplete, InHead
<1>2. /\ head_remain \in Nat /\ b \in Nat /\ head_remain + b <= bytes_transferred
  BY <1>1, FullHeadType, Numbers, HeadLenType
<1> HIDE DEF b
<1>3. msg' \in MsgNode
  <2>1. BodyAfterHead(b) \in Seq(Byte)
    BY <1>1, <1>2, ChunkType DEF BodyAfterHead
  <2>2. msg_id \in Short /\ msg_len \in -1 .. MAX_LENGTH
    BY <1>0, LengthType
  <2>. QED  BY <1>0, <2>1, <2>2 DEF MsgNode
<1>4. /\ BufferInv' /\ NeverDeaf'
      /\ taken' \in 0 .. Len(stream'.bytes)
      /\ read' \in {"none", "armed", "data", "error"}
      /\ data' \in Seq(Byte)
      /\ pc' \in {"idle", "loop", "rearmed"}
      /\ bytes_transferred' \in 0 .. MAX_LENGTH
      /\ copy_len' \in 0 .. MAX_LENGTH
  BY <1>0, <1>1, RearmFacts
<1>5. overrun' \in BOOLEAN
  BY <1>0a
<1>6. TypeOK'
  BY <1>0, <1>3, <1>4, <1>5 DEF Base, TypeOK
<1>. QED  BY <1>0, <1>4, <1>6 DEF Base

\* Going on after a message has been posted keeps Base.
LEMMA PostBase ==
  ASSUME Base, pc = "loop", NEW n \in Nat, n <= bytes_transferred,
         NEW id \in Short, NEW body \in Seq(Byte), PostMsg(Message(id, body)),
         Advance(n), msg' \in MsgNode, UNCHANGED <<stream, taken, life, overrun>>
  PROVE  Base'
<1>1. posted' = Append(posted, Message(id, body)) /\ b_head_parse' = FALSE /\ head' = <<>>
  BY DEF PostMsg
<1>2. posted' \in Seq([id : Short, data : Seq(Byte)])
  <2>1. Message(id, body) \in [id : Short, data : Seq(Byte)]
    BY DEF Message
  <2>2. posted \in Seq([id : Short, data : Seq(Byte)])
    BY DEF Base, TypeOK
  <2>. QED  BY <1>1, <2>1, <2>2, AppendProperties
<1>3. /\ BufferInv' /\ NeverDeaf'
      /\ taken' \in 0 .. Len(stream'.bytes)
      /\ read' \in {"none", "armed", "data", "error"}
      /\ data' \in Seq(Byte)
      /\ pc' \in {"idle", "loop", "rearmed"}
      /\ bytes_transferred' \in 0 .. MAX_LENGTH
      /\ copy_len' \in 0 .. MAX_LENGTH
  BY <1>1, AdvanceFacts
<1>4. TypeOK'
  <2>1. b_head_parse' \in BOOLEAN
    BY <1>1
  <2>2. head' \in Seq(Byte)
    BY <1>1
  <2>. QED  BY <1>2, <1>3, <2>1, <2>2 DEF Base, TypeOK
<1>5. Len(head') < HeadLen'
  BY <1>1, HeadLenType
<1>. QED  BY <1>3, <1>4, <1>5 DEF Base

\* An iteration that completes a header and its body keeps Base.
LEMMA HeadThenWholeBodyBase ==
  ASSUME Base, HeadThenWholeBody
  PROVE  Base'
<1> DEFINE n == head_remain + msg_len
<1>0. /\ HeadAccepted /\ msg_len >= -1
      /\ ~size_less(bytes_transferred - head_remain, msg_len)
      /\ msg' = [id |-> msg_id, total_len |-> msg_len, data |-> BodyAfterHead(msg_len)]
      /\ PostMsg(Message(msg_id, BodyAfterHead(msg_len)))
      /\ Advance(n)
      /\ UNCHANGED <<stream, taken, life, overrun>>
  BY DEF HeadThenWholeBody
<1>1. HeadComplete /\ pc = "loop"
  BY <1>0 DEF HeadAccepted, HeadComplete, InHead
<1>2. msg_id \in Short /\ msg_len \in -1 .. MAX_LENGTH
  BY <1>0, LengthType
<1>3. head_remain \in Nat /\ head_remain <= bytes_transferred /\ bytes_transferred \in Nat
  BY <1>1, FullHeadType, Numbers, HeadLenType
<1>4. msg_len \in Nat /\ head_remain + msg_len <= bytes_transferred
  BY <1>0, <1>2, <1>3, MaxLengthAssumption DEF size_less
<1>5. n \in Nat /\ n <= bytes_transferred
  BY <1>3, <1>4
<1>6. BodyAfterHead(msg_len) \in Seq(Byte)
  BY <1>1, <1>3, <1>4, ChunkType DEF BodyAfterHead
<1>7. msg' \in MsgNode
  BY <1>0, <1>2, <1>6 DEF MsgNode
<1> HIDE DEF n
<1>. QED  BY <1>0, <1>1, <1>2, <1>5, <1>6, <1>7, PostBase

\* An iteration that ends inside a body begun earlier keeps Base.
LEMMA BodyPartialBase ==
  ASSUME Base, BodyPartial
  PROVE  Base'
<1> DEFINE b == bytes_transferred
<1>0. /\ InBody
      /\ msg' = [msg EXCEPT !.data = msg.data \o Chunk(b)]
      /\ Rearm("idle")
      /\ UNCHANGED <<stream, taken, head, b_head_parse, posted, life, overrun>>
  BY DEF BodyPartial
<1>1. pc = "loop"
  BY <1>0 DEF InBody
<1>2. Chunk(b) \in Seq(Byte)
  <2>1. b \in Nat /\ b <= bytes_transferred
    BY Numbers
  <2> HIDE DEF b
  <2>. QED  BY <1>1, <2>1, ChunkBytes
<1> HIDE DEF b
<1>3. msg' \in MsgNode
  <2>1. msg \in MsgNode
    BY DEF Base, TypeOK
  <2>2. msg.data \o Chunk(b) \in Seq(Byte)
    BY <1>2, <2>1 DEF MsgNode
  <2>. QED  BY <1>0, <2>1, <2>2 DEF MsgNode
<1>4. /\ BufferInv' /\ NeverDeaf'
      /\ taken' \in 0 .. Len(stream'.bytes)
      /\ read' \in {"none", "armed", "data", "error"}
      /\ data' \in Seq(Byte)
      /\ pc' \in {"idle", "loop", "rearmed"}
      /\ bytes_transferred' \in 0 .. MAX_LENGTH
      /\ copy_len' \in 0 .. MAX_LENGTH
  BY <1>0, <1>1, RearmFacts
<1>5. TypeOK'
  BY <1>0, <1>3, <1>4 DEF Base, TypeOK
<1>. QED  BY <1>0, <1>4, <1>5 DEF Base

\* An iteration that completes a body begun earlier keeps Base.
LEMMA BodyWholeBase ==
  ASSUME Base, BodyWhole
  PROVE  Base'
<1> DEFINE n == remain_msg
<1>0. /\ InBody /\ ~size_less(bytes_transferred, n)
      /\ msg' = [msg EXCEPT !.data = msg.data \o Chunk(n)]
      /\ PostMsg(Message(msg.id, msg.data \o Chunk(n)))
      /\ Advance(n)
      /\ UNCHANGED <<stream, taken, life, overrun>>
  BY DEF BodyWhole
<1>1. pc = "loop"
  BY <1>0 DEF InBody
<1>2. n \in Int
  <2>1. msg.total_len \in Int
    BY Numbers
  <2>2. NarrowShort(Len(msg.data)) \in Int
    BY Numbers, NarrowType DEF Short
  <2>. QED  BY <2>1, <2>2 DEF remain_msg
<1> HIDE DEF n
<1>3. n \in Nat /\ n <= bytes_transferred
  BY <1>0, <1>2, Numbers DEF size_less
<1>4. Chunk(n) \in Seq(Byte)
  BY <1>1, <1>3, ChunkBytes
<1>5. msg \in MsgNode /\ msg.id \in Short /\ msg.data \o Chunk(n) \in Seq(Byte)
  <2>1. msg \in MsgNode
    BY DEF Base, TypeOK
  <2>. QED  BY <1>4, <2>1 DEF MsgNode
<1>6. msg' \in MsgNode
  BY <1>0, <1>5 DEF MsgNode
<1>. QED  BY <1>0, <1>1, <1>3, <1>5, <1>6, PostBase

\* The end of a process that did not survive an overrun keeps Base.
LEMMA CrashBase ==
  ASSUME Base, Crash
  PROVE  Base'
<1> USE DEF Crash
<1>1. TypeOK'
  <2>1. /\ pc' \in {"idle", "loop", "rearmed"} /\ life' \in {"new", "open"} \cup Ends
        /\ read' \in {"none", "armed", "data", "error"}
        /\ bytes_transferred' \in 0 .. MAX_LENGTH /\ copy_len' \in 0 .. MAX_LENGTH
    BY Numbers DEF Ends
  <2>. QED  BY <2>1 DEF Base, TypeOK
<1>2. BufferInv'
  BY DEF Base, BufferInv
<1>. QED  BY <1>1, <1>2 DEF Base, NeverDeaf

-----------------------------------------------------------------------------
(* The frames, as long as no node of length -1 has been made. *)

\* Where the frame being read begins.
LEMMA StreamFacts ==
  ASSUME IInv, ~overrun
  PROVE  /\ stream.bytes \in Seq(Byte)
         /\ NFrames \in Nat
         /\ Len(posted) \in 0 .. NFrames
         /\ Current \in Nat
         /\ Current <= Len(stream.bytes)
<1>1. /\ stream.bytes \in Seq(Byte) /\ NFrames \in Nat
      /\ stream.start \in Seq(Nat)
      /\ Len(stream.start) = NFrames + 1
      /\ IsFraming(stream.bytes, stream.start)
  BY StreamBase DEF IInv, Base
<1>2. \A i \in 1 .. Len(stream.start) : stream.start[i] <= Len(stream.bytes)
  BY <1>1 DEF IsFraming
<1>3. Len(posted) \in Nat /\ Len(posted) <= NFrames
  BY DEF IInv, Base, TypeOK, Track, Framing
<1>4. Len(posted) + 1 \in 1 .. Len(stream.start)
  BY <1>1, <1>3
<1>5. Current \in Nat /\ Current <= Len(stream.bytes)
  BY <1>1, <1>2, <1>4 DEF Current
<1>. QED  BY <1>1, <1>3, <1>5

\* If a frame begins where HandleRead's current frame begins, the reference
\* lists it and says where the next one begins; if none does, the reference
\* has no more.
LEMMA CurrentFrame ==
  ASSUME IInv, ~overrun
  PROVE  /\ IsFrame(stream.bytes, Current) =>
              /\ Len(posted) < NFrames
              /\ stream.start[Len(posted) + 2]
                   = Current + HeadLen + HeaderLen(stream.bytes, Current)
         /\ ~IsFrame(stream.bytes, Current) => Len(posted) = NFrames
<1>1. IsFraming(stream.bytes, stream.start)
  BY StreamBase DEF IInv, Base
<1>2. /\ \A i \in 1 .. Len(stream.start) - 1 :
           /\ IsFrame(stream.bytes, stream.start[i])
           /\ stream.start[i + 1] = stream.start[i] + HeadLen
                                    + HeaderLen(stream.bytes, stream.start[i])
      /\ ~IsFrame(stream.bytes, stream.start[Len(stream.start)])
  BY <1>1 DEF IsFraming
<1>3. Len(posted) \in Nat /\ NFrames \in Nat /\ Len(posted) <= NFrames
  BY StreamFacts
<1>4. Len(stream.start) = NFrames + 1
  BY StreamBase DEF IInv, Base
<1>5. CASE Len(posted) = NFrames
  BY <1>2, <1>4, <1>5 DEF Current
<1>6. CASE Len(posted) < NFrames
  <2>1. Len(posted) + 1 \in 1 .. Len(stream.start) - 1
    BY <1>3, <1>4, <1>6
  <2>2. (Len(posted) + 1) + 1 = Len(posted) + 2
    BY <1>3
  <2>. QED  BY <1>2, <1>6, <2>1, <2>2 DEF Current
<1>. QED  BY <1>3, <1>5, <1>6

\* An iteration that completes a header has the header at Current, and what
\* follows it in _data is the beginning of the body.
LEMMA HeadFacts ==
  ASSUME IInv, ~overrun, HeadComplete
  PROVE  /\ life = "open"
         /\ read = "none"
         /\ head_remain \in 1 .. HeadLen
         /\ head_remain <= bytes_transferred
         /\ bytes_transferred \in Nat
         /\ Position \in Nat
         /\ Position = taken - bytes_transferred
         /\ Position + head_remain = Current + HeadLen
         /\ Position + bytes_transferred <= Len(stream.bytes)
         /\ Current + HeadLen <= Len(stream.bytes)
         /\ msg_id = HeaderId(stream.bytes, Current)
         /\ msg_len = HeaderLen(stream.bytes, Current)
         /\ msg_id \in Short /\ msg_len \in Short
         /\ \A n \in Nat : head_remain + n <= bytes_transferred =>
              BodyAfterHead(n) = Slice(stream.bytes, Current + HeadLen,
                                       Current + HeadLen + n)
<1>0. pc = "loop" /\ ~b_head_parse /\ bytes_transferred + Len(head) >= HeadLen
  BY DEF HeadComplete, InHead
<1>1. life = "open" /\ read = "none" /\ ~MidBody
  BY <1>0 DEF IInv, Base, BufferInv, MidBody
<1>2. /\ Len(head) < HeadLen
      /\ Position = Current + Len(head)
      /\ head = Slice(stream.bytes, Current, Position)
  BY <1>1 DEF IInv, Track, NodeInv, NodesHoldFrame
<1>3. /\ Len(head) \in Nat /\ bytes_transferred \in Nat /\ copy_len \in Nat
  BY Numbers DEF IInv
<1>4. /\ Current \in Nat /\ stream.bytes \in Seq(Byte)
  BY StreamFacts
<1>5. /\ head_remain \in 1 .. HeadLen
      /\ head_remain <= bytes_transferred
      /\ Position + head_remain = Current + HeadLen
  BY <1>0, <1>2, <1>3, <1>4, HeadLenType DEF head_remain
<1>6. /\ Position \in Nat /\ Position = taken - bytes_transferred
      /\ Position + bytes_transferred <= Len(stream.bytes)
      /\ \A j, k \in Nat : j <= k /\ k <= bytes_transferred =>
           Slice(data, copy_len + j, copy_len + k)
             = Slice(stream.bytes, Position + j, Position + k)
  BY <1>0, LoopFacts DEF IInv
<1>7. Current + HeadLen <= Len(stream.bytes)
  BY <1>3, <1>4, <1>5, <1>6, HeadLenType
<1>8. head_remain \in Nat /\ copy_len + 0 = copy_len /\ Position + 0 = Position
  BY <1>3, <1>5, <1>6, HeadLenType
<1>9. Chunk(head_remain) = Slice(stream.bytes, Position, Current + HeadLen)
  <2>1. Slice(data, copy_len + 0, copy_len + head_remain)
          = Slice(stream.bytes, Position + 0, Position + head_remain)
    BY <1>5, <1>6, <1>8
  <2>. QED  BY <2>1, <1>5, <1>8 DEF Chunk
<1>10. FullHead = Slice(stream.bytes, Current, Current + HeadLen)
  <2>1. /\ Current + HeadLen \in Nat
        /\ Current <= Position /\ Position <= Current + HeadLen
    BY <1>2, <1>3, <1>4, <1>5, <1>6, HeadLenType
  <2>2. Slice(stream.bytes, Current, Position)
          \o Slice(stream.bytes, Position, Current + HeadLen)
          = Slice(stream.bytes, Current, Current + HeadLen)
    <3>1. Position \in Nat
      BY <1>6
    <3>. QED  BY <1>4, <1>7, <2>1, <3>1, SliceConcat
  <2>3. head \o Chunk(head_remain)
          = Slice(stream.bytes, Current, Position)
            \o Slice(stream.bytes, Position, Current + HeadLen)
    BY <1>2, <1>9
  <2>. QED  BY <2>2, <2>3, Zenon DEF FullHead
<1>11. \A i \in 1 .. HeadLen : FullHead[i] = stream.bytes[Current + i]
  <2>1. Current + HeadLen \in Nat /\ Current <= Current + HeadLen
        /\ (Current + HeadLen) - Current = HeadLen
    BY <1>4, HeadLenType
  <2>2. \A i \in 1 .. (Current + HeadLen) - Current :
          Slice(stream.bytes, Current, Current + HeadLen)[i]
            = stream.bytes[Current + i]
    BY <1>4, <1>7, <2>1, SliceProperties
  <2>. QED  BY <1>10, <2>1, <2>2
<1>12. /\ FullHead[1] = stream.bytes[Current + 1] /\ FullHead[2] = stream.bytes[Current + 2]
       /\ WithId => /\ FullHead[3] = stream.bytes[Current + 3]
                    /\ FullHead[4] = stream.bytes[Current + 4]
  BY <1>11, HeadLenType
<1>13. /\ msg_id = HeaderId(stream.bytes, Current)
       /\ msg_len = HeaderLen(stream.bytes, Current)
  BY <1>12 DEF msg_id, msg_len, HeaderId, HeaderLen
<1>14. msg_id \in Short /\ msg_len \in Short
  BY <1>4, <1>7, <1>13, HeaderType
<1>15. ASSUME NEW n \in Nat, head_remain + n <= bytes_transferred
       PROVE  BodyAfterHead(n) = Slice(stream.bytes, Current + HeadLen,
                                       Current + HeadLen + n)
  <2>1. /\ head_remain + n \in Nat /\ head_remain <= head_remain + n
        /\ copy_len + (head_remain + n) = copy_len + head_remain + n
        /\ Position + (head_remain + n) = Current + HeadLen + n
    <3>1. Position \in Nat
      BY <1>6
    <3>. QED  BY <1>3, <1>4, <1>5, <1>8, <3>1, HeadLenType
  <2>2. Slice(data, copy_len + head_remain, copy_len + (head_remain + n))
          = Slice(stream.bytes, Position + head_remain, Position + (head_remain + n))
    BY <1>6, <1>8, <1>15, <2>1
  <2>. QED  BY <1>5, <2>1, <2>2 DEF BodyAfterHead
<1>. QED  BY <1>1, <1>3, <1>5, <1>6, <1>7, <1>13, <1>14, <1>15

\* Steps that post nothing keep the framing.
LEMMA KeepFraming ==
  ASSUME IInv, UNCHANGED <<stream, posted>>, overrun => overrun'
  PROVE  Framing' /\ Current' = Current /\ NFrames' = NFrames
<1>1. NFrames' = NFrames /\ Current' = Current
  BY DEF NFrames, Current
<1>2. \A i : Frame(i)' = Frame(i)
  BY DEF Frame
<1>. QED  BY <1>1, <1>2 DEF IInv, Track, Framing

\* Steps that move nothing into the nodes keep what is known of them.
LEMMA KeepNodes ==
  ASSUME IInv, UNCHANGED <<stream, posted, head, msg, overrun>>, ~overrun,
         life \in {"new", "open"}, Position' = Position, MidBody' <=> MidBody
  PROVE  NodeInv' /\ Framing'
<1>1. Current' = Current /\ Framing'
  BY KeepFraming
<1>2. CASE MidBody
  <2>1. /\ Current + HeadLen <= Len(stream.bytes)
        /\ HeaderValid(stream.bytes, Current)
        /\ msg.id = HeaderId(stream.bytes, Current)
        /\ msg.total_len = HeaderLen(stream.bytes, Current)
        /\ Len(msg.data) < msg.total_len
        /\ Position = Current + HeadLen + Len(msg.data)
        /\ msg.data = Slice(stream.bytes, Current + HeadLen, Position)
    BY <1>2 DEF IInv, Track, NodeInv, NodesHoldFrame
  <2>2. /\ Current' + HeadLen <= Len(stream'.bytes)
        /\ HeaderValid(stream'.bytes, Current')
        /\ msg'.id = HeaderId(stream'.bytes, Current')
        /\ msg'.total_len = HeaderLen(stream'.bytes, Current')
        /\ Len(msg'.data) < msg'.total_len
        /\ Position' = Current' + HeadLen + Len(msg'.data)
        /\ msg'.data = Slice(stream'.bytes, Current' + HeadLen, Position')
    BY <1>1, <2>1
  <2>3. NodesHoldFrame'
    BY <1>2, <2>2 DEF NodesHoldFrame
  <2>. QED  BY <1>1, <2>3 DEF NodeInv
<1>3. CASE ~MidBody
  <2>1. /\ Len(head) < HeadLen
        /\ Position = Current + Len(head)
        /\ head = Slice(stream.bytes, Current, Position)
    BY <1>3 DEF IInv, Track, NodeInv, NodesHoldFrame
  <2>2. /\ Len(head') < HeadLen
        /\ Position' = Current' + Len(head')
        /\ head' = Slice(stream'.bytes, Current', Position')
    BY <1>1, <2>1
  <2>3. NodesHoldFrame'
    BY <1>3, <2>2 DEF NodesHoldFrame
  <2>. QED  BY <1>1, <2>3 DEF NodeInv
<1>. QED  BY <1>2, <1>3

\* Posting the frame at Current keeps Framing and moves Current behind it.
LEMMA PostFacts ==
  ASSUME IInv, ~overrun, IsFrame(stream.bytes, Current), UNCHANGED stream,
         NEW p, p = Current + HeadLen + HeaderLen(stream.bytes, Current),
         posted' = Append(posted,
                     Message(HeaderId(stream.bytes, Current),
                             Slice(stream.bytes, Current + HeadLen, p)))
  PROVE  /\ Framing'
         /\ posted' \in Seq([id : Short, data : Seq(Byte)])
         /\ Current' = p
         /\ Len(posted') = Len(posted) + 1
<1> DEFINE m == Message(HeaderId(stream.bytes, Current),
                        Slice(stream.bytes, Current + HeadLen, p))
<1>1. /\ stream.bytes \in Seq(Byte) /\ Current \in Nat
      /\ Len(posted) \in Nat /\ NFrames \in Nat
  BY StreamFacts
<1>2. /\ Len(posted) < NFrames /\ stream.start[Len(posted) + 2] = p
  BY CurrentFrame
<1>3. /\ Current + HeadLen <= Len(stream.bytes) /\ p <= Len(stream.bytes)
      /\ HeaderLen(stream.bytes, Current) \in Nat
  BY DEF IsFrame, HeaderValid
<1>4. m \in [id : Short, data : Seq(Byte)]
  <2>1. HeaderId(stream.bytes, Current) \in Short
    BY <1>1, <1>3, HeaderType
  <2>2. Current + HeadLen \in Nat /\ p \in Nat /\ Current + HeadLen <= p
    BY <1>1, <1>3, HeadLenType
  <2>3. Slice(stream.bytes, Current + HeadLen, p) \in Seq(Byte)
    BY <1>1, <1>3, <2>2, SliceProperties
  <2>. QED  BY <2>1, <2>3 DEF Message
<1>5. posted \in Seq([id : Short, data : Seq(Byte)])
  BY DEF IInv, Base, TypeOK
<1> HIDE DEF m
<1>6. posted' = Append(posted, m)
  BY DEF m
<1>7. /\ posted' \in Seq([id : Short, data : Seq(Byte)])
      /\ Len(posted') = Len(posted) + 1
      /\ \A i \in 1 .. Len(posted) : posted'[i] = posted[i]
      /\ posted'[Len(posted) + 1] = m
  BY <1>4, <1>5, <1>6, AppendProperties
<1>8. NFrames' = NFrames
  BY DEF NFrames
<1>9. m = Frame(Len(posted) + 1)
  <2>1. (Len(posted) + 1) + 1 = Len(posted) + 2
    BY <1>1
  <2>. QED  BY <1>2, <2>1 DEF m, Frame, Current
<1>10. ASSUME NEW i \in 1 .. Len(posted) + 1  PROVE posted'[i] = Frame(i)'
  <2>1. Frame(i)' = Frame(i)
    BY DEF Frame
  <2>2. CASE i = Len(posted) + 1
    BY <1>7, <1>9, <2>1, <2>2
  <2>3. CASE i \in 1 .. Len(posted)
    BY <1>7, <2>1, <2>3, StreamFacts DEF IInv, Track, Framing
  <2>. QED  BY <1>1, <2>2, <2>3
<1>11. Framing'
  <2>1. Len(posted') <= NFrames'
    BY <1>1, <1>2, <1>7, <1>8
  <2>2. \A i \in 1 .. Len(posted') : posted'[i] = Frame(i)'
    BY <1>7, <1>10
  <2>. QED  BY <2>1, <2>2 DEF Framing
<1>12. Current' = p
  <2>1. Len(posted)' + 1 = Len(posted) + 2
    BY <1>1, <1>7
  <2>. QED  BY <1>2, <2>1 DEF Current
<1>. QED  BY <1>7, <1>11, <1>12

\* Start, the kernel, and what the thread does outside the loop but for ending
\* the session: the nodes and the posted messages stay as they are.
LEMMA QuietTrack ==
  ASSUME IInv, ~overrun,
         Start \/ Kernel \/ HandleRead \/ SetHeadParse
  PROVE  Track'
<1>1. /\ UNCHANGED <<stream, posted, head, msg, overrun>>
      /\ life \in {"new", "open"} /\ life' \in {"new", "open"}
  <2>1. CASE Start
    BY <2>1 DEF Start
  <2>2. CASE Kernel
    BY <2>2 DEF Kernel, ReadSome, ReadFails, IInv, Base, BufferInv
  <2>3. CASE HandleRead
    BY <2>3 DEF HandleRead, IInv, Base, BufferInv
  <2>4. CASE SetHeadParse
    BY <2>4 DEF SetHeadParse, IInv, Base, BufferInv
  <2>. QED  BY <2>1, <2>2, <2>3, <2>4
<1>2. Position' = Position
  <2>1. CASE Start
    BY <2>1 DEF Start, async_read_some, Position, Unread, IInv, Base, BufferInv
  <2>2. ASSUME NEW n \in 1 .. MAX_LENGTH, ReadSome(n) PROVE Position' = Position
    <3>1. Len(data') = n /\ taken \in Nat /\ n \in Nat
      BY <2>2, ReadSomeBase, Numbers DEF IInv
    <3>2. bytes_transferred = 0 /\ read = "armed"
      BY <2>2 DEF ReadSome, IInv, Base, BufferInv
    <3>3. Position = taken - 0
      BY <3>2 DEF Position, Unread
    <3>4. Position' = (taken + n) - n
      BY <2>2, <3>1 DEF Position, Unread, ReadSome
    <3>. QED  BY <3>1, <3>3, <3>4
  <2>3. CASE ReadFails
    BY <2>3 DEF ReadFails, Position, Unread
  <2>4. CASE HandleRead
    BY <2>4 DEF HandleRead, Position, Unread
  <2>5. CASE SetHeadParse
    BY <2>5 DEF SetHeadParse, Position, Unread
  <2>. QED  BY <2>1, <2>2, <2>3, <2>4, <2>5 DEF Kernel
<1>3. MidBody' <=> MidBody
  BY DEF MidBody, Start, Kernel, ReadSome, ReadFails, HandleRead, SetHeadParse,
         HandlerMayRun
<1>4. RefusedForCause'
  BY <1>1 DEF RefusedForCause
<1>. QED  BY <1>1, <1>2, <1>3, <1>4, KeepNodes DEF Track

\* The error branch of HandleRead.
LEMMA HandleReadErrorTrack ==
  ASSUME IInv, ~overrun, HandleReadError
  PROVE  Track'
<1> USE DEF HandleReadError
<1>1. NodeInv' /\ RefusedForCause'
  BY DEF NodeInv, RefusedForCause
<1>. QED  BY <1>1, KeepFraming DEF Track

\* An iteration that ends inside a header keeps what is known of the frames.
LEMMA HeadPartialTrack ==
  ASSUME IInv, ~overrun, HeadPartial
  PROVE  Track'
<1> DEFINE b == bytes_transferred
<1>0. /\ pc = "loop" /\ ~b_head_parse /\ b + Len(head) < HeadLen
      /\ head' = head \o Chunk(b)
      /\ Rearm("idle")
      /\ UNCHANGED <<stream, taken, msg, b_head_parse, posted, life, overrun>>
  BY DEF HeadPartial, InHead
<1> HIDE DEF b
<1>1. life = "open" /\ ~MidBody
  BY <1>0 DEF IInv, Base, BufferInv, MidBody
<1>2. /\ Len(head) < HeadLen
      /\ Position = Current + Len(head)
      /\ head = Slice(stream.bytes, Current, Position)
  BY <1>1 DEF IInv, Track, NodeInv, NodesHoldFrame
<1>3. /\ Current \in Nat /\ stream.bytes \in Seq(Byte) /\ Len(head) \in Nat
      /\ b \in Nat /\ copy_len \in Nat /\ taken \in Nat /\ taken <= Len(stream.bytes)
      /\ MAX_LENGTH \in Nat /\ b <= MAX_LENGTH
  BY StreamFacts, Numbers DEF b, IInv
<1>4. Position \in Nat /\ Position + b = taken
  BY <1>0, <1>3, LoopFacts DEF b, IInv
<1>4a. Position <= taken /\ Current <= Position /\ Current <= taken
  BY <1>2, <1>3, <1>4
<1>4b. Position \in Nat
  BY <1>4
<1>5. Chunk(b) = Slice(stream.bytes, Position, taken)
  <2>1. 0 \in Nat /\ copy_len + 0 = copy_len /\ Position + 0 = Position
    BY <1>3, <1>4
  <2>2. Slice(data, copy_len + 0, copy_len + b) = Slice(stream.bytes, Position + 0, Position + b)
    <3>1. \A j, k \in Nat : j <= k /\ k <= b =>
            Slice(data, copy_len + j, copy_len + k)
              = Slice(stream.bytes, Position + j, Position + k)
      BY <1>0, LoopFacts DEF b, IInv
    <3>2. 0 <= b /\ b <= b /\ b \in Nat
      BY <1>3
    <3>. QED  BY <2>1, <3>1, <3>2
  <2>. QED  BY <1>4, <2>1, <2>2 DEF Chunk
<1>6. head' = Slice(stream.bytes, Current, taken)
  <2>1. Slice(stream.bytes, Current, Position) \o Slice(stream.bytes, Position, taken)
          = Slice(stream.bytes, Current, taken)
    BY <1>3, <1>4a, <1>4b, SliceConcat
  <2>. QED  BY <1>0, <1>2, <1>5, <2>1
<1>7. head' \in Seq(Byte) /\ Len(head') = taken - Current
  <2>1. /\ Slice(stream.bytes, Current, taken) \in Seq(Byte)
        /\ Len(Slice(stream.bytes, Current, taken)) = taken - Current
    <3>1. Current <= taken
      BY <1>4a
    <3>2. /\ Current \in Nat /\ taken \in Nat /\ stream.bytes \in Seq(Byte)
          /\ taken <= Len(stream.bytes)
      BY <1>3
    <3>. QED  BY <3>1, <3>2, SliceProperties
  <2>. QED  BY <1>6, <2>1
<1>8. RefusedForCause' /\ Position' = taken
  BY <1>0, RearmFacts DEF IInv
<1>9. Framing' /\ Current' = Current
  BY <1>0, KeepFraming
<1>11. NodeInv'
  <2>1. ~MidBody'
    BY <1>0 DEF MidBody, Rearm
  <2>2. /\ Len(head') < HeadLen
        /\ Position' = Current' + Len(head')
        /\ head' = Slice(stream'.bytes, Current', Position')
    <3>1. stream' = stream /\ Position' = taken /\ Current' = Current
      BY <1>0, <1>8, <1>9
    <3>2. Len(head') < HeadLen
      BY <1>0, <1>2, <1>3, <1>4, <1>7, HeadLenType
    <3>3. Position' = Current' + Len(head')
      BY <1>3, <1>7, <3>1
    <3>. QED  BY <1>6, <3>1, <3>2, <3>3
  <2>3. NodesHoldFrame'
    BY <2>1, <2>2 DEF NodesHoldFrame
  <2>. QED  BY <1>0, <2>3 DEF NodeInv
<1>. QED  BY <1>8, <1>9, <1>11 DEF Track

\* Leaving the loop for a header that is not valid.
LEMMA LeaveTrack ==
  ASSUME IInv, ~overrun, HeadComplete, NEW end \in {"cleared", "threw"}, Leave(end),
         ~HeaderValid(stream.bytes, Current)
  PROVE  Track'
<1> USE DEF Leave
<1>1. NodeInv'
  BY DEF NodeInv
<1>2. Framing' /\ Current' = Current /\ NFrames' = NFrames
  BY KeepFraming
<1>3. RefusedForCause'
  <2>1. Current + HeadLen <= Len(stream.bytes)
    BY HeadFacts
  <2>2. Len(posted) = NFrames
    BY CurrentFrame DEF IsFrame
  <2>. QED  BY <1>2, <2>1, <2>2 DEF RefusedForCause
<1>. QED  BY <1>1, <1>2, <1>3 DEF Track

\* The refusal of a header keeps what is known of the frames.
LEMMA HeadRefusedTrack ==
  ASSUME IInv, ~overrun, HeadRefused
  PROVE  Track'
<1>1. HeadComplete /\ Leave("cleared") /\ (msg_id > MAX_LENGTH \/ msg_len > MAX_LENGTH)
  BY DEF HeadRefused
<1>2. /\ msg_id = HeaderId(stream.bytes, Current)
      /\ msg_len = HeaderLen(stream.bytes, Current)
      /\ msg_id \in Int /\ msg_len \in Int
  BY <1>1, HeadFacts DEF Short
<1>3. ~HeaderValid(stream.bytes, Current)
  BY <1>1, <1>2, MaxLengthAssumption DEF HeaderValid
<1>. QED  BY <1>1, <1>3, LeaveTrack

\* The exception of RecvNode's allocation keeps what is known of the frames.
LEMMA RecvNodeThrowsTrack ==
  ASSUME IInv, ~overrun, RecvNodeThrows
  PROVE  Track'
<1>1. HeadComplete /\ Leave("threw") /\ msg_len < -1
  BY DEF RecvNodeThrows, HeadAccepted
<1>2. msg_len = HeaderLen(stream.bytes, Current) /\ msg_len \in Int
  BY <1>1, HeadFacts DEF Short
<1>3. ~HeaderValid(stream.bytes, Current)
  BY <1>1, <1>2, MaxLengthAssumption DEF HeaderValid
<1>. QED  BY <1>1, <1>3, LeaveTrack

\* A header that HandleRead accepts and can allocate for is a valid one.
LEMMA AcceptedValid ==
  ASSUME IInv, ~overrun, HeadAccepted, msg_len >= 0
  PROVE  HeadComplete /\ HeaderValid(stream.bytes, Current) /\ msg_len \in Nat
<1>1. HeadComplete /\ msg_id <= MAX_LENGTH /\ msg_len <= MAX_LENGTH
  BY DEF HeadAccepted
<1>2. /\ msg_id = HeaderId(stream.bytes, Current)
      /\ msg_len = HeaderLen(stream.bytes, Current)
      /\ msg_id \in Int /\ msg_len \in Int
  BY <1>1, HeadFacts DEF Short
<1>. QED  BY <1>1, <1>2, MaxLengthAssumption DEF HeaderValid

\* An iteration that completes a header and ends inside its body keeps what is known of the frames.
LEMMA HeadThenPartialBodyTrack ==
  ASSUME IInv, ~overrun, msg_len >= 0, HeadThenPartialBody
  PROVE  Track'
<1> DEFINE b == bytes_transferred - head_remain
           body == Current + HeadLen
<1>0. /\ HeadAccepted /\ msg_len >= 0 /\ size_less(b, msg_len)
      /\ msg' = [id |-> msg_id, total_len |-> msg_len, data |-> BodyAfterHead(b)]
      /\ Rearm("rearmed")
      /\ UNCHANGED <<stream, taken, head, b_head_parse, posted, life>>
  BY DEF HeadThenPartialBody
<1>0a. ~overrun'
  <2>1. msg_len # -1
    OBVIOUS
  <2>. QED  BY <2>1 DEF HeadThenPartialBody
<1>1. HeadComplete /\ HeaderValid(stream.bytes, Current) /\ msg_len \in Nat
  BY <1>0, AcceptedValid
<1>1a. b < msg_len
  BY <1>0, <1>1 DEF size_less
<1>2. pc = "loop" /\ ~b_head_parse
  BY <1>1 DEF HeadComplete, InHead
<1>3. /\ bytes_transferred \in Nat /\ head_remain \in Nat /\ head_remain <= bytes_transferred
      /\ Position \in Nat /\ Position = taken - bytes_transferred
      /\ Position + head_remain = body
      /\ body <= Len(stream.bytes)
      /\ msg_id = HeaderId(stream.bytes, Current)
      /\ msg_len = HeaderLen(stream.bytes, Current)
      /\ msg_id \in Short
  BY <1>1, HeadFacts, HeadLenType
<1>4. /\ Current \in Nat /\ stream.bytes \in Seq(Byte) /\ taken \in Nat
      /\ taken <= Len(stream.bytes) /\ body \in Nat
  <2>1. Current \in Nat /\ stream.bytes \in Seq(Byte)
    BY StreamFacts
  <2>2. taken \in Nat /\ taken <= Len(stream.bytes)
    BY Numbers DEF IInv
  <2>. QED  BY <2>1, <2>2, HeadLenType
<1>5. BodyAfterHead(b) = Slice(stream.bytes, body, body + b)
  <2>1. b \in Nat /\ head_remain + b <= bytes_transferred
    BY <1>3
  <2> HIDE DEF b
  <2>2. \A n \in Nat : head_remain + n <= bytes_transferred =>
          BodyAfterHead(n) = Slice(stream.bytes, body, body + n)
    BY <1>1, HeadFacts
  <2>. QED  BY <2>1, <2>2
<1>6. body + b = taken /\ b \in Nat /\ body <= taken /\ taken - body = b
  BY <1>3, <1>4
<1> HIDE DEF b, body
<1>7. msg'.data = Slice(stream.bytes, body, taken)
  BY <1>0, <1>5, <1>6
<1>8. msg'.data \in Seq(Byte) /\ Len(msg'.data) = b
  <2>1. /\ Slice(stream.bytes, body, taken) \in Seq(Byte)
        /\ Len(Slice(stream.bytes, body, taken)) = taken - body
    <3>1. body <= taken
      BY <1>6
    <3>. QED  BY <1>4, <3>1, SliceProperties
  <2>. QED  BY <1>6, <1>7, <2>1
<1>9. RefusedForCause' /\ Position' = taken
  BY <1>0, <1>2, RearmFacts DEF IInv
<1>10. Framing' /\ Current' = Current
  BY <1>0, KeepFraming
<1>11. msg'.id = msg_id /\ msg'.total_len = msg_len
  BY <1>0
<1>13. NodeInv'
  <2>1. MidBody'
    BY <1>0 DEF MidBody, Rearm
  <2>2. stream' = stream /\ Position' = taken /\ Current' = Current
    BY <1>0, <1>9, <1>10
  <2>3. /\ Current' + HeadLen <= Len(stream'.bytes)
        /\ HeaderValid(stream'.bytes, Current')
        /\ msg'.id = HeaderId(stream'.bytes, Current')
        /\ msg'.total_len = HeaderLen(stream'.bytes, Current')
    BY <1>1, <1>3, <1>11, <2>2 DEF body
  <2>4. Len(msg'.data) < msg'.total_len
    BY <1>1a, <1>8, <1>11
  <2>5. Position' = Current' + HeadLen + Len(msg'.data)
    BY <1>6, <1>8, <2>2 DEF body
  <2>6. msg'.data = Slice(stream'.bytes, Current' + HeadLen, Position')
    BY <1>7, <2>2 DEF body
  <2>7. NodesHoldFrame'
    BY <2>1, <2>3, <2>4, <2>5, <2>6 DEF NodesHoldFrame
  <2>. QED  BY <1>0a, <2>7 DEF NodeInv
<1>. QED  BY <1>9, <1>10, <1>13 DEF Track

\* Posting the frame at Current and going on behind it.
LEMMA FramePostedTrack ==
  ASSUME IInv, ~overrun, pc = "loop", NEW n \in Nat, n <= bytes_transferred,
         NEW e, e = Current + HeadLen + HeaderLen(stream.bytes, Current),
         Current + HeadLen <= Len(stream.bytes),
         HeaderValid(stream.bytes, Current),
         Position + n = e,
         PostMsg(Message(HeaderId(stream.bytes, Current),
                         Slice(stream.bytes, Current + HeadLen, e))),
         Advance(n), UNCHANGED <<stream, taken, life, overrun>>
  PROVE  Track'
<1>1. /\ posted' = Append(posted, Message(HeaderId(stream.bytes, Current),
                         Slice(stream.bytes, Current + HeadLen, e)))
      /\ b_head_parse' = FALSE /\ head' = <<>>
  BY DEF PostMsg
<1>2. Position \in Nat /\ Position + bytes_transferred <= Len(stream.bytes)
  BY LoopFacts DEF IInv
<1>3. e \in Nat /\ e <= Len(stream.bytes)
  BY <1>2, Numbers DEF IInv
<1>4. IsFrame(stream.bytes, Current)
  BY <1>3 DEF IsFrame
<1>5. Framing' /\ Current' = e
  BY <1>1, <1>4, PostFacts
<1>6. RefusedForCause' /\ Position' = Position + n /\ ~MidBody'
  BY <1>1, AdvanceFacts DEF IInv
<1>8. NodeInv'
  <2>1. Position' = e /\ Current' = e /\ Len(head') = 0 /\ e + 0 = e
    BY <1>1, <1>3, <1>5, <1>6
  <2>2. Slice(stream'.bytes, e, e) = <<>>
    BY <1>3, SliceEmpty
  <2>3. /\ Len(head') < HeadLen
        /\ Position' = Current' + Len(head')
        /\ head' = Slice(stream'.bytes, Current', Position')
    BY <1>1, <2>1, <2>2, HeadLenType
  <2>4. NodesHoldFrame'
    BY <1>6, <2>3 DEF NodesHoldFrame
  <2>. QED  BY <2>4 DEF NodeInv
<1>. QED  BY <1>5, <1>6, <1>8 DEF Track

\* An iteration that completes a header and its body keeps what is known of the frames.
LEMMA HeadThenWholeBodyTrack ==
  ASSUME IInv, ~overrun, HeadThenWholeBody
  PROVE  Track'
<1> DEFINE body == Current + HeadLen
           n    == head_remain + msg_len
<1>0. /\ HeadAccepted /\ msg_len >= 0 /\ bytes_transferred - head_remain >= msg_len
      /\ PostMsg(Message(msg_id, BodyAfterHead(msg_len)))
      /\ Advance(n)
      /\ UNCHANGED <<stream, taken, life, overrun>>
  <2>1. /\ HeadAccepted /\ msg_len >= -1
        /\ ~size_less(bytes_transferred - head_remain, msg_len)
        /\ PostMsg(Message(msg_id, BodyAfterHead(msg_len)))
        /\ Advance(n)
        /\ UNCHANGED <<stream, taken, life, overrun>>
    BY DEF HeadThenWholeBody
  <2>2. /\ HeadComplete /\ bytes_transferred \in Int
    BY <2>1, Numbers DEF HeadAccepted, IInv
  <2>3. /\ msg_len \in Int /\ head_remain \in Int
    BY <2>2, HeadFacts, HeadLenType DEF Short
  <2>4. msg_len >= 0 /\ bytes_transferred - head_remain >= msg_len
    BY <2>1, <2>2, <2>3 DEF size_less
  <2>. QED  BY <2>1, <2>4
<1>1. HeadComplete /\ HeaderValid(stream.bytes, Current) /\ msg_len \in Nat
  BY <1>0, AcceptedValid
<1>2. pc = "loop"
  BY <1>1 DEF HeadComplete, InHead
<1>3. /\ bytes_transferred \in Nat /\ head_remain \in Nat
      /\ Position \in Nat
      /\ Position + head_remain = body
      /\ body <= Len(stream.bytes)
      /\ msg_id = HeaderId(stream.bytes, Current)
      /\ msg_len = HeaderLen(stream.bytes, Current)
      /\ msg_id \in Short
      /\ Position + bytes_transferred <= Len(stream.bytes)
  BY <1>1, HeadFacts, HeadLenType
<1>4. Current \in Nat /\ stream.bytes \in Seq(Byte) /\ body \in Nat
  BY StreamFacts, HeadLenType
<1>5. n \in Nat /\ n <= bytes_transferred /\ Position + n = body + msg_len
  BY <1>0, <1>1, <1>3, <1>4
<1>6. BodyAfterHead(msg_len) = Slice(stream.bytes, body, body + msg_len)
  <2>1. \A k \in Nat : head_remain + k <= bytes_transferred =>
          BodyAfterHead(k) = Slice(stream.bytes, body, body + k)
    BY <1>1, HeadFacts
  <2>. QED  BY <1>1, <1>5, <2>1
<1>8. PostMsg(Message(HeaderId(stream.bytes, Current),
                      Slice(stream.bytes, Current + HeadLen, body + msg_len)))
  BY <1>0, <1>3, <1>6
<1>9. body + msg_len = Current + HeadLen + HeaderLen(stream.bytes, Current)
  BY <1>3
<1>10. Current + HeadLen <= Len(stream.bytes)
  BY <1>3
<1> HIDE DEF body, n
<1>. QED  BY <1>0, <1>1, <1>2, <1>5, <1>8, <1>9, <1>10, FramePostedTrack

\* An iteration that continues a body knows the header it belongs to, and
\* the bytes it copies are the next ones of that body.
LEMMA BodyFacts ==
  ASSUME IInv, ~overrun, InBody, NEW body, body = Current + HeadLen
  PROVE  /\ body \in Nat /\ body <= Len(stream.bytes)
         /\ HeaderValid(stream.bytes, Current)
         /\ msg.id = HeaderId(stream.bytes, Current)
         /\ msg.total_len = HeaderLen(stream.bytes, Current)
         /\ msg.total_len \in Nat
         /\ remain_msg \in Nat
         /\ Position + remain_msg = body + msg.total_len
         /\ \A n \in Nat : n <= bytes_transferred =>
              msg.data \o Chunk(n) = Slice(stream.bytes, body, Position + n)
<1>1. pc = "loop" /\ b_head_parse
  BY DEF InBody
<1>2. life = "open" /\ MidBody
  BY <1>1 DEF IInv, Base, BufferInv, MidBody
<1>3. /\ body <= Len(stream.bytes)
      /\ HeaderValid(stream.bytes, Current)
      /\ msg.id = HeaderId(stream.bytes, Current)
      /\ msg.total_len = HeaderLen(stream.bytes, Current)
      /\ Len(msg.data) < msg.total_len
      /\ Position = body + Len(msg.data)
      /\ msg.data = Slice(stream.bytes, body, Position)
  BY <1>2 DEF IInv, Track, NodeInv, NodesHoldFrame
<1>4. /\ body \in Nat /\ stream.bytes \in Seq(Byte)
  BY StreamFacts, HeadLenType
<1>5. /\ Len(msg.data) \in Nat /\ msg.total_len \in Nat
      /\ bytes_transferred \in Nat /\ copy_len \in Nat
  <2>1. HeaderLen(stream.bytes, Current) \in Nat
    BY <1>3 DEF HeaderValid
  <2>. QED  BY <1>3, <2>1, Numbers DEF IInv
<1>6. remain_msg \in Nat /\ Position + remain_msg = body + msg.total_len
  <2>1. msg.total_len < 32768
    <3>1. Current \in Nat /\ Current + HeadLen <= Len(stream.bytes)
      BY <1>3, StreamFacts
    <3>2. HeaderLen(stream.bytes, Current) \in Short
      BY <1>4, <3>1, HeaderType
    <3>. QED  BY <1>3, <3>2 DEF Short
  <2>2. NarrowShort(Len(msg.data)) = Len(msg.data)
    BY <1>3, <1>5, <2>1, NarrowLen
  <2>. QED  BY <1>3, <1>4, <1>5, <2>2 DEF remain_msg
<1>7. ASSUME NEW n \in Nat, n <= bytes_transferred
      PROVE  msg.data \o Chunk(n) = Slice(stream.bytes, body, Position + n)
  <2>1. /\ Position \in Nat /\ Position + bytes_transferred <= Len(stream.bytes)
        /\ \A j, k \in Nat : j <= k /\ k <= bytes_transferred =>
              Slice(data, copy_len + j, copy_len + k)
                = Slice(stream.bytes, Position + j, Position + k)
    BY <1>1, LoopFacts DEF IInv
  <2>2. copy_len + 0 = copy_len /\ Position + 0 = Position /\ 0 <= n
    BY <1>5, <2>1
  <2>3. Slice(data, copy_len + 0, copy_len + n) = Slice(stream.bytes, Position + 0, Position + n)
    BY <1>7, <2>1, <2>2
  <2>4. Chunk(n) = Slice(stream.bytes, Position, Position + n)
    BY <2>2, <2>3 DEF Chunk
  <2>5. /\ body <= Position /\ Position <= Position + n /\ Position + n \in Nat
        /\ Position + n <= Len(stream.bytes) /\ Position \in Nat
    <3>1. Position \in Nat /\ Position + bytes_transferred <= Len(stream.bytes)
      BY <2>1
    <3>2. Position = body + Len(msg.data)
      BY <1>3
    <3>3. body <= Position
      BY <1>4, <1>5, <3>2
    <3>4. Len(stream.bytes) \in Nat
      BY <1>4
    <3>. QED  BY <1>5, <1>7, <3>1, <3>3, <3>4
  <2>6. Slice(stream.bytes, body, Position) \o Slice(stream.bytes, Position, Position + n)
          = Slice(stream.bytes, body, Position + n)
    BY <1>4, <2>5, SliceConcat
  <2>. QED  BY <1>3, <2>4, <2>6
<1>. QED  BY <1>3, <1>4, <1>5, <1>6, <1>7

\* An iteration that ends inside a body begun earlier keeps what is known of the frames.
LEMMA BodyPartialTrack ==
  ASSUME IInv, ~overrun, BodyPartial
  PROVE  Track'
<1> DEFINE body == Current + HeadLen
<1>0. /\ InBody /\ size_less(bytes_transferred, remain_msg)
      /\ msg' = [msg EXCEPT !.data = msg.data \o Chunk(bytes_transferred)]
      /\ Rearm("idle")
      /\ UNCHANGED <<stream, taken, head, b_head_parse, posted, life, overrun>>
  BY DEF BodyPartial
<1> HIDE DEF body
<1>1. pc = "loop" /\ b_head_parse
  BY <1>0 DEF InBody
<1>2. /\ body \in Nat /\ body <= Len(stream.bytes)
      /\ HeaderValid(stream.bytes, Current)
      /\ msg.id = HeaderId(stream.bytes, Current)
      /\ msg.total_len = HeaderLen(stream.bytes, Current)
      /\ msg.total_len \in Nat
      /\ remain_msg \in Nat
      /\ Position + remain_msg = body + msg.total_len
      /\ \A n \in Nat : n <= bytes_transferred =>
           msg.data \o Chunk(n) = Slice(stream.bytes, body, Position + n)
  BY <1>0, BodyFacts DEF body
<1>3. /\ stream.bytes \in Seq(Byte) /\ taken \in Nat /\ taken <= Len(stream.bytes)
      /\ bytes_transferred \in Nat /\ msg.total_len \in Nat /\ msg.id \in Short
      /\ Len(msg.data) \in Nat
  BY <1>2, StreamFacts, Numbers DEF IInv
<1>4. Position \in Nat /\ Position + bytes_transferred = taken
  BY <1>1, <1>3, LoopFacts DEF IInv
<1>5. msg.data \o Chunk(bytes_transferred) = Slice(stream.bytes, body, taken)
  <2>1. msg.data \o Chunk(bytes_transferred)
          = Slice(stream.bytes, body, Position + bytes_transferred)
    <3>1. bytes_transferred \in Nat /\ bytes_transferred <= bytes_transferred
      BY <1>3
    <3>. QED  BY <1>2, <3>1
  <2>. QED  BY <1>4, <2>1
<1>6. Position = body + Len(msg.data)
  <2>1. life = "open" /\ MidBody
    BY <1>1 DEF IInv, Base, BufferInv, MidBody
  <2>. QED  BY <2>1 DEF IInv, Track, NodeInv, NodesHoldFrame, body
<1>7. body <= taken /\ taken - body < msg.total_len
  <2>1. /\ body \in Nat /\ remain_msg \in Nat
        /\ Position + remain_msg = body + msg.total_len
    BY <1>2
  <2>2. bytes_transferred < remain_msg
    BY <1>0, <2>1 DEF size_less
  <2>3. /\ taken \in Nat /\ bytes_transferred \in Nat /\ msg.total_len \in Nat
        /\ Len(msg.data) \in Nat
    BY <1>3
  <2>. QED  BY <1>4, <1>6, <2>1, <2>2, <2>3
<1>8. /\ Slice(stream.bytes, body, taken) \in Seq(Byte)
      /\ Len(Slice(stream.bytes, body, taken)) = taken - body
  <2>1. /\ body \in Nat /\ taken \in Nat /\ stream.bytes \in Seq(Byte)
        /\ taken <= Len(stream.bytes)
    BY <1>2, <1>3
  <2>2. body <= taken
    BY <1>7
  <2>. QED  BY <2>1, <2>2, SliceProperties
<1>9. /\ msg'.id = msg.id /\ msg'.total_len = msg.total_len
      /\ msg'.data = Slice(stream.bytes, body, taken)
  <2>1. msg \in MsgNode
    BY DEF IInv, Base, TypeOK
  <2>. QED  BY <1>0, <1>5, <2>1 DEF MsgNode
<1>10. RefusedForCause' /\ Position' = taken
  BY <1>0, <1>1, RearmFacts DEF IInv
<1>11. Framing' /\ Current' = Current
  BY <1>0, KeepFraming
<1>13. NodeInv'
  <2>1. MidBody'
    BY <1>0, <1>1 DEF MidBody
  <2>2. stream' = stream /\ Position' = taken /\ Current' = Current
    BY <1>0, <1>10, <1>11
  <2>3. /\ Current' + HeadLen <= Len(stream'.bytes)
        /\ HeaderValid(stream'.bytes, Current')
        /\ msg'.id = HeaderId(stream'.bytes, Current')
        /\ msg'.total_len = HeaderLen(stream'.bytes, Current')
    BY <1>2, <1>9, <2>2 DEF body
  <2>4. Len(msg'.data) < msg'.total_len
    BY <1>7, <1>8, <1>9
  <2>5. Position' = Current' + HeadLen + Len(msg'.data)
    <3>1. body + (taken - body) = taken
      BY <1>2, <1>3
    <3>. QED  BY <1>8, <1>9, <2>2, <3>1 DEF body
  <2>6. msg'.data = Slice(stream'.bytes, Current' + HeadLen, Position')
    BY <1>9, <2>2 DEF body
  <2>7. NodesHoldFrame'
    BY <2>1, <2>3, <2>4, <2>5, <2>6 DEF NodesHoldFrame
  <2>. QED  BY <1>0, <2>7 DEF NodeInv
<1>. QED  BY <1>10, <1>11, <1>13 DEF Track

\* An iteration that completes a body begun earlier keeps what is known of the frames.
LEMMA BodyWholeTrack ==
  ASSUME IInv, ~overrun, BodyWhole
  PROVE  Track'
<1> DEFINE body == Current + HeadLen
           n    == remain_msg
<1>0. /\ InBody /\ ~size_less(bytes_transferred, remain_msg)
      /\ PostMsg(Message(msg.id, msg.data \o Chunk(n)))
      /\ Advance(n)
      /\ UNCHANGED <<stream, taken, life, overrun>>
  BY DEF BodyWhole
<1> HIDE DEF body
<1>1. pc = "loop"
  BY <1>0 DEF InBody
<1>2. /\ body \in Nat /\ body <= Len(stream.bytes)
      /\ HeaderValid(stream.bytes, Current)
      /\ msg.id = HeaderId(stream.bytes, Current)
      /\ msg.total_len = HeaderLen(stream.bytes, Current)
      /\ msg.total_len \in Nat
      /\ remain_msg \in Nat
      /\ Position + n = body + msg.total_len
      /\ \A k \in Nat : k <= bytes_transferred =>
           msg.data \o Chunk(k) = Slice(stream.bytes, body, Position + k)
  BY <1>0, BodyFacts DEF body
<1>3. /\ stream.bytes \in Seq(Byte) /\ bytes_transferred \in Nat
      /\ msg.total_len \in Nat /\ msg.id \in Short
  BY <1>2, StreamFacts, Numbers DEF IInv
<1>4. n \in Nat /\ n <= bytes_transferred
  BY <1>0, <1>2, <1>3 DEF size_less
<1> HIDE DEF n
<1> DEFINE e == body + msg.total_len
<1> HIDE DEF e
<1>5. Position + n = e /\ e = Current + HeadLen + HeaderLen(stream.bytes, Current)
  BY <1>2 DEF e, body
<1>6. msg.data \o Chunk(n) = Slice(stream.bytes, body, e)
  BY <1>2, <1>4, <1>5
<1>8. PostMsg(Message(HeaderId(stream.bytes, Current),
                      Slice(stream.bytes, Current + HeadLen, e)))
  BY <1>0, <1>2, <1>6 DEF body
<1>9. Current + HeadLen <= Len(stream.bytes) /\ HeaderValid(stream.bytes, Current)
  BY <1>2 DEF body
<1>. QED  BY <1>0, <1>1, <1>4, <1>5, <1>8, <1>9, FramePostedTrack

-----------------------------------------------------------------------------
(* A node of length -1, and after it. *)

\* A header whose length is -1 is taken for one whose body is still to come;
\* every frame has been posted by then.
LEMMA OverrunTrack ==
  ASSUME IInv, ~overrun, msg_len = -1, HeadThenPartialBody
  PROVE  Track'
<1>1. HeadComplete /\ msg_id <= MAX_LENGTH
  BY DEF HeadThenPartialBody, HeadAccepted
<1>2. /\ UNCHANGED <<stream, posted, life>> /\ overrun' = TRUE
  BY DEF HeadThenPartialBody
<1>3. /\ Current + HeadLen <= Len(stream.bytes)
      /\ msg_id = HeaderId(stream.bytes, Current)
      /\ msg_len = HeaderLen(stream.bytes, Current)
  BY <1>1, HeadFacts
<1>4. Len(posted) = NFrames /\ NFrames \in Nat
  <2>1. ~HeaderValid(stream.bytes, Current)
    BY <1>3 DEF HeaderValid
  <2>. QED  BY <2>1, CurrentFrame, StreamFacts DEF IsFrame
<1>5. HeaderUnrefused
  BY <1>1, <1>3, <1>4 DEF HeaderUnrefused, Current
<1>6. Framing' /\ NFrames' = NFrames
  BY <1>2, KeepFraming
<1>7. HeaderUnrefused'
  BY <1>2, <1>5, <1>6 DEF HeaderUnrefused
<1>8. NodeInv'
  BY <1>2, <1>4, <1>6, <1>7 DEF NodeInv
<1>. QED  BY <1>2, <1>6, <1>8 DEF Track, RefusedForCause

\* What has been posted before a node of length -1 was made stays posted.
LEMMA BeyondTrack ==
  ASSUME IInv, overrun, overrun', UNCHANGED stream,
         posted' = posted \/ \E m : posted' = Append(posted, m)
  PROVE  Track'
<1>1. Len(posted) \in Nat /\ NFrames \in Nat /\ Len(posted) >= NFrames /\ HeaderUnrefused
  BY StreamBase DEF IInv, Base, TypeOK, Track, NodeInv
<1>2. /\ Len(posted') \in Nat /\ Len(posted') >= Len(posted)
      /\ \A i \in 1 .. Len(posted) : posted'[i] = posted[i]
  <2>1. posted \in Seq([id : Short, data : Seq(Byte)])
    BY DEF IInv, Base, TypeOK
  <2>2. CASE posted' = posted
    BY <1>1, <2>2
  <2>3. ASSUME NEW m, posted' = Append(posted, m)
        PROVE  /\ Len(posted') \in Nat /\ Len(posted') >= Len(posted)
               /\ \A i \in 1 .. Len(posted) : posted'[i] = posted[i]
    <3> DEFINE T == [id : Short, data : Seq(Byte)] \cup {m}
    <3>1. posted \in Seq(T) /\ m \in T
      <4>1. Len(posted) \in Nat /\ posted \in [1 .. Len(posted) -> T]
        <5> DEFINE R == [id : Short, data : Seq(Byte)]
        <5>1. posted \in Seq(R) /\ T = R \cup {m}
          BY <2>1
        <5> HIDE DEF R, T
        <5>2. Len(posted) \in Nat /\ posted \in [1 .. Len(posted) -> R]
          BY <5>1
        <5>. QED  BY <5>1, <5>2
      <4>2. posted \in Seq(T)
        BY <4>1, SeqDef
      <4>. QED  BY <4>2
    <3> HIDE DEF T
    <3>2. /\ Len(posted') = Len(posted) + 1
          /\ \A i \in 1 .. Len(posted) : posted'[i] = posted[i]
      BY <2>3, <3>1, AppendProperties
    <3>. QED  BY <1>1, <3>2
  <2>. QED  BY <2>2, <2>3
<1>3. NFrames' = NFrames
  BY DEF NFrames
<1>4. Framing'
  <2>1. \A i : Frame(i)' = Frame(i)
    BY DEF Frame
  <2>2. \A i \in 1 .. Len(posted) : i <= NFrames => posted[i] = Frame(i)
    BY DEF IInv, Track, Framing
  <2>3. \A i \in 1 .. Len(posted') : i <= NFrames => i \in 1 .. Len(posted)
    BY <1>1, <1>2
  <2>4. \A i \in 1 .. Len(posted') : i <= NFrames' => posted'[i] = Frame(i)'
    BY <1>2, <1>3, <2>1, <2>2, <2>3
  <2>. QED  BY <2>4 DEF Framing
<1>5. HeaderUnrefused'
  BY <1>1, <1>3 DEF HeaderUnrefused
<1>6. NodeInv'
  <2>1. Len(posted') >= NFrames'
    BY <1>1, <1>2, <1>3
  <2>. QED  BY <1>5, <2>1 DEF NodeInv
<1>. QED  BY <1>4, <1>6 DEF Track, RefusedForCause

-----------------------------------------------------------------------------
(* The inductive invariant. *)

\* The initial states satisfy the inductive invariant.
LEMMA InitInv == Init => IInv
<1> SUFFICES ASSUME Init PROVE IInv
  OBVIOUS
<1> USE DEF Init
<1>0. stream \in [bytes : Seq(Byte), start : Seq(Nat)]
  BY StreamsAssumption
<1>1. stream.bytes \in Seq(Byte) /\ IsFraming(stream.bytes, stream.start)
  BY <1>0, StreamsAssumption
<1>2. stream.start \in Seq(Nat) /\ stream.start # <<>> /\ stream.start[1] = 0
  BY <1>1 DEF IsFraming
<1>3. Slice(stream.bytes, 0, 0) = <<>>
  BY SliceEmpty
<1>4. Len(posted) = 0 /\ Current = 0 /\ Position = 0
  BY <1>2 DEF Current, Position, Unread
<1>5. TypeOK
  <2>1. msg \in MsgNode
    BY MaxLengthAssumption DEF MsgNode, Short
  <2>2. Len(stream.bytes) \in Nat
    BY <1>1
  <2>3. taken \in 0 .. Len(stream.bytes)
    BY <2>2
  <2>4. bytes_transferred \in 0 .. MAX_LENGTH /\ copy_len \in 0 .. MAX_LENGTH
    BY MaxLengthAssumption
  <2>5. b_head_parse \in BOOLEAN /\ overrun \in BOOLEAN
    OBVIOUS
  <2>6. data \in Seq(Byte) /\ head \in Seq(Byte)
        /\ posted \in Seq([id : Short, data : Seq(Byte)])
    OBVIOUS
  <2>7. /\ read \in {"none", "armed", "data", "error"}
        /\ pc \in {"idle", "loop", "rearmed"}
        /\ life \in {"new", "open"} \cup Ends
    OBVIOUS
  <2> HIDE DEF Init
  <2>. QED  BY <1>0, <2>1, <2>3, <2>4, <2>5, <2>6, <2>7 DEF TypeOK
<1>6. BufferInv
  BY <1>3, MaxLengthAssumption DEF BufferInv
<1>7. NodeInv
  <2>1. NodesHoldFrame
    BY <1>3, <1>4, HeadLenType DEF NodesHoldFrame, MidBody
  <2>. QED  BY <2>1 DEF NodeInv
<1>8. Framing
  BY <1>2 DEF Framing, NFrames
<1>9. NeverDeaf /\ RefusedForCause
  BY DEF NeverDeaf, RefusedForCause
<1>10. Len(head) < HeadLen
  BY HeadLenType
<1>. QED  BY <1>5, <1>6, <1>7, <1>8, <1>9, <1>10 DEF IInv, Base, Track

\* Every step, and a stuttering step, keeps the first part.
LEMMA NextBase == Base /\ [Next]_vars => Base'
<1> SUFFICES ASSUME Base, [Next]_vars PROVE Base'
  OBVIOUS
<1>1. CASE Start
  BY <1>1, StartBase
<1>2. ASSUME NEW n \in 1 .. MAX_LENGTH, ReadSome(n) PROVE Base'
  BY <1>2, ReadSomeBase
<1>3. CASE ReadFails
  BY <1>3, ReadFailsBase
<1>4. CASE HandleRead
  BY <1>4, HandleReadBase
<1>5. CASE HandleReadError
  BY <1>5, HandleReadErrorBase
<1>6. CASE HeadPartial
  BY <1>6, HeadPartialBase
<1>7. CASE HeadRefused
  BY <1>7, LeaveBase DEF HeadRefused
<1>8. CASE RecvNodeThrows
  BY <1>8, LeaveBase DEF RecvNodeThrows, HeadAccepted
<1>9. CASE HeadThenPartialBody
  BY <1>9, HeadThenPartialBodyBase
<1>10. CASE SetHeadParse
  BY <1>10, SetHeadParseBase
<1>11. CASE HeadThenWholeBody
  BY <1>11, HeadThenWholeBodyBase
<1>12. CASE BodyPartial
  BY <1>12, BodyPartialBase
<1>13. CASE BodyWhole
  BY <1>13, BodyWholeBase
<1>14. CASE Crash
  BY <1>14, CrashBase
<1>15. CASE UNCHANGED vars
  <2>1. UNCHANGED <<stream, taken, read, data, pc, bytes_transferred, copy_len,
                    head, msg, b_head_parse, posted, life, overrun>>
    BY <1>15 DEF vars
  <2>2. TypeOK' /\ BufferInv' /\ NeverDeaf'
    BY <2>1 DEF Base, TypeOK, BufferInv, NeverDeaf
  <2>. QED  BY <2>1, <2>2 DEF Base
<1>. QED
  BY <1>1, <1>2, <1>3, <1>4, <1>5, <1>6, <1>7, <1>8, <1>9, <1>10, <1>11,
     <1>12, <1>13, <1>14, <1>15 DEF Next, Kernel, Thread, Ended

\* What every step does to the history, to the stream and to the messages.
LEMMA NextHistory ==
  ASSUME [Next]_vars
  PROVE  /\ UNCHANGED stream
         /\ overrun => overrun'
         /\ posted' = posted \/ \E m : posted' = Append(posted, m)
<1>1. CASE Start \/ Kernel \/ Crash \/ Ended \/ UNCHANGED vars
  BY <1>1 DEF Start, Kernel, ReadSome, ReadFails, Crash, Ended, vars
<1>2. CASE HandleRead \/ HandleReadError \/ SetHeadParse
  BY <1>2 DEF HandleRead, HandleReadError, SetHeadParse
<1>3. CASE HeadPartial \/ HeadRefused \/ RecvNodeThrows
  BY <1>3 DEF HeadPartial, HeadRefused, RecvNodeThrows, Leave
<1>4. CASE HeadThenPartialBody \/ BodyPartial
  <2>1. CASE HeadThenPartialBody
    <3>1. UNCHANGED <<stream, posted>>
      BY <2>1 DEF HeadThenPartialBody
    <3>2. overrun' = (overrun \/ msg_len = -1)
      BY <2>1 DEF HeadThenPartialBody
    <3>3. overrun => overrun'
      BY <3>2
    <3>. QED  BY <3>1, <3>3
  <2>2. CASE BodyPartial
    BY <2>2 DEF BodyPartial
  <2>. QED  BY <1>4, <2>1, <2>2
<1>5. CASE HeadThenWholeBody \/ BodyWhole
  BY <1>5 DEF HeadThenWholeBody, BodyWhole, PostMsg
<1>. QED
  BY <1>1, <1>2, <1>3, <1>4, <1>5 DEF Next, Thread

\* Every step, and a stuttering step, keeps the inductive invariant.
LEMMA NextInv == IInv /\ [Next]_vars => IInv'
<1> SUFFICES ASSUME IInv, [Next]_vars PROVE Track'
  BY NextBase DEF IInv
<1>1. CASE overrun
  BY <1>1, NextHistory, BeyondTrack
<1>2. CASE ~overrun
  <2>1. CASE Start \/ Kernel \/ HandleRead \/ SetHeadParse
    BY <1>2, <2>1, QuietTrack
  <2>2. CASE HandleReadError
    BY <1>2, <2>2, HandleReadErrorTrack
  <2>3. CASE HeadPartial
    BY <1>2, <2>3, HeadPartialTrack
  <2>4. CASE HeadRefused
    BY <1>2, <2>4, HeadRefusedTrack
  <2>5. CASE RecvNodeThrows
    BY <1>2, <2>5, RecvNodeThrowsTrack
  <2>6. CASE HeadThenPartialBody
    <3>1. CASE msg_len = -1
      BY <1>2, <2>6, <3>1, OverrunTrack
    <3>2. CASE msg_len # -1
      <4>1. HeadAccepted /\ msg_len >= -1
        BY <2>6 DEF HeadThenPartialBody
      <4>2. msg_len \in Int
        BY <4>1, LengthType DEF IInv
      <4>3. msg_len >= 0
        BY <3>2, <4>1, <4>2
      <4>. QED  BY <1>2, <2>6, <4>3, HeadThenPartialBodyTrack
    <3>. QED  BY <3>1, <3>2
  <2>7. CASE HeadThenWholeBody
    BY <1>2, <2>7, HeadThenWholeBodyTrack
  <2>8. CASE BodyPartial
    BY <1>2, <2>8, BodyPartialTrack
  <2>9. CASE BodyWhole
    BY <1>2, <2>9, BodyWholeTrack
  <2>10. CASE Crash
    BY <1>2, <2>10 DEF Crash
  <2>11. CASE UNCHANGED vars
    <3>1. UNCHANGED <<stream, taken, read, data, pc, bytes_transferred, copy_len,
                      head, msg, b_head_parse, posted, life, overrun>>
      BY <2>11 DEF vars
    <3>2. Framing' /\ Current' = Current /\ NFrames' = NFrames
      BY <3>1, KeepFraming
    <3>3. Position' = Position /\ (MidBody' <=> MidBody)
      BY <3>1 DEF Position, Unread, MidBody
    <3>4. NodeInv'
      <4>1. CASE life \in {"new", "open"}
        BY <1>2, <3>1, <3>3, <4>1, KeepNodes
      <4>2. CASE life \notin {"new", "open"}
        BY <1>2, <3>1, <4>2 DEF NodeInv
      <4>. QED  BY <4>1, <4>2
    <3>5. RefusedForCause'
      BY <3>1, <3>2 DEF IInv, Track, RefusedForCause
    <3>. QED  BY <3>2, <3>4, <3>5 DEF Track
  <2>. QED
    BY <2>1, <2>2, <2>3, <2>4, <2>5, <2>6, <2>7, <2>8, <2>9, <2>10, <2>11
       DEF Next, Thread, Ended
<1>. QED  BY <1>1, <1>2

-----------------------------------------------------------------------------
\* Every reachable state satisfies the inductive invariant.
LEMMA Invariance == Spec => []IInv
BY InitInv, NextInv, PTL DEF Spec

\* Type correctness of the session's read state.
THEOREM TypeCorrect == Spec => []TypeOK
<1>1. IInv => TypeOK
  BY DEF IInv, Base, Track
<1>. QED  BY <1>1, Invariance, PTL

\* HandleRead posts exactly the frames of the peer's stream, whole and in
\* order, for every stream, every MAX_LENGTH and every way the kernel cuts
\* the stream into reads; what it posts after it has made a node of length -1,
\* which comes behind the last frame, is left open.
THEOREM FramingCorrect == Spec => []Framing
<1>1. IInv => Framing
  BY DEF IInv, Base, Track
<1>. QED  BY <1>1, Invariance, PTL

\* The loop never reads outside what the last read put in _data.
THEOREM BufferCorrect == Spec => []BufferInv
<1>1. IInv => BufferInv
  BY DEF IInv, Base, Track
<1>. QED  BY <1>1, Invariance, PTL

\* HandleRead never copies more into a node than the node can hold, and the
\* nodes hold the bytes of the current frame, for every stream but the ones
\* whose frames are followed by a header with a length of -1.  There it does.
THEOREM NodesCorrect == Spec => []NodeInv
<1>1. IInv => NodeInv
  BY DEF IInv, Base, Track
<1>. QED  BY <1>1, Invariance, PTL

\* No return path of HandleRead leaves an open session without a read.
THEOREM NeverDeafCorrect == Spec => []NeverDeaf
<1>1. IInv => NeverDeaf
  BY DEF IInv, Base, Track
<1>. QED  BY <1>1, Invariance, PTL

\* HandleRead drops no session whose peer has sent only valid frames.
THEOREM RefusalCorrect == Spec => []RefusedForCause
<1>1. IInv => RefusedForCause
  BY DEF IInv, Base, Track
<1>. QED  BY <1>1, Invariance, PTL
=============================================================================
