----------------------------- MODULE FrameReader -----------------------------
(***************************************************************************)
(* The read side of one CSession: Start arms an async_read_some into       *)
(* _data, the kernel fills _data with any non-empty piece of what the peer *)
(* has sent, and HandleRead cuts the pieces into messages, which it posts  *)
(* to the LogicSystem.  The three servers have the same loop.  The header  *)
(* of version 2.1 has no id, and its HandleRead gives the message to Send  *)
(* where the later ones post it.                                           *)
(*                                                                         *)
(* The peer's byte stream is chosen once.  It comes with the positions     *)
(* where its frames start, which only the properties use: they are the     *)
(* reference against which the handler's bookkeeping is checked.           *)
(*                                                                         *)
(* HandleRead's loop takes one step per iteration, because messages it has *)
(* posted are visible to the LogicSystem while it goes on.                 *)
(***************************************************************************)
EXTENDS WireFormat

CONSTANTS WithId,      (* the header has an id: FALSE for version 2.1       *)
          MAX_LENGTH,  (* size of _data, and the largest id and body length *)
          Streams      (* the byte streams a peer may send                  *)

-----------------------------------------------------------------------------
(* HEAD_LENGTH of version 2.1, HEAD_TOTAL_LEN of the later ones.            *)
HeadLen == IF WithId THEN HEAD_TOTAL_LEN ELSE HEAD_DATA_LEN

(* The bytes of b after the first "from", up to number "to".               *)
Slice(b, from, to) == SubSeq(b, from + 1, to)

(* The reference: frames of a byte sequence b, by the position p of the    *)
(* byte before their header.                                               *)
HeaderId(b, p)  == IF WithId THEN DecodeShort(b[p + 1], b[p + 2]) ELSE 0
HeaderLen(b, p) == IF WithId THEN DecodeShort(b[p + 3], b[p + 4])
                   ELSE DecodeShort(b[p + 1], b[p + 2])

HeaderValid(b, p) == /\ HeaderId(b, p) <= MAX_LENGTH
                     /\ HeaderLen(b, p) \in 0 .. MAX_LENGTH

IsFrame(b, p) == /\ p + HeadLen <= Len(b)
                 /\ HeaderValid(b, p)
                 /\ p + HeadLen + HeaderLen(b, p) <= Len(b)

\* start lists where the frames of b begin; after the last frame comes a
\* remainder that is not a frame: nothing, a piece of one, or a bad header.
IsFraming(b, start) ==
  /\ start \in Seq(Nat) /\ start # <<>> /\ start[1] = 0
  /\ \A i \in 1 .. Len(start) :
       start[i] <= Len(b)
  /\ \A i \in 1 .. Len(start) - 1 :
       /\ IsFrame(b, start[i])
       /\ start[i + 1] = start[i] + HeadLen + HeaderLen(b, start[i])
  /\ ~IsFrame(b, start[Len(start)])

ASSUME MaxLengthAssumption == MAX_LENGTH \in Nat \ {0}

ASSUME WithIdAssumption == WithId \in BOOLEAN

ASSUME StreamsAssumption ==
  \A s \in Streams : /\ s \in [bytes : Seq(Byte), start : Seq(Nat)]
                     /\ IsFraming(s.bytes, s.start)

-----------------------------------------------------------------------------
VARIABLES
  stream,            (* what the peer sends: [bytes, start]                    *)
  taken,             (* how many of its bytes the kernel has moved to _data    *)
  read,              (* the read operation: none, armed, data or error ready   *)
  data,              (* _data: the bytes the last read has put there           *)
  pc,                (* where the session's thread is in HandleRead            *)
  bytes_transferred, (* HandleRead's locals                                    *)
  copy_len,
  head,              (* _recv_head_node: its first _cur_len bytes              *)
  msg,               (* _recv_msg_node: id, total_len, its first _cur_len bytes*)
  b_head_parse,      (* _b_head_parse                                          *)
  posted,            (* messages handed to LogicSystem::PostMsgToQue           *)
  life,              (* new, open, or how the session came to its end          *)
  overrun            (* history: a node of length -1 has been made, which has  *)
                     (* no room for the bytes that are copied into it          *)

vars == <<stream, taken, read, data, pc, bytes_transferred, copy_len,
          head, msg, b_head_parse, posted, life, overrun>>

Ends == {"closed",   (* Close() and ClearSession(): a read failed             *)
         "cleared",  (* ClearSession() only: the header was refused           *)
         "threw",    (* an exception left the loop                            *)
         "crashed"}  (* the process did not survive an overrun                *)

Message(id, body) == [id |-> id, data |-> body]

Init == /\ stream \in Streams
        /\ taken = 0
        /\ read = "none"
        /\ data = <<>>
        /\ pc = "idle"
        /\ bytes_transferred = 0
        /\ copy_len = 0
        /\ head = <<>>
        /\ msg = [id |-> 0, total_len |-> 0, data |-> <<>>]
        /\ b_head_parse = FALSE
        /\ posted = <<>>
        /\ life = "new"
        /\ overrun = FALSE

-----------------------------------------------------------------------------
(* memset(_data) and _socket.async_read_some(_data, HandleRead). *)
async_read_some == /\ data' = <<>>
                   /\ read' = "armed"

Start == /\ life = "new"
         /\ life' = "open"
         /\ async_read_some
         /\ UNCHANGED <<stream, taken, pc, bytes_transferred, copy_len, head,
                        msg, b_head_parse, posted, overrun>>

\* The kernel completes the read with n bytes.  It may do so while the
\* handler that armed the read is still running.
ReadSome(n) ==
  /\ read = "armed"
  /\ taken + n <= Len(stream.bytes)
  /\ data' = Slice(stream.bytes, taken, taken + n)
  /\ taken' = taken + n
  /\ read' = "data"
  /\ UNCHANGED <<stream, pc, bytes_transferred, copy_len, head, msg,
                 b_head_parse, posted, life, overrun>>

\* End of file, or a failure of the connection.
ReadFails ==
  /\ read = "armed"
  /\ read' = "error"
  /\ UNCHANGED <<stream, taken, data, pc, bytes_transferred, copy_len, head,
                 msg, b_head_parse, posted, life, overrun>>

-----------------------------------------------------------------------------
(* HandleRead.  One thread runs the session's io_context, so the handler   *)
(* of a completed read starts only when the previous one has returned.     *)
HandlerMayRun == pc = "idle"

HandleRead ==
  /\ HandlerMayRun
  /\ read = "data"
  /\ read' = "none"
  /\ pc' = "loop"
  /\ bytes_transferred' = Len(data)
  /\ copy_len' = 0
  /\ UNCHANGED <<stream, taken, data, head, msg, b_head_parse, posted, life,
                 overrun>>

HandleReadError ==
  /\ HandlerMayRun
  /\ read = "error"
  /\ read' = "none"
  /\ life' = "closed"
  /\ UNCHANGED <<stream, taken, data, pc, bytes_transferred, copy_len, head,
                 msg, b_head_parse, posted, overrun>>

\* The next n bytes of _data that the loop has not used.
Chunk(n) == Slice(data, copy_len, copy_len + n)

\* The loop has used every byte: read again and return.
Rearm(next) == /\ async_read_some
               /\ pc' = next
               /\ bytes_transferred' = 0
               /\ copy_len' = 0

\* The handler returns without reading again.
Leave(end) == /\ life' = end
              /\ pc' = "idle"
              /\ bytes_transferred' = 0
              /\ copy_len' = 0
              /\ UNCHANGED <<stream, taken, read, data, head, msg,
                             b_head_parse, posted, overrun>>

\* A mutant of Advance that forgets copy_len.
AdvanceCopyLenKept(n) ==
  IF bytes_transferred = n
  THEN Rearm("idle")
  ELSE /\ bytes_transferred' = bytes_transferred - n
       /\ UNCHANGED <<copy_len, pc, data, read>>

\* The loop has used n bytes more: read again if that was all, else go on.
Advance(n) ==
  IF bytes_transferred = n
  THEN Rearm("idle")
  ELSE /\ bytes_transferred' = bytes_transferred - n
       /\ copy_len' = copy_len + n
       /\ UNCHANGED <<pc, data, read>>

\* A mutant of PostMsg without _recv_head_node->Clear().
PostMsgNoClear(m) ==
  /\ posted' = Append(posted, m)
  /\ b_head_parse' = FALSE
  /\ UNCHANGED head

\* PostMsgToQue, and both nodes ready for the next frame.
PostMsg(m) ==
  /\ posted' = Append(posted, m)
  /\ b_head_parse' = FALSE
  /\ head' = <<>>

-----------------------------------------------------------------------------
(* bytes_transferred is a size_t, so the short or int it is compared with  *)
(* is converted, and one below 0 becomes larger than any count of bytes.   *)
size_less(n, i) == i < 0 \/ n < i

(* Iterations that begin in a header. *)
InHead == pc = "loop" /\ ~b_head_parse

\* A mutant of HeadPartial that returns without reading again.
HeadPartialNoRead ==
  /\ InHead
  /\ bytes_transferred + Len(head) < HeadLen
  /\ head' = head \o Chunk(bytes_transferred)
  /\ pc' = "idle"
  /\ bytes_transferred' = 0
  /\ copy_len' = 0
  /\ UNCHANGED <<stream, taken, read, data, msg, b_head_parse, posted, life,
                 overrun>>

HeadPartial ==
  /\ InHead
  /\ bytes_transferred + Len(head) < HeadLen
  /\ head' = head \o Chunk(bytes_transferred)
  /\ Rearm("idle")
  /\ UNCHANGED <<stream, taken, msg, b_head_parse, posted, life, overrun>>

head_remain == HeadLen - Len(head)
FullHead    == head \o Chunk(head_remain)
msg_id      == IF WithId THEN DecodeShort(FullHead[1], FullHead[2]) ELSE 0
msg_len     == IF WithId THEN DecodeShort(FullHead[3], FullHead[4])
               ELSE DecodeShort(FullHead[1], FullHead[2])

HeadComplete == InHead /\ bytes_transferred + Len(head) >= HeadLen

\* A mutant of HeadRefused that refuses the longest body too.
HeadRefusedAtMax ==
  /\ HeadComplete
  /\ msg_id > MAX_LENGTH \/ msg_len >= MAX_LENGTH
  /\ Leave("cleared")

HeadRefused ==
  /\ HeadComplete
  /\ msg_id > MAX_LENGTH \/ msg_len > MAX_LENGTH
  /\ Leave("cleared")

HeadAccepted == HeadComplete /\ msg_id <= MAX_LENGTH /\ msg_len <= MAX_LENGTH

\* A mutant of RecvNodeThrows: every allocation succeeds, and the body counts
\* as partial.
RecvNodeAllocates ==
  /\ HeadAccepted
  /\ msg_len < -1
  /\ msg' = [id |-> msg_id, total_len |-> msg_len, data |-> <<>>]
  /\ Rearm("rearmed")
  /\ UNCHANGED <<stream, taken, head, b_head_parse, posted, life, overrun>>

\* new char[_total_len + 1] throws for a negative size, which a length below
\* -1 gives.  The handler's try block catches it; versions 2.1 and 3 have none,
\* and the exception leaves run() and ends the server.
RecvNodeThrows ==
  /\ HeadAccepted
  /\ msg_len < -1
  /\ Leave("threw")

\* A mutant of BodyAfterHead: copy_len has not been moved past the header.
BodyAtHead(n) == Slice(data, copy_len, copy_len + n)

\* The first body bytes of the frame whose header is complete.
BodyAfterHead(n) == Slice(data, copy_len + head_remain,
                          copy_len + head_remain + n)

\* Part of the body is still to come.  The next read is armed before
\* _b_head_parse is set, which is the step SetHeadParse.
\*
\* A length of -1 comes here too, whatever the read has brought: the node gets
\* an array of no bytes, and all there is goes into it, now and in BodyPartial.
HeadThenPartialBody ==
  /\ HeadAccepted
  /\ msg_len >= -1
  /\ size_less(bytes_transferred - head_remain, msg_len)
  /\ msg' = [id |-> msg_id, total_len |-> msg_len,
             data |-> BodyAfterHead(bytes_transferred - head_remain)]
  /\ overrun' = (overrun \/ msg_len = -1)
  /\ Rearm("rearmed")
  /\ UNCHANGED <<stream, taken, head, b_head_parse, posted, life>>

SetHeadParse ==
  /\ pc = "rearmed"
  /\ b_head_parse' = TRUE
  /\ pc' = "idle"
  /\ UNCHANGED <<stream, taken, read, data, bytes_transferred, copy_len,
                 head, msg, posted, life, overrun>>

HeadThenWholeBody ==
  /\ HeadAccepted
  /\ msg_len >= -1
  /\ ~size_less(bytes_transferred - head_remain, msg_len)
  /\ msg' = [id |-> msg_id, total_len |-> msg_len,
             data |-> BodyAfterHead(msg_len)]
  /\ PostMsg(Message(msg_id, BodyAfterHead(msg_len)))
  /\ Advance(head_remain + msg_len)
  /\ UNCHANGED <<stream, taken, life, overrun>>

-----------------------------------------------------------------------------
(* Iterations that continue a body. *)
InBody == pc = "loop" /\ b_head_parse

\* _cur_len is a short: the bytes of a node of length -1, which no read
\* completes, take it round.
remain_msg == msg.total_len - NarrowShort(Len(msg.data))

BodyPartial ==
  /\ InBody
  /\ size_less(bytes_transferred, remain_msg)
  /\ msg' = [msg EXCEPT !.data = @ \o Chunk(bytes_transferred)]
  /\ Rearm("idle")
  /\ UNCHANGED <<stream, taken, head, b_head_parse, posted, life, overrun>>

\* A mutant of BodyWhole that leaves a body that ends with the read where it
\* is and goes on with the loop.
BodyWholeSpins ==
  /\ InBody
  /\ ~size_less(bytes_transferred, remain_msg)
  /\ IF bytes_transferred = remain_msg
     THEN UNCHANGED <<msg, posted, b_head_parse, head, pc, bytes_transferred,
                      copy_len, data, read>>
     ELSE /\ msg' = [msg EXCEPT !.data = @ \o Chunk(remain_msg)]
          /\ PostMsg(Message(msg.id, msg.data \o Chunk(remain_msg)))
          /\ Advance(remain_msg)
  /\ UNCHANGED <<stream, taken, life, overrun>>

BodyWhole ==
  /\ InBody
  /\ ~size_less(bytes_transferred, remain_msg)
  /\ msg' = [msg EXCEPT !.data = @ \o Chunk(remain_msg)]
  /\ PostMsg(Message(msg.id, msg.data \o Chunk(remain_msg)))
  /\ Advance(remain_msg)
  /\ UNCHANGED <<stream, taken, life, overrun>>

(* Bytes copied outside a node's array are undefined behaviour.  The       *)
(* process may end of them at any later moment.  It may also live on, and  *)
(* its handlers run as before; that the memory they use has been           *)
(* overwritten is not modelled, and the properties say nothing of what is  *)
(* posted from then on.                                                    *)
Crash ==
  /\ overrun
  /\ life = "open"
  /\ life' = "crashed"
  /\ pc' = "idle"
  /\ read' = "none"
  /\ bytes_transferred' = 0
  /\ copy_len' = 0
  /\ UNCHANGED <<stream, taken, data, head, msg, b_head_parse, posted,
                 overrun>>

-----------------------------------------------------------------------------
Kernel == (\E n \in 1 .. MAX_LENGTH : ReadSome(n)) \/ ReadFails

Thread == \/ HandleRead \/ HandleReadError
          \/ HeadPartial \/ HeadRefused \/ RecvNodeThrows
          \/ HeadThenPartialBody \/ SetHeadParse \/ HeadThenWholeBody
          \/ BodyPartial \/ BodyWhole

\* Nothing is left to happen: the session has ended.
Ended == life \in Ends /\ UNCHANGED vars

Next == Start \/ Kernel \/ Thread \/ Crash \/ Ended

Spec == Init /\ [][Next]_vars

\* The session is started, its thread runs the handlers that are ready, and
\* a read completes once bytes have arrived or the connection is over.
FairSpec == Spec /\ WF_vars(Start) /\ WF_vars(Thread) /\ WF_vars(Kernel)
-----------------------------------------------------------------------------
(***************************************************************************)
(* Properties.                                                             *)
(***************************************************************************)
\* The lengths RecvNode can be made with.
MsgNode == [id : Short, total_len : -1 .. MAX_LENGTH, data : Seq(Byte)]

\* Type invariant of the session's read state.
TypeOK ==
  /\ stream \in [bytes : Seq(Byte), start : Seq(Nat)]
  /\ taken \in 0 .. Len(stream.bytes)
  /\ read \in {"none", "armed", "data", "error"}
  /\ data \in Seq(Byte)
  /\ pc \in {"idle", "loop", "rearmed"}
  /\ bytes_transferred \in 0 .. MAX_LENGTH
  /\ copy_len \in 0 .. MAX_LENGTH
  /\ head \in Seq(Byte)
  /\ msg \in MsgNode
  /\ b_head_parse \in BOOLEAN
  /\ posted \in Seq([id : Short, data : Seq(Byte)])
  /\ life \in {"new", "open"} \cup Ends
  /\ overrun \in BOOLEAN

NFrames  == Len(stream.start) - 1
Frame(i) == Message(HeaderId(stream.bytes, stream.start[i]),
                    Slice(stream.bytes, stream.start[i] + HeadLen,
                          stream.start[i + 1]))

\* However the kernel cuts the stream into reads, HandleRead posts the frames
\* of the stream: each one whole, once, in order, and nothing else until it has
\* made a node of length -1.  This is the packet sticking and fragmentation
\* that version 2.1 set out to handle.
Framing == /\ \A i \in 1 .. Len(posted) : i <= NFrames => posted[i] = Frame(i)
           /\ ~overrun => Len(posted) <= NFrames

\* How far into the stream HandleRead has got, and where the frame it is in
\* begins.
Unread   == IF read = "data" THEN Len(data) ELSE bytes_transferred
Position == taken - Unread
Current  == stream.start[Len(posted) + 1]
MidBody  == b_head_parse \/ pc = "rearmed"

\* _data holds the bytes the kernel took last; while the loop runs, copy_len
\* and bytes_transferred split it, and no read may refill it.  NodeInv rests on
\* this.
BufferInv ==
  /\ Len(data) <= MAX_LENGTH
  /\ Len(data) <= taken
  /\ data = Slice(stream.bytes, taken - Len(data), taken)
  /\ read = "data" => Len(data) > 0
  /\ read = "armed" => data = <<>>
  /\ pc = "loop" => /\ read = "none"
                   /\ bytes_transferred > 0
                   /\ copy_len + bytes_transferred = Len(data)
  /\ pc # "loop" => bytes_transferred = 0 /\ copy_len = 0
  /\ pc = "rearmed" => ~b_head_parse /\ read # "none"
  /\ life = "new" => pc = "idle" /\ read = "none"
  /\ pc # "idle" => life = "open"
  /\ read # "none" => life = "open"

\* Between headers and bodies the two nodes hold exactly the bytes of the
\* current frame that have been read, and fewer than fit in them.
NodesHoldFrame ==
  IF MidBody
  THEN /\ Current + HeadLen <= Len(stream.bytes)
       /\ HeaderValid(stream.bytes, Current)
       /\ msg.id = HeaderId(stream.bytes, Current)
       /\ msg.total_len = HeaderLen(stream.bytes, Current)
       /\ Len(msg.data) < msg.total_len
       /\ Position = Current + HeadLen + Len(msg.data)
       /\ msg.data = Slice(stream.bytes, Current + HeadLen, Position)
  ELSE /\ Len(head) < HeadLen
       /\ Position = Current + Len(head)
       /\ head = Slice(stream.bytes, Current, Position)

\* The frames of the stream are followed by a header that passes the tests of
\* its id and its length, and the length is -1.
HeaderUnrefused ==
  LET p == stream.start[NFrames + 1]
  IN  /\ p + HeadLen <= Len(stream.bytes)
      /\ HeaderId(stream.bytes, p) <= MAX_LENGTH
      /\ HeaderLen(stream.bytes, p) = -1

\* No node gets more bytes than fit in it, but for the one of a header whose
\* length is -1, which HandleRead does not refuse; and that comes after every
\* frame of the stream has been posted.
NodeInv ==
  /\ life \in {"new", "open"} /\ ~overrun => NodesHoldFrame
  /\ overrun => Len(posted) >= NFrames /\ HeaderUnrefused

\* Every return of HandleRead re-arms the read or ends the session: an open
\* session is being handled, or has a read outstanding or completed.
NeverDeaf == life = "open" /\ pc = "idle" => read # "none"

\* A session is dropped for a bad header only when the peer really sent one,
\* and only after every frame in front of it has been posted.
RefusedForCause ==
  life \in {"cleared", "threw"} /\ ~overrun =>
    /\ Len(posted) = NFrames
    /\ Current + HeadLen <= Len(stream.bytes)
    /\ ~HeaderValid(stream.bytes, Current)

\* Unless the connection fails, every frame the peer has sent is posted.
AllFramesPosted == <>(Len(posted) = NFrames \/ life = "closed")
=============================================================================
