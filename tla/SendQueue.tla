------------------------------ MODULE SendQueue ------------------------------
(***************************************************************************)
(* The write side of one CSession: Send, on the logic thread, queues a     *)
(* node and starts an async_write when the queue was empty; HandleWrite,   *)
(* on the session's io_context thread, pops the node that has gone out and *)
(* starts the next write.  The queue is guarded by _send_lock, which Send  *)
(* and the success branch of HandleWrite hold from end to end, so each of  *)
(* them is one step.                                                       *)
(*                                                                         *)
(* Nodes are numbered in the order Send accepts them, and async_write puts *)
(* a node on the wire in Parts pieces, one write_some each: two writes     *)
(* under way at once would mix their pieces.                               *)
(***************************************************************************)
EXTENDS Naturals, Sequences

CONSTANTS MAX_SENDQUE,  (* the limit Send tests                     *)
          Parts,        (* pieces async_write sends a node in       *)
          MaxSends      (* bound on the calls of Send               *)

ASSUME SendQueueAssumption == /\ MAX_SENDQUE \in Nat
                              /\ Parts \in Nat \ {0}
                              /\ MaxSends \in Nat

VARIABLES
  send_que,    (* _send_que: the numbers of the nodes in it                  *)
  writes,      (* the async_writes not yet handled: node, pieces sent, status *)
  wire,        (* the pieces the peer gets: <<node, piece>>                  *)
  socket,      (* _socket is open, has failed, or has been closed            *)
  registered,  (* the session is in the server's table                       *)
  sends,       (* calls of Send                                              *)
  accepted     (* nodes Send has queued                                      *)

vars == <<send_que, writes, wire, socket, registered, sends, accepted>>

Init == /\ send_que = <<>>
        /\ writes = <<>>
        /\ wire = <<>>
        /\ socket = "open"
        /\ registered = TRUE
        /\ sends = 0
        /\ accepted = 0

-----------------------------------------------------------------------------
(* async_write(_socket, node): an operation under way. *)
async_write(node) == Append(writes, [node |-> node, sent |-> 0, status |-> "active"])

WithoutOp(i) == SubSeq(writes, 1, i - 1) \o SubSeq(writes, i + 1, Len(writes))

\* A mutant of Full with a limit one higher.
FullLate == Len(send_que) > MAX_SENDQUE + 1

Full == Len(send_que) > MAX_SENDQUE

SendRefused ==
  /\ sends < MaxSends
  /\ Full
  /\ sends' = sends + 1
  /\ UNCHANGED <<send_que, writes, wire, socket, registered, accepted>>

\* A mutant of Send that writes the front node whatever the queue's size was.
SendAlwaysWrites ==
  /\ sends < MaxSends
  /\ ~Full
  /\ sends' = sends + 1
  /\ accepted' = accepted + 1
  /\ send_que' = Append(send_que, accepted')
  /\ writes' = async_write(Head(send_que'))
  /\ UNCHANGED <<wire, socket, registered>>

Send ==
  /\ sends < MaxSends
  /\ ~Full
  /\ sends' = sends + 1
  /\ accepted' = accepted + 1
  /\ send_que' = Append(send_que, accepted')
  /\ writes' = IF Len(send_que) > 0 THEN writes ELSE async_write(accepted')
  /\ UNCHANGED <<wire, socket, registered>>

-----------------------------------------------------------------------------
(* The kernel: a piece goes out, the operation is complete, or it fails    *)
(* because the connection does or because the socket has been closed.      *)
\* A mutant of WriteSome that does not notice when everything has gone out.
WriteSomeTooMuch(i) ==
  /\ writes[i].status = "active"
  /\ socket = "open"
  /\ wire' = Append(wire, <<writes[i].node, writes[i].sent + 1>>)
  /\ writes' = [writes EXCEPT ![i].sent = @ + 1,
                  ![i].status = IF writes[i].sent = Parts THEN "done" ELSE @]
  /\ UNCHANGED <<send_que, socket, registered, sends, accepted>>

\* A mutant of WriteSome that never gets to the last piece.
WriteSomeNoLast(i) ==
  /\ writes[i].status = "active"
  /\ socket = "open"
  /\ writes[i].sent + 1 < Parts
  /\ wire' = Append(wire, <<writes[i].node, writes[i].sent + 1>>)
  /\ writes' = [writes EXCEPT ![i].sent = @ + 1]
  /\ UNCHANGED <<send_que, socket, registered, sends, accepted>>

WriteSome(i) ==
  /\ writes[i].status = "active"
  /\ socket = "open"
  /\ wire' = Append(wire, <<writes[i].node, writes[i].sent + 1>>)
  /\ writes' = [writes EXCEPT ![i].sent = @ + 1,
                  ![i].status = IF writes[i].sent + 1 = Parts THEN "done" ELSE @]
  /\ UNCHANGED <<send_que, socket, registered, sends, accepted>>

WriteFails(i) ==
  /\ writes[i].status = "active"
  /\ socket # "open"
  /\ writes' = [writes EXCEPT ![i].status = "failed"]
  /\ UNCHANGED <<send_que, wire, socket, registered, sends, accepted>>

ConnectionFails ==
  /\ socket = "open"
  /\ socket' = "broken"
  /\ UNCHANGED <<send_que, writes, wire, registered, sends, accepted>>

-----------------------------------------------------------------------------
(* HandleWrite. *)
\* A mutant of HandleWrite that does not go on with the next node.
HandleWriteNoNext(i) ==
  /\ writes[i].status = "done"
  /\ send_que' = Tail(send_que)
  /\ writes' = WithoutOp(i)
  /\ UNCHANGED <<wire, socket, registered, sends, accepted>>

HandleWrite(i) ==
  /\ writes[i].status = "done"
  /\ send_que' = Tail(send_que)
  /\ writes' = IF send_que' = <<>> THEN WithoutOp(i)
               ELSE Append(WithoutOp(i), [node |-> Head(send_que'), sent |-> 0,
                                          status |-> "active"])
  /\ UNCHANGED <<wire, socket, registered, sends, accepted>>

\* Close() and ClearSession(); the queue is left as it is.
Close == socket' = "closed"
ClearSession == registered' = FALSE

HandleWriteError(i) ==
  /\ writes[i].status = "failed"
  /\ writes' = WithoutOp(i)
  /\ Close
  /\ ClearSession
  /\ UNCHANGED <<send_que, wire, sends, accepted>>

\* A mutant of HandleReadError that empties the queue.
HandleReadErrorClears ==
  /\ socket # "closed"
  /\ Close
  /\ ClearSession
  /\ send_que' = <<>>
  /\ UNCHANGED <<writes, wire, sends, accepted>>

\* HandleRead is told that the peer is done or that the connection is over;
\* it closes the socket whether or not a write is under way.
HandleReadError ==
  /\ socket # "closed"
  /\ Close
  /\ ClearSession
  /\ UNCHANGED <<send_que, writes, wire, sends, accepted>>

-----------------------------------------------------------------------------
Ops == 1 .. Len(writes)

Kernel == \E i \in Ops : WriteSome(i) \/ WriteFails(i)

WriteHandlers == \E i \in Ops : HandleWrite(i) \/ HandleWriteError(i)

\* Every call of Send has been made and everything has been handled.
Quiet == sends = MaxSends /\ writes = <<>> /\ UNCHANGED vars

Next == \/ Send \/ SendRefused
        \/ Kernel \/ ConnectionFails
        \/ WriteHandlers \/ HandleReadError
        \/ Quiet

Spec == Init /\ [][Next]_vars

\* The io_context thread runs the handlers that are ready; the peer reads, or
\* the connection fails, so a write under way goes on or ends.  Nothing makes
\* the logic thread call Send or the read side fail.
FairSpec == Spec /\ WF_vars(Kernel) /\ WF_vars(WriteHandlers)

-----------------------------------------------------------------------------
(***************************************************************************)
(* Properties.                                                             *)
(***************************************************************************)
Op == [node : Nat, sent : 0 .. Parts, status : {"active", "done", "failed"}]

\* How many nodes the queue holds at most.  It is one more than MAX_SENDQUE,
\* which the README calls the limit: the test is > and comes before the push.
QueueBound == Len(send_que) <= MAX_SENDQUE + 1

\* Type invariant of the session's write state.
TypeOK ==
  /\ send_que \in Seq(Nat)
  /\ writes \in Seq(Op)
  /\ wire \in Seq(Nat \X Nat)
  /\ socket \in {"open", "broken", "closed"}
  /\ registered \in BOOLEAN
  /\ sends \in 0 .. MaxSends
  /\ accepted \in 0 .. sends
  /\ QueueBound

\* The piece that has to come after the ones on the wire.
Successor(piece) == IF piece[2] < Parts THEN <<piece[1], piece[2] + 1>>
                    ELSE <<piece[1] + 1, 1>>
Due == IF wire = <<>> THEN <<1, 1>> ELSE Successor(wire[Len(wire)])

\* The peer gets the nodes whole and in the order Send accepted them, never
\* the pieces of two nodes mixed: Send and HandleWrite between them start a
\* write only when none is under way.
WireInOrder ==
  /\ wire # <<>> => wire[1] = <<1, 1>>
  /\ \A i \in 1 .. Len(wire) - 1 : wire[i + 1] = Successor(wire[i])

\* async_write does not own its buffer: the node whose bytes it reads is kept
\* alive by _send_que alone, so it has to stay in front while the write goes on.
BufferAlive ==
  \A i \in Ops : /\ send_que # <<>>
                 /\ writes[i].node = Head(send_que)

\* Nodes do not wait in the queue of a working connection with no write under
\* way: Send starts one only when the queue was empty, so a handler that
\* forgot to go on would stop the session's output for ever.
NoStall == socket = "open" /\ send_que # <<>> => writes # <<>>

\* The nodes the peer has got whole.
Delivered == Due[1] - 1

\* Seen from those that call Send and from the peer, queue, lock and handlers are
\* a SendService: what is accepted goes out whole and in order, unless the
\* connection fails, and Send refuses a node only with MAX_SENDQUE waiting.
Service == INSTANCE SendService WITH refused <- sends - accepted,
                                     delivered <- Delivered,
                                     up <- (socket = "open")
ImplementsSend == Service!FairSpec
=============================================================================
