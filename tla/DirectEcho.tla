----------------------------- MODULE DirectEcho -----------------------------
(***************************************************************************)
(* A session of the version 2.1 server (Server/), where reading, sending   *)
(* and accepting share one thread and there is no logic layer: HandleRead  *)
(* itself calls Send for every message of a read, and no HandleWrite runs  *)
(* before it has returned.  The peer sends requests without waiting for    *)
(* the answers, window of them at most, and reads in another thread.       *)
(*                                                                         *)
(* Messages are numbered.  How the loop of HandleRead cuts them out of the *)
(* bytes is in FrameReader, and what their headers say in HeaderExchange;  *)
(* a write is one operation, as SendQueue shows.                           *)
(***************************************************************************)
EXTENDS Naturals, Sequences, FiniteSets

CONSTANTS MAX_SENDQUEUE,
          PerRead,     (* how many messages _data has room for               *)
          MaxFrames    (* bound on the requests                              *)

ASSUME DirectAssumption == /\ MAX_SENDQUEUE \in Nat
                           /\ PerRead \in Nat \ {0} /\ MaxFrames \in Nat \ {0}

VARIABLES
  window,     (* requests the peer leaves unanswered at most; never changes  *)
  sent,       (* requests the peer has sent                                  *)
  toServer,   (* requests under way                                          *)
  read,       (* the read: none, armed, data or error                        *)
  looping,    (* the thread is in HandleRead's loop                          *)
  chunk,      (* the messages in _data that the loop has not used            *)
  send_que,   (* _send_que                                                   *)
  writing,    (* the async_write: none, active, done or failed               *)
  replies,    (* the answers the peer has got                                *)
  lost,       (* the messages Send has discarded                             *)
  socket,     (* _socket is open, has failed, or has been closed             *)
  registered  (* the session is in _sessions                                 *)

vars == <<window, sent, toServer, read, looping, chunk, send_que, writing, replies,
          lost, socket, registered>>

peerVars  == <<window, sent, toServer>>
readVars  == <<read, looping, chunk>>
writeVars == <<send_que, writing, replies, lost>>
connVars  == <<socket, registered>>

\* HandleAccept has started the session.
Init == /\ window \in 1 .. MaxFrames
        /\ sent = 0 /\ toServer = <<>>
        /\ read = "armed" /\ looping = FALSE /\ chunk = <<>>
        /\ send_que = <<>> /\ writing = "none" /\ replies = <<>> /\ lost = {}
        /\ socket = "open" /\ registered = TRUE

-----------------------------------------------------------------------------
(* The peer, the connection and the reactor. *)
PeerSends == /\ socket = "open" /\ sent < MaxFrames
             /\ sent < Len(replies) + window
             /\ sent' = sent + 1
             /\ toServer' = Append(toServer, sent')
             /\ UNCHANGED <<window, readVars, writeVars, connVars>>

ConnectionFails == /\ socket = "open"
                   /\ socket' = "broken"
                   /\ UNCHANGED <<peerVars, readVars, writeVars, registered>>

ReadSome(n) == /\ read = "armed" /\ socket # "closed"
               /\ n <= Len(toServer)
               /\ read' = "data"
               /\ chunk' = SubSeq(toServer, 1, n)
               /\ toServer' = SubSeq(toServer, n + 1, Len(toServer))
               /\ UNCHANGED <<window, sent, looping, writeVars, connVars>>

ReadFails == /\ read = "armed" /\ socket # "open"
             /\ read' = "error"
             /\ UNCHANGED <<peerVars, looping, chunk, writeVars, connVars>>

WriteCompletes == /\ writing = "active" /\ socket = "open"
                  /\ writing' = "done"
                  /\ replies' = Append(replies, Head(send_que))
                  /\ UNCHANGED <<peerVars, readVars, send_que, lost, connVars>>

WriteFails == /\ writing = "active" /\ socket # "open"
              /\ writing' = "failed"
              /\ UNCHANGED <<peerVars, readVars, send_que, replies, lost, connVars>>

-----------------------------------------------------------------------------
\* Mutants of Send: one that discards a message too early, and one that starts
\* a write for the second node.
SendEarlyFull(m) ==
  IF Len(send_que) >= MAX_SENDQUEUE
  THEN /\ lost' = lost \cup {m}
       /\ UNCHANGED <<send_que, writing>>
  ELSE /\ send_que' = Append(send_que, m)
       /\ writing' = IF send_que = <<>> THEN "active" ELSE writing
       /\ UNCHANGED lost

SendSecond(m) ==
  /\ send_que' = Append(send_que, m)
  /\ writing' = IF Len(send_que) = 1 THEN "active" ELSE writing
  /\ UNCHANGED lost

Send(m) ==
  IF Len(send_que) > MAX_SENDQUEUE
  THEN /\ lost' = lost \cup {m}
       /\ UNCHANGED <<send_que, writing>>
  ELSE /\ send_que' = Append(send_que, m)
       /\ writing' = IF send_que = <<>> THEN "active" ELSE writing
       /\ UNCHANGED lost

(* The handlers: one at a time, on the thread that runs the io_context. *)
HandleRead == /\ ~looping /\ read = "data"
              /\ looping' = TRUE
              /\ read' = "none"
              /\ UNCHANGED <<peerVars, chunk, writeVars, connVars>>

\* One message is sent back; after the last one the session reads again.
Iterate == /\ looping
           /\ Send(Head(chunk))
           /\ chunk' = Tail(chunk)
           /\ looping' = (Len(chunk) > 1)
           /\ read' = IF Len(chunk) > 1 THEN read ELSE "armed"
           /\ UNCHANGED <<peerVars, replies, connVars>>

\* Close and clear_session.
Close == socket' = "closed" /\ registered' = FALSE

HandleReadError == /\ ~looping /\ read = "error"
                   /\ read' = "none"
                   /\ Close
                   /\ UNCHANGED <<peerVars, looping, chunk, writeVars>>

\* A mutant of HandleWrite that writes a node again.
HandleWriteNoPop == /\ ~looping /\ writing = "done"
                    /\ writing' = IF Len(send_que) > 1 THEN "active" ELSE "none"
                    /\ UNCHANGED <<peerVars, readVars, send_que, replies, lost, connVars>>

HandleWrite == /\ ~looping /\ writing = "done"
               /\ send_que' = Tail(send_que)
               /\ writing' = IF Len(send_que) > 1 THEN "active" ELSE "none"
               /\ UNCHANGED <<peerVars, readVars, replies, lost, connVars>>

\* A mutant of HandleWriteError that writes the node again.
HandleWriteErrorRetries == /\ ~looping /\ writing = "failed"
                           /\ writing' = "active"
                           /\ Close
                           /\ UNCHANGED <<peerVars, readVars, send_que, replies, lost>>

HandleWriteError == /\ ~looping /\ writing = "failed"
                    /\ writing' = "none"
                    /\ Close
                    /\ UNCHANGED <<peerVars, readVars, send_que, replies, lost>>

-----------------------------------------------------------------------------
Reactor == (\E n \in 1 .. PerRead : ReadSome(n)) \/ ReadFails
Writer  == WriteCompletes \/ WriteFails
Thread  == HandleRead \/ Iterate \/ HandleReadError
WriteHandlers == HandleWrite \/ HandleWriteError

\* The peer has sent everything and got the answers, or the session is over.
Quiet == /\ ~looping /\ writing = "none"
         /\ sent = MaxFrames \/ socket = "closed"
         /\ UNCHANGED vars

Next == \/ PeerSends \/ ConnectionFails \/ Reactor \/ Writer
        \/ Thread \/ WriteHandlers \/ Quiet

Spec == Init /\ [][Next]_vars

\* What has arrived is read, the peer reads what is written or the connection
\* fails, and the thread runs the handlers that are ready.  Nothing makes the
\* peer send.
FairSpec == /\ Spec /\ WF_vars(Reactor) /\ WF_vars(Writer)
            /\ WF_vars(Thread) /\ WF_vars(WriteHandlers)

-----------------------------------------------------------------------------
(***************************************************************************)
(* Properties.                                                             *)
(***************************************************************************)
Frames == 1 .. MaxFrames

\* Type invariant.
TypeOK ==
  /\ window \in 1 .. MaxFrames
  /\ sent \in 0 .. MaxFrames
  /\ toServer \in Seq(Frames) /\ chunk \in Seq(Frames)
  /\ read \in {"none", "armed", "data", "error"}
  /\ looping \in BOOLEAN
  /\ send_que \in Seq(Frames) /\ Len(send_que) <= MAX_SENDQUEUE + 1
  /\ writing \in {"none", "active", "done", "failed"}
  /\ replies \in Seq(Frames)
  /\ lost \subseteq Frames
  /\ socket \in {"open", "broken", "closed"}
  /\ registered \in BOOLEAN

\* All there is of the requests, in the order they were sent in.
Unsent   == IF writing = "done" THEN Tail(send_que) ELSE send_que
Pipeline == replies \o Unsent \o chunk \o toServer

\* Every request has been answered, is on its way or has been discarded by
\* Send, one of the three and once only, and the answers come in the order of
\* the requests, however reads, writes and failures interleave.
EchoedInOrder ==
  /\ \A i \in 1 .. Len(Pipeline) - 1 : Pipeline[i] < Pipeline[i + 1]
  /\ Len(Pipeline) + Cardinality(lost) = sent
  /\ \A i \in 1 .. Len(Pipeline) : Pipeline[i] \notin lost

\* A peer that leaves MAX_SENDQUEUE requests unanswered never loses one.  (One
\* that leaves a request more may: the queue has room for that many, but the
\* node the peer has just got is still in it while HandleRead runs.)
NothingDiscarded == window <= MAX_SENDQUEUE => lost = {}

\* Every request is answered or discarded, unless the connection fails.
AllEchoed == \A f \in Frames :
  sent >= f ~> \/ \E i \in 1 .. Len(replies) : replies[i] = f
               \/ f \in lost \/ socket # "open"

\* After a failure the session leaves the table and nothing of it is under way:
\* the handlers of the read and of the write both see the failure, in either
\* order, and one of them may follow a HandleRead that was ready before.
EndsReleased == socket # "open" ~> ~registered /\ read = "none" /\ writing = "none"
=============================================================================
