----------------------------- MODULE EchoServer -----------------------------
(***************************************************************************)
(* The whole: the threads of json-Client, each with a connection of its    *)
(* own and one request under way at a time, the sessions of a version 3    *)
(* server, and the logic layer between reading and writing.                *)
(*                                                                         *)
(* A message is the number of its request.  How a session cuts the stream  *)
(* into messages is in FrameReader, and a HandleRead is a step here for    *)
(* each message; the logic layer's queue is what LogicService promises of  *)
(* it; a write is one operation, as SendQueue shows.  Connections may fail *)
(* at any time.                                                            *)
(***************************************************************************)
EXTENDS Naturals, Sequences

CONSTANTS Clients, Requests

ASSUME EchoAssumption == Requests \in Nat

VARIABLES
  client,    (* start, ready, reading, done or failed                         *)
  asked,     (* requests it has written                                       *)
  got,       (* answers it has read                                           *)
  broken,    (* the connection has failed or been closed by one side          *)
  toServer,  (* bytes under way, as messages                                  *)
  toClient,
  session,   (* the server's side: none yet, open or closed                   *)
  msg_que,   (* of the logic layer: [to |-> session, msg |-> message]         *)
  send_que,  (* of each session                                               *)
  writing    (* its async_write: none, active or done                         *)

vars == <<client, asked, got, broken, toServer, toClient, session, msg_que,
          send_que, writing>>

clientVars  == <<client, asked, got>>
sessionVars == <<session, send_que, writing>>

Init == /\ client = [c \in Clients |-> "start"]
        /\ asked = [c \in Clients |-> 0]
        /\ got = [c \in Clients |-> <<>>]
        /\ broken = [c \in Clients |-> FALSE]
        /\ toServer = [c \in Clients |-> <<>>]
        /\ toClient = [c \in Clients |-> <<>>]
        /\ session = [c \in Clients |-> "none"]
        /\ msg_que = <<>>
        /\ send_que = [c \in Clients |-> <<>>]
        /\ writing = [c \in Clients |-> "none"]

-----------------------------------------------------------------------------
(* A thread of json-Client. *)
Connect(c) ==
  /\ client[c] = "start"
  /\ \E r \in {"ready", "failed"} : client' = [client EXCEPT ![c] = r]
  /\ UNCHANGED <<asked, got, broken, toServer, toClient, msg_que, sessionVars>>

\* A mutant of Write that does not count.
WriteForever(c) ==
  /\ client[c] = "ready"
  /\ client' = [client EXCEPT ![c] = "reading"]
  /\ asked' = [asked EXCEPT ![c] = @ + 1]
  /\ toServer' = [toServer EXCEPT ![c] = Append(@, asked'[c])]
  /\ UNCHANGED <<got, broken, toClient, msg_que, sessionVars>>

Write(c) ==
  /\ client[c] = "ready" /\ asked[c] < Requests
  /\ client' = [client EXCEPT ![c] = "reading"]
  /\ asked' = [asked EXCEPT ![c] = @ + 1]
  /\ toServer' = [toServer EXCEPT ![c] = Append(@, asked'[c])]
  /\ UNCHANGED <<got, broken, toClient, msg_que, sessionVars>>

Read(c) ==
  /\ client[c] = "reading" /\ toClient[c] # <<>>
  /\ client' = [client EXCEPT ![c] = "ready"]
  /\ got' = [got EXCEPT ![c] = Append(@, Head(toClient[c]))]
  /\ toClient' = [toClient EXCEPT ![c] = Tail(@)]
  /\ UNCHANGED <<asked, broken, toServer, msg_que, sessionVars>>

\* The loop has ended, or write or read has thrown: the socket is closed with
\* the thread's block.
Leave(c) ==
  /\ \/ /\ client[c] = "ready" /\ asked[c] = Requests
        /\ client' = [client EXCEPT ![c] = "done"]
     \/ /\ client[c] \in {"ready", "reading"} /\ broken[c]
        /\ client' = [client EXCEPT ![c] = "failed"]
  /\ broken' = [broken EXCEPT ![c] = TRUE]
  /\ UNCHANGED <<asked, got, toServer, toClient, msg_que, sessionVars>>

ClientThread(c) == Connect(c) \/ Write(c) \/ Read(c) \/ Leave(c)

ConnectionFails(c) ==
  /\ ~broken[c] /\ client[c] \in {"ready", "reading"}
  /\ broken' = [broken EXCEPT ![c] = TRUE]
  /\ UNCHANGED <<clientVars, toServer, toClient, msg_que, sessionVars>>

-----------------------------------------------------------------------------
(* The session of a client. *)
HandleAccept(c) ==
  /\ session[c] = "none" /\ client[c] \notin {"start", "failed"}
  /\ session' = [session EXCEPT ![c] = "open"]
  /\ UNCHANGED <<clientVars, broken, toServer, toClient, msg_que, send_que, writing>>

HandleRead(c) ==
  /\ session[c] = "open" /\ toServer[c] # <<>>
  /\ toServer' = [toServer EXCEPT ![c] = Tail(@)]
  /\ msg_que' = Append(msg_que, [to |-> c, msg |-> Head(toServer[c])])
  /\ UNCHANGED <<clientVars, broken, toClient, sessionVars>>

\* Close and ClearSession; the client sees the connection end.
Close(c) == /\ session' = [session EXCEPT ![c] = "closed"]
            /\ broken' = [broken EXCEPT ![c] = TRUE]

HandleReadError(c) ==
  /\ session[c] = "open" /\ broken[c]
  /\ Close(c)
  /\ UNCHANGED <<clientVars, toServer, toClient, msg_que, send_que, writing>>

WriteCompletes(c) ==
  /\ writing[c] = "active" /\ session[c] = "open" /\ ~broken[c]
  /\ toClient' = [toClient EXCEPT ![c] = Append(@, Head(send_que[c]))]
  /\ writing' = [writing EXCEPT ![c] = "done"]
  /\ UNCHANGED <<clientVars, broken, toServer, msg_que, session, send_que>>

\* Mutants of HandleWrite: one that does not take the node out of the queue, and
\* one that leaves the next node to the next Send.
HandleWriteNoPop(c) ==
  /\ writing[c] = "done"
  /\ writing' = [writing EXCEPT ![c] = IF Len(send_que[c]) > 1 THEN "active" ELSE "none"]
  /\ UNCHANGED <<clientVars, broken, toServer, toClient, msg_que, session, send_que>>

HandleWriteNoNext(c) ==
  /\ writing[c] = "done"
  /\ send_que' = [send_que EXCEPT ![c] = Tail(@)]
  /\ writing' = [writing EXCEPT ![c] = "none"]
  /\ UNCHANGED <<clientVars, broken, toServer, toClient, msg_que, session>>

HandleWrite(c) ==
  /\ writing[c] = "done"
  /\ send_que' = [send_que EXCEPT ![c] = Tail(@)]
  /\ writing' = [writing EXCEPT ![c] = IF Len(send_que[c]) > 1 THEN "active" ELSE "none"]
  /\ UNCHANGED <<clientVars, broken, toServer, toClient, msg_que, session>>

HandleWriteError(c) ==
  /\ writing[c] = "active" /\ (session[c] = "closed" \/ broken[c])
  /\ writing' = [writing EXCEPT ![c] = "none"]
  /\ Close(c)
  /\ UNCHANGED <<clientVars, toServer, toClient, msg_que, send_que>>

SessionThread(c) == \/ HandleAccept(c) \/ HandleRead(c) \/ HandleReadError(c)
                    \/ WriteCompletes(c) \/ HandleWrite(c) \/ HandleWriteError(c)

-----------------------------------------------------------------------------
\* The worker of the logic layer answers on the session the message came from,
\* whether that is still open or not.
Callback ==
  /\ msg_que # <<>>
  /\ LET c == Head(msg_que).to
     IN  /\ send_que' = [send_que EXCEPT ![c] = Append(@, Head(msg_que).msg)]
         /\ writing' = IF send_que[c] = <<>> THEN [writing EXCEPT ![c] = "active"] ELSE writing
  /\ msg_que' = Tail(msg_que)
  /\ UNCHANGED <<clientVars, broken, toServer, toClient, session>>

Joinable == \A c \in Clients : client[c] \in {"done", "failed"}

\* json-Client's main joins its threads; the server goes on waiting.
Joined == /\ Joinable /\ msg_que = <<>>
          /\ \A c \in Clients : session[c] # "open" /\ writing[c] = "none"
          /\ UNCHANGED vars

Next == \/ \E c \in Clients : ClientThread(c) \/ SessionThread(c) \/ ConnectionFails(c)
        \/ Callback \/ Joined

Spec == Init /\ [][Next]_vars

\* Every thread goes on when it can; writes complete or fail; bytes that have
\* been sent arrive.
FairSpec == /\ Spec /\ WF_vars(Callback)
            /\ \A c \in Clients : /\ WF_vars(ClientThread(c)) /\ WF_vars(HandleAccept(c))
                                  /\ WF_vars(HandleRead(c)) /\ WF_vars(HandleReadError(c))
                                  /\ WF_vars(WriteCompletes(c)) /\ WF_vars(HandleWrite(c))
                                  /\ WF_vars(HandleWriteError(c))

-----------------------------------------------------------------------------
(***************************************************************************)
(* Properties.                                                             *)
(***************************************************************************)
Messages == 1 .. Requests

\* Type invariant.
TypeOK ==
  /\ client \in [Clients -> {"start", "ready", "reading", "done", "failed"}]
  /\ asked \in [Clients -> 0 .. Requests]
  /\ got \in [Clients -> Seq(Messages)]
  /\ broken \in [Clients -> BOOLEAN]
  /\ toServer \in [Clients -> Seq(Messages)] /\ toClient \in [Clients -> Seq(Messages)]
  /\ session \in [Clients -> {"none", "open", "closed"}]
  /\ msg_que \in Seq([to : Clients, msg : Messages])
  /\ send_que \in [Clients -> Seq(Messages)]
  /\ writing \in [Clients -> {"none", "active", "done"}]

\* The messages of client c in the queue of the logic layer: none, or just the
\* request c waits for.
NoneQueued(c) == \A i \in 1 .. Len(msg_que) : msg_que[i].to # c

OneQueued(c) ==
  \E i \in 1 .. Len(msg_que) :
    /\ msg_que[i] = [to |-> c, msg |-> asked[c]]
    /\ \A j \in 1 .. Len(msg_que) : j # i => msg_que[j].to # c

\* Those in its session that have not been written.
Unsent(c) == IF writing[c] = "done" THEN Tail(send_que[c]) ELSE send_que[c]

\* The request of client c is nowhere, or in one of four places and in no other.
Nowhere(c)   == /\ toServer[c] = <<>> /\ NoneQueued(c)
                /\ Unsent(c) = <<>> /\ toClient[c] = <<>>
Coming(c)    == /\ toServer[c] = <<asked[c]>> /\ NoneQueued(c)
                /\ Unsent(c) = <<>> /\ toClient[c] = <<>>
InLogic(c)   == /\ toServer[c] = <<>> /\ OneQueued(c)
                /\ Unsent(c) = <<>> /\ toClient[c] = <<>>
InSession(c) == /\ toServer[c] = <<>> /\ NoneQueued(c)
                /\ Unsent(c) = <<asked[c]>> /\ toClient[c] = <<>>
Going(c)     == /\ toServer[c] = <<>> /\ NoneQueued(c)
                /\ Unsent(c) = <<>> /\ toClient[c] = <<asked[c]>>

Placed(c) == IF client[c] = "reading"
             THEN Coming(c) \/ InLogic(c) \/ InSession(c) \/ Going(c)
             ELSE Nowhere(c)

\* While the connection works, the request a client waits for is in exactly one
\* place, and a client that does not wait has nothing under way: no queue loses,
\* repeats or misdirects a message.
NothingLost == \A c \in Clients : ~broken[c] => Placed(c)

\* Send never meets the limit of the queue with these clients: at most the node
\* whose write has completed and the next answer are in it, the logic thread
\* being faster than HandleWrite.
TwoQueued == \A c \in Clients : ~broken[c] => Len(send_que[c]) <= 2

\* The server with its clients is an echo service.
Echo == INSTANCE EchoService WITH
          up <- [c \in Clients |-> client[c] # "failed"]
ImplementsEcho == Echo!FairSpec

\* json-Client ends: each of its threads gets all its answers or an exception.
ClientsEnd == <>Joinable
=============================================================================
