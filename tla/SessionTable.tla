---------------------------- MODULE SessionTable ----------------------------
(***************************************************************************)
(* CServer and its sessions: the acceptor makes a session on the next      *)
(* io_context of the pool, starts it when a connection has come in, puts   *)
(* it into _sessions and makes the next one; the session's own handlers    *)
(* take it out again.  The object lives as long as something holds a       *)
(* shared_ptr to it: the acceptor, the table, the handler of an operation, *)
(* a LogicNode in the logic layer's queue.                                 *)
(*                                                                         *)
(* pooled is TRUE for Server-version-3-multi-thread, whose sessions run on *)
(* the pool's threads, and FALSE for Server-version-3, where one thread    *)
(* runs the acceptor and all sessions.  Sessions are numbered in the order *)
(* they are made.  What HandleRead and HandleWrite do within a session is  *)
(* in FrameReader and SendQueue; here they appear by their outcome.        *)
(***************************************************************************)
EXTENDS Naturals, FiniteSets

CONSTANTS PoolSize,     (* io_contexts of the pool                        *)
          MaxSessions,  (* bound on the sessions made                     *)
          MaxMsgs       (* bound on the messages a session receives       *)

ASSUME TableAssumption ==
  /\ PoolSize \in Nat \ {0}
  /\ MaxSessions \in Nat \ {0}
  /\ MaxMsgs \in Nat

Ids == 1 .. MaxSessions

VARIABLES
  made,      (* sessions made so far; the last one is the acceptor's       *)
  service,   (* the io_context of each session                             *)
  next,      (* _nextIOService                                             *)
  accept,    (* async_accept and HandleAccept                              *)
  sessions,  (* the keys of _sessions                                      *)
  early,     (* sessions that ClearSession did not find in the table yet   *)
  fate,      (* a session is live, or what has happened to it              *)
  socket,    (* its socket is open or closed                               *)
  reading,   (* its read: none, armed, or completed with data              *)
  writing,   (* its write: none, active, or done                           *)
  out,       (* length of its _send_que                                    *)
  queued,    (* its messages in the logic layer                            *)
  received,  (* messages it has received                                   *)
  pooled     (* which of the two programs; never changes                   *)

vars == <<made, service, next, accept, sessions, early, fate, socket, reading,
          writing, out, queued, received, pooled>>

acceptVars  == <<made, service, next, accept, pooled>>
sessionVars == <<early, fate, socket, reading, writing, out, queued, received, pooled>>

\* How many io_contexts the sessions run on.
Contexts == IF pooled THEN PoolSize ELSE 1

-----------------------------------------------------------------------------
\* A mutant of GetIOService whose test comes too late.
GetIOServiceLate == IF next + 1 > Contexts THEN 0 ELSE next + 1

(* GetIOService: _nextIOService after it has been used. *)
GetIOService == IF next + 1 = Contexts THEN 0 ELSE next + 1

\* The constructor calls StartAccept.
Init == /\ pooled \in BOOLEAN
        /\ made = 1
        /\ service = [i \in Ids |-> 0]
        /\ next = IF Contexts = 1 THEN 0 ELSE 1
        /\ accept = "waiting"
        /\ sessions = {}
        /\ early = {}
        /\ fate = [i \in Ids |-> "live"]
        /\ socket = [i \in Ids |-> "closed"]
        /\ reading = [i \in Ids |-> "none"]
        /\ writing = [i \in Ids |-> "none"]
        /\ out = [i \in Ids |-> 0]
        /\ queued = [i \in Ids |-> 0]
        /\ received = [i \in Ids |-> 0]

\* A mutant of StartAccept that always takes the same io_context.
StartAcceptOneContext ==
  IF made < MaxSessions
  THEN /\ made' = made + 1
       /\ accept' = "waiting"
       /\ UNCHANGED <<service, next>>
  ELSE /\ accept' = "bound"
       /\ UNCHANGED <<made, service, next>>

\* A new session on the next io_context and async_accept into its socket, up to
\* the bound on sessions.
StartAccept ==
  IF made < MaxSessions
  THEN /\ made' = made + 1
       /\ service' = [service EXCEPT ![made'] = next]
       /\ next' = GetIOService
       /\ accept' = "waiting"
  ELSE /\ accept' = "bound"
       /\ UNCHANGED <<made, service, next>>

\* A connection comes in, or async_accept fails.
AcceptCompletes ==
  /\ accept = "waiting"
  /\ \/ accept' = "ok" /\ socket' = [socket EXCEPT ![made] = "open"]
     \/ accept' = "error" /\ UNCHANGED socket
  /\ UNCHANGED <<made, service, next, sessions, early, fate, reading, writing,
                 out, queued, received, pooled>>

\* HandleAccept: Start first, then the insertion under the lock, then the next
\* StartAccept.
HandleAcceptStart ==
  /\ accept = "ok"
  /\ accept' = "started"
  /\ reading' = [reading EXCEPT ![made] = "armed"]
  /\ UNCHANGED <<made, service, next, sessions, early, fate, socket, writing,
                 out, queued, received, pooled>>

HandleAcceptInsert ==
  /\ accept = "started"
  /\ sessions' = sessions \cup {made}
  /\ StartAccept
  /\ UNCHANGED sessionVars

HandleAcceptError ==
  /\ accept = "error"
  /\ StartAccept
  /\ UNCHANGED <<sessions, sessionVars>>

-----------------------------------------------------------------------------
\* A mutant of MayRun: the handlers run on another thread than the acceptor.
MayRunAnywhere == TRUE

(* The handlers of session i.  On the acceptor's own thread they do not    *)
(* run while HandleAccept does.                                            *)
MayRun == pooled \/ accept # "started"

ClearSession(i) ==
  /\ sessions' = sessions \ {i}
  /\ early' = IF i = made /\ accept = "started" THEN early \cup {i} ELSE early

Close(i) == socket' = [socket EXCEPT ![i] = "closed"]

\* The kernel completes an operation on an open socket.  The socket may have
\* been closed when the handler gets to run.
ReadCompletes(i) ==
  /\ reading[i] = "armed"
  /\ socket[i] = "open"
  /\ reading' = [reading EXCEPT ![i] = "data"]
  /\ UNCHANGED <<acceptVars, sessions, early, fate, socket, writing, out, queued, received>>

WriteCompletes(i) ==
  /\ writing[i] = "active"
  /\ socket[i] = "open"
  /\ writing' = [writing EXCEPT ![i] = "done"]
  /\ UNCHANGED <<acceptVars, sessions, early, fate, socket, reading, out, queued, received>>

\* HandleRead posts a message and reads on.  A session that has received all
\* its messages can still be sent a header that is refused.
HandleReadMessage(i) ==
  /\ MayRun
  /\ reading[i] = "data"
  /\ received[i] < MaxMsgs
  /\ reading' = [reading EXCEPT ![i] = "armed"]
  /\ received' = [received EXCEPT ![i] = @ + 1]
  /\ queued' = [queued EXCEPT ![i] = @ + 1]
  /\ UNCHANGED <<acceptVars, sessions, early, fate, socket, writing, out>>

\* A mutant of HandleReadError that closes the socket only.
HandleReadErrorNoClear(i) ==
  /\ MayRun
  /\ reading[i] = "armed"
  /\ reading' = [reading EXCEPT ![i] = "none"]
  /\ fate' = [fate EXCEPT ![i] = "closed"]
  /\ Close(i)
  /\ UNCHANGED <<acceptVars, sessions, early, writing, out, queued, received>>

\* The read has failed: the peer is gone, or the socket has been closed.
HandleReadError(i) ==
  /\ MayRun
  /\ reading[i] = "armed"
  /\ reading' = [reading EXCEPT ![i] = "none"]
  /\ fate' = [fate EXCEPT ![i] = "closed"]
  /\ Close(i)
  /\ ClearSession(i)
  /\ UNCHANGED <<acceptVars, writing, out, queued, received>>

\* A header is refused.  The socket is not closed.
HandleReadRefused(i) ==
  /\ MayRun
  /\ reading[i] = "data"
  /\ reading' = [reading EXCEPT ![i] = "none"]
  /\ fate' = [fate EXCEPT ![i] = "refused"]
  /\ ClearSession(i)
  /\ UNCHANGED <<acceptVars, socket, writing, out, queued, received>>

\* A negative length: the exception is caught, and nothing else is done; in
\* version 3 nothing catches it and the process ends.
HandleReadThrows(i) ==
  /\ MayRun
  /\ reading[i] = "data"
  /\ reading' = [reading EXCEPT ![i] = "none"]
  /\ fate' = [fate EXCEPT ![i] = "threw"]
  /\ UNCHANGED <<acceptVars, sessions, early, socket, writing, out, queued, received>>

\* The logic thread answers a message with Send, which starts a write if the
\* queue was empty, and drops the LogicNode.
Answer(i) ==
  /\ queued[i] > 0
  /\ queued' = [queued EXCEPT ![i] = @ - 1]
  /\ out' = [out EXCEPT ![i] = @ + 1]
  /\ writing' = IF out[i] = 0 THEN [writing EXCEPT ![i] = "active"] ELSE writing
  /\ UNCHANGED <<acceptVars, sessions, early, fate, socket, reading, received>>

HandleWrite(i) ==
  /\ MayRun
  /\ writing[i] = "done"
  /\ out' = [out EXCEPT ![i] = @ - 1]
  /\ writing' = [writing EXCEPT ![i] = IF out[i] > 1 THEN "active" ELSE "none"]
  /\ UNCHANGED <<acceptVars, sessions, early, fate, socket, reading, queued, received>>

\* Mutants of HandleWriteError: one that only takes the session out of the
\* table, and one that writes the node again.
HandleWriteErrorNoClose(i) ==
  /\ MayRun
  /\ writing[i] = "active"
  /\ writing' = [writing EXCEPT ![i] = "none"]
  /\ fate' = [fate EXCEPT ![i] = "closed"]
  /\ ClearSession(i)
  /\ UNCHANGED <<acceptVars, socket, reading, out, queued, received>>

HandleWriteErrorRetries(i) ==
  /\ MayRun
  /\ writing[i] = "active"
  /\ fate' = [fate EXCEPT ![i] = "closed"]
  /\ Close(i)
  /\ ClearSession(i)
  /\ UNCHANGED <<acceptVars, reading, writing, out, queued, received>>

HandleWriteError(i) ==
  /\ MayRun
  /\ writing[i] = "active"
  /\ writing' = [writing EXCEPT ![i] = "none"]
  /\ fate' = [fate EXCEPT ![i] = "closed"]
  /\ Close(i)
  /\ ClearSession(i)
  /\ UNCHANGED <<acceptVars, reading, out, queued, received>>

-----------------------------------------------------------------------------
\* What holds a shared_ptr to session i; when nothing does it is destroyed.
Held(i) == \/ i = made /\ accept \in {"waiting", "ok", "error", "started"}
           \/ i \in sessions
           \/ reading[i] # "none" \/ writing[i] # "none"
           \/ queued[i] > 0

HandleAccept == HandleAcceptStart \/ HandleAcceptInsert \/ HandleAcceptError

\* HandleRead with data that has come in, or told that the socket is closed.
HandleRead(i) == \/ HandleReadMessage(i) \/ HandleReadRefused(i) \/ HandleReadThrows(i)
                 \/ socket[i] = "closed" /\ HandleReadError(i)

Progress(i) == \/ Answer(i)
               \/ WriteCompletes(i) \/ HandleWrite(i) \/ HandleWriteError(i)

\* The peer sends something or goes away.
Peer(i) == \/ ReadCompletes(i)
           \/ socket[i] = "open" /\ HandleReadError(i)

Terminated == ~pooled /\ \E i \in Ids : fate[i] = "threw"

\* No connection is going to come in, and no session has anything to do; or the
\* process has ended.
Quiet == /\ \/ Terminated
            \/ /\ accept = "bound"
               /\ \A i \in Ids : /\ reading[i] = "none" /\ writing[i] = "none"
                                 /\ queued[i] = 0
         /\ UNCHANGED vars

Next == \/ ~Terminated /\ (AcceptCompletes \/ HandleAccept)
        \/ ~Terminated /\ \E i \in Ids : Peer(i) \/ HandleRead(i) \/ Progress(i)
        \/ Quiet

Spec == Init /\ [][Next]_vars

\* The threads run what is ready, the logic thread answers, a write completes or
\* fails, and an operation on a closed socket fails.  Nothing makes a client
\* connect, send or leave.
FairSpec == /\ Spec
            /\ WF_vars(~Terminated /\ HandleAccept)
            /\ \A i \in Ids : /\ WF_vars(~Terminated /\ Progress(i))
                              /\ WF_vars(~Terminated /\ HandleRead(i))

-----------------------------------------------------------------------------
(***************************************************************************)
(* Properties.                                                             *)
(***************************************************************************)
\* Type invariant of the server and its sessions.
TypeOK ==
  /\ made \in Ids
  /\ service \in [Ids -> 0 .. Contexts - 1]
  /\ next \in 0 .. Contexts - 1
  /\ accept \in {"waiting", "ok", "error", "started", "bound"}
  /\ sessions \subseteq Ids
  /\ early \subseteq Ids
  /\ fate \in [Ids -> {"live", "closed", "refused", "threw"}]
  /\ socket \in [Ids -> {"open", "closed"}]
  /\ reading \in [Ids -> {"none", "armed", "data"}]
  /\ writing \in [Ids -> {"none", "active", "done"}]
  /\ out \in [Ids -> 0 .. MaxMsgs]
  /\ queued \in [Ids -> 0 .. MaxMsgs]
  /\ received \in [Ids -> 0 .. MaxMsgs]
  /\ pooled \in BOOLEAN

Load(c) == Cardinality({i \in 1 .. made : service[i] = c})

\* The io_contexts get the same number of sessions, give or take one, however
\* the accepts turn out.
Balanced == \A c, d \in 0 .. Contexts - 1 : Load(c) <= Load(d) + 1

\* A session that reads from an open socket is in the table once HandleAccept
\* is through with it, whatever the handlers of this and of other sessions do.
ReadersRegistered ==
  \A i \in Ids : reading[i] # "none" /\ socket[i] = "open" =>
                   i \in sessions \/ (i = made /\ accept = "started")

\* A session that has come to its end is in the table for one of two reasons
\* only: an exception left HandleRead, which does not clear the session, or
\* the session ended on its own thread between Start and the insertion.  With one
\* thread for everything, as in version 3, the second cannot happen, and the first
\* ends the process: the table of a running server holds no dead session.
DeadInTable ==
  \A i \in sessions : fate[i] # "live" => fate[i] = "threw" \/ (pooled /\ i \in early)

\* A session that has ended is destroyed, whatever was under way, unless it is
\* the table that keeps it.
Released ==
  \A i \in Ids : fate[i] # "live" ~> (~Held(i) \/ i \in sessions \/ Terminated)
=============================================================================
