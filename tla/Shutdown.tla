------------------------------ MODULE Shutdown ------------------------------
(***************************************************************************)
(* How the server ends: a signal makes main stop the io_contexts and join  *)
(* their threads; main's locals are destroyed, then the static instances   *)
(* of the singletons, while the logic layer's worker goes on until         *)
(* ~LogicSystem.  The question is whether anything is used after it has    *)
(* been destroyed, and whether main gets to the end.                       *)
(*                                                                         *)
(* pooled is TRUE for Server-version-3-multi-thread: the sessions run on   *)
(* the io_contexts of AsioIOServicePool, CServer is a local of main.  It   *)
(* is FALSE for Server-version-3: one io_context, a local of main, and one *)
(* thread, of which CServer is a local.  How version 3 notices the signal  *)
(* is in SignalWait; a notification that ~LogicSystem loses is in          *)
(* LogicSystem, and here nothing makes the worker see the stop request.    *)
(*                                                                         *)
(* An exception that no try block of its thread catches ends the process   *)
(* in std::terminate wherever main is: one of the worker's, in both        *)
(* programs, and one of version 3's network thread.                        *)
(***************************************************************************)
EXTENDS Integers, Sequences

CONSTANTS PoolSize,   (* io_contexts of the pool                             *)
          MaxMsgs,    (* bound on the messages posted                        *)
          MaxOps      (* bound on the operations pending on an io_context    *)

ASSUME ShutdownAssumption ==
  /\ PoolSize \in Nat \ {0}
  /\ MaxMsgs \in Nat /\ MaxOps \in Nat

VARIABLES
  main,     (* construct, run, stop, join, leave, statics, exited, terminated *)
  at,       (* the loop or list main is in: its next element                  *)
  stopped,  (* io_context::stop has been called                               *)
  thread,   (* of each io_context: construct, poll, handler, exited or threw  *)
  ops,      (* operations pending on each io_context                          *)
  queue,    (* _msg_que: the io_context of each message's session             *)
  posted,   (* messages posted so far                                         *)
  logic,    (* the worker: unused, running, stopping, exited or threw         *)
  gone,     (* what has been destroyed: server, contexts, logic               *)
  dangling, (* what has been used after that                                  *)
  pooled    (* which of the two programs; never changes                       *)

vars == <<main, at, stopped, thread, ops, queue, posted, logic, gone, dangling, pooled>>

mainVars   == <<main, at, stopped>>
threadVars == <<thread, ops, queue, posted>>

(* The io_contexts that run sessions. *)
NContexts == IF pooled THEN PoolSize ELSE 1
Contexts  == 1 .. NContexts

Init == /\ pooled \in BOOLEAN
        /\ main = IF pooled THEN "construct" ELSE "run"
        /\ at = 1
        /\ stopped = [c \in Contexts |-> FALSE]
        /\ thread = [c \in Contexts |-> IF pooled THEN "poll" ELSE "construct"]
        /\ ops = [c \in Contexts |-> 0]
        /\ queue = <<>>
        /\ posted = 0
        /\ logic = "unused"
        /\ gone = {}
        /\ dangling = {}

Uses(what) == dangling' = dangling \cup ({what} \cap gone)

\* An exception leaves the function of thread c.
Uncaught(c) == thread' = [thread EXCEPT ![c] = "threw"] /\ main' = "terminated"

-----------------------------------------------------------------------------
(* main *)
\* CServer's constructor binds the port, which may be in use.  The exception
\* leaves main's block; on version 3's thread nothing catches it.
ConstructServer ==
  /\ \/ pooled /\ main = "construct" /\ main' = "run" /\ UNCHANGED thread
     \/ thread[1] = "construct" /\ thread' = [thread EXCEPT ![1] = "poll"] /\ UNCHANGED main
  /\ UNCHANGED <<at, stopped, ops, queue, posted, logic, gone, dangling, pooled>>

ConstructThrows ==
  /\ \/ pooled /\ main = "construct" /\ main' = "leave" /\ UNCHANGED thread
     \/ thread[1] = "construct" /\ Uncaught(1)
  /\ UNCHANGED <<at, stopped, ops, queue, posted, logic, gone, dangling, pooled>>

\* The handler of the signal set on main's own io_context, or the end of
\* version 3's wait.
Signal == /\ main = "run"
          /\ main' = "stop"
          /\ UNCHANGED <<at, stopped, threadVars, logic, gone, dangling, pooled>>

\* One more element of the list main goes through, or on to what comes next.
Step(length, next) == IF at < length THEN at' = at + 1 /\ UNCHANGED main
                      ELSE at' = 1 /\ main' = next

\* Stop's first loop.  The work object goes too; a stopped io_context does not
\* wait for it.
StopContext == /\ main = "stop"
               /\ stopped' = [stopped EXCEPT ![at] = TRUE]
               /\ Step(NContexts, "join")
               /\ UNCHANGED <<threadVars, logic, gone, dangling, pooled>>

\* A mutant of Join that forgets the last thread.
JoinAllButOne == /\ main = "join"
                 /\ thread[at] = "exited" \/ at = NContexts
                 /\ Step(NContexts, "leave")
                 /\ UNCHANGED <<stopped, threadVars, logic, gone, dangling, pooled>>

Join == /\ main = "join"
        /\ thread[at] = "exited"
        /\ Step(NContexts, "leave")
        /\ UNCHANGED <<stopped, threadVars, logic, gone, dangling, pooled>>

\* The end of main's try block destroys its locals.
LeaveBlock == /\ main = "leave"
              /\ main' = "statics"
              /\ gone' = gone \cup {IF pooled THEN "server" ELSE "contexts"}
              /\ UNCHANGED <<at, stopped, threadVars, logic, dangling, pooled>>

\* A mutant of Statics: the pool's instance goes first.
StaticsPoolFirst == IF pooled THEN <<"contexts", "logic">> ELSE <<"logic">>

\* The static instances in the order of their destruction, the reverse of the
\* order in which the object files register them: main.o, which uses the pool,
\* is linked in front of CSession.o, which uses the LogicSystem.
Statics == IF pooled THEN <<"logic", "contexts">> ELSE <<"logic">>

Destroying(what) == main = "statics" /\ Statics[at] = what

\* ~LogicSystem asks the worker to stop and joins it, if there has been a
\* message at all.
StopLogic == /\ Destroying("logic")
             /\ logic = "running"
             /\ logic' = "stopping"
             /\ UNCHANGED <<mainVars, threadVars, gone, dangling, pooled>>

\* A mutant of DestroyLogic that does not join the worker.
DestroyLogicNoJoin == /\ Destroying("logic")
                      /\ logic # "running"
                      /\ gone' = gone \cup {"logic"}
                      /\ Step(Len(Statics), "exited")
                      /\ UNCHANGED <<stopped, threadVars, logic, dangling, pooled>>

DestroyLogic == /\ Destroying("logic")
                /\ logic \in {"unused", "exited"}
                /\ gone' = gone \cup {"logic"}
                /\ Step(Len(Statics), "exited")
                /\ UNCHANGED <<stopped, threadVars, logic, dangling, pooled>>

\* The pool does not stop in its destructor: a thread that can still be joined
\* ends the process.
DestroyPool == /\ Destroying("contexts")
               /\ IF \A c \in Contexts : thread[c] = "exited"
                  THEN gone' = gone \cup {"contexts"} /\ Step(Len(Statics), "exited")
                  ELSE main' = "terminated" /\ UNCHANGED <<at, gone>>
               /\ UNCHANGED <<stopped, threadVars, logic, dangling, pooled>>

-----------------------------------------------------------------------------
(* The threads of the io_contexts. *)
\* HandleAccept, on main's thread or on version 3's only one, starts a session.
Accept(c) ==
  /\ IF pooled THEN main = "run" ELSE thread[c] = "poll" /\ ~stopped[c]
  /\ ops[c] < MaxOps
  /\ ops' = [ops EXCEPT ![c] = @ + 1]
  /\ UNCHANGED <<mainVars, thread, queue, posted, logic, gone, dangling, pooled>>

\* A mutant of Dispatch for which Stop has only reset the work object.
DispatchAlways(c) ==
  /\ thread[c] = "poll"
  /\ ops[c] > 0
  /\ thread' = [thread EXCEPT ![c] = "handler"]
  /\ ops' = [ops EXCEPT ![c] = @ - 1]
  /\ UNCHANGED <<mainVars, queue, posted, logic, gone, dangling, pooled>>

\* run() takes up the handler of an operation unless it has been stopped.
Dispatch(c) ==
  /\ thread[c] = "poll" /\ ~stopped[c]
  /\ ops[c] > 0
  /\ thread' = [thread EXCEPT ![c] = "handler"]
  /\ ops' = [ops EXCEPT ![c] = @ - 1]
  /\ UNCHANGED <<mainVars, queue, posted, logic, gone, dangling, pooled>>

Returns(c) == /\ thread[c] = "handler"
              /\ thread' = [thread EXCEPT ![c] = "poll"]
              /\ UNCHANGED <<mainVars, gone, pooled>>

\* HandleRead posts a message and reads on, the first one constructing the
\* LogicSystem.
HandlePost(c) ==
  /\ Returns(c)
  /\ posted < MaxMsgs
  /\ posted' = posted + 1
  /\ queue' = Append(queue, c)
  /\ ops' = [ops EXCEPT ![c] = @ + 1]
  /\ logic' = IF logic = "unused" THEN "running" ELSE logic
  /\ Uses("logic")

\* HandleRead with a part of a message reads on.
HandlePartial(c) ==
  /\ Returns(c)
  /\ ops' = [ops EXCEPT ![c] = @ + 1]
  /\ UNCHANGED <<queue, posted, logic, dangling>>

\* A mutant of HandleError that counts the operation off a second time.
HandleErrorTwice(c) == /\ Returns(c)
                       /\ Uses("server")
                       /\ ops' = [ops EXCEPT ![c] = @ - 1]
                       /\ UNCHANGED <<queue, posted, logic>>

\* A handler with an error has the server erase the session.
HandleError(c) == /\ Returns(c)
                  /\ Uses("server")
                  /\ UNCHANGED <<ops, queue, posted, logic>>

\* HandleRead cannot make the node of a header whose length is below -1.  The
\* pooled server's try block catches that, and the session is deaf from then
\* on; version 3 has none, in HandleRead or around run().
HandleThrows(c) ==
  /\ IF pooled THEN Returns(c)
     ELSE /\ thread[c] = "handler"
          /\ Uncaught(c)
          /\ UNCHANGED <<at, stopped, gone, pooled>>
  /\ UNCHANGED <<ops, queue, posted, logic, dangling>>

\* HandleWrite with nothing more to send.
HandleWritten(c) == Returns(c) /\ UNCHANGED <<ops, queue, posted, logic, dangling>>

\* run() returns; the thread of version 3 destroys its CServer.
ThreadExit(c) ==
  /\ thread[c] = "poll" /\ stopped[c]
  /\ thread' = [thread EXCEPT ![c] = "exited"]
  /\ gone' = IF pooled THEN gone ELSE gone \cup {"server"}
  /\ UNCHANGED <<mainVars, ops, queue, posted, logic, dangling, pooled>>

Thread(c) == \/ Dispatch(c) \/ HandlePost(c) \/ HandlePartial(c) \/ HandleError(c)
             \/ HandleThrows(c) \/ HandleWritten(c) \/ ThreadExit(c)

-----------------------------------------------------------------------------
(* The worker of the logic layer. *)
\* A callback's Send begins a write on the session's socket, or finds one
\* under way.
WorkerCall ==
  /\ logic \in {"running", "stopping"}
  /\ queue # <<>>
  /\ queue' = Tail(queue)
  /\ Uses("contexts")
  /\ LET c == Head(queue)
     IN  ops' = IF ops[c] < MaxOps THEN [ops EXCEPT ![c] = @ + 1] ELSE ops
  /\ UNCHANGED <<mainVars, thread, posted, logic, gone, pooled>>

\* The callback throws, of the text of a message or the size of its answer.
WorkerThrows ==
  /\ logic \in {"running", "stopping"}
  /\ queue # <<>>
  /\ logic' = "threw"
  /\ main' = "terminated"
  /\ UNCHANGED <<at, stopped, threadVars, gone, dangling, pooled>>

\* A mutant of WorkerExit that leaves messages in the queue.
WorkerExitAtOnce ==
  /\ logic = "stopping"
  /\ logic' = "exited"
  /\ UNCHANGED <<mainVars, threadVars, gone, dangling, pooled>>

WorkerExit ==
  /\ logic = "stopping" /\ queue = <<>>
  /\ logic' = "exited"
  /\ UNCHANGED <<mainVars, threadVars, gone, dangling, pooled>>

-----------------------------------------------------------------------------
Ended == main \in {"exited", "terminated"}

Main == \/ ConstructServer \/ StopContext \/ Join \/ LeaveBlock
        \/ StopLogic \/ DestroyLogic \/ DestroyPool

Worker == WorkerCall \/ WorkerThrows \/ WorkerExit

Next == \/ ~Ended /\ (Main \/ ConstructThrows \/ Signal \/ Worker)
        \/ ~Ended /\ \E c \in Contexts : Accept(c) \/ Thread(c)
        \/ Ended /\ UNCHANGED vars

Spec == Init /\ [][Next]_vars

\* Every thread goes on when it can, but the worker may miss the stop request,
\* and no signal, connection or message has to come.
FairSpec == /\ Spec
            /\ WF_vars(~Ended /\ Main)
            /\ \A c \in 1 .. PoolSize : WF_vars(~Ended /\ c \in Contexts /\ Thread(c))

-----------------------------------------------------------------------------
(***************************************************************************)
(* Properties.                                                             *)
(***************************************************************************)
\* Type invariant.
TypeOK ==
  /\ main \in {"construct", "run", "stop", "join", "leave", "statics", "exited",
               "terminated"}
  /\ at \in Nat
  /\ stopped \in [Contexts -> BOOLEAN]
  /\ thread \in [Contexts -> {"construct", "poll", "handler", "exited", "threw"}]
  /\ ops \in [Contexts -> Nat]
  /\ queue \in Seq(Contexts)
  /\ posted \in 0 .. MaxMsgs
  /\ logic \in {"unused", "running", "stopping", "exited", "threw"}
  /\ gone \subseteq {"server", "contexts", "logic"}
  /\ dangling \subseteq gone
  /\ pooled \in BOOLEAN

\* No handler uses the CServer, no callback a socket, and nobody the LogicSystem
\* once it is destroyed, wherever the threads are when the signal comes.  Version
\* 3's io_context is the exception: it is a local of main, and the worker goes on
\* answering what is in the queue when main has left.
NothingDangles == dangling \subseteq IF pooled THEN {} ELSE {"contexts"}

\* std::terminate ends the process only for an exception that nothing catches,
\* of a callback in the worker, or of version 3's network thread, whose server
\* cannot be constructed or whose HandleRead throws; or because the pooled
\* server could not be constructed, and its pool is destroyed unstopped.  Never
\* is a thread left unjoined on the way from Stop to the end.
TerminatedForCause ==
  main = "terminated" => \/ logic = "threw"
                         \/ ~pooled /\ thread[1] = "threw"
                         \/ pooled /\ \A c \in Contexts : ~stopped[c]

\* At the end no thread runs and every message posted has been dealt with.
AllJoined ==
  main = "exited" => /\ \A c \in Contexts : thread[c] = "exited"
                     /\ queue = <<>>

\* Stop returns and main gets to the destruction of the singletons, whatever
\* the sessions have under way, unless an exception ends the process first.
StopReturns == main = "stop" ~> main \in {"statics", "terminated"}
=============================================================================
