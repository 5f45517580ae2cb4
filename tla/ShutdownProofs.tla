--------------------------- MODULE ShutdownProofs ---------------------------
(***************************************************************************)
(* The end of both server programs, for any number of io_contexts,         *)
(* messages and operations: nothing is used after it has been destroyed,   *)
(* but version 3's io_context, and no thread or message is left behind.    *)
(*                                                                         *)
(* The argument goes by where main is.  Every thread has exited before     *)
(* main leaves its block, unless the pooled server could not be            *)
(* constructed; then no thread has ever had anything to do.  The worker is *)
(* the last to go, and it goes before the pool it sends on.                *)
(*                                                                         *)
(* The last part is about main's wait in version 3, which comes before     *)
(* that (SignalWait): with any number of threads and of signals that       *)
(* interrupt each other, main sleeps through a signal only if the handler  *)
(* has notified between the test and the wait.                             *)
(***************************************************************************)
EXTENDS Shutdown, SignalWait, SequenceTheorems, TLAPS

Over == {"statics", "exited", "terminated"}

\* No session has ever been accepted.
Unused == /\ \A c \in Contexts : thread[c] = "poll" /\ ops[c] = 0 /\ ~stopped[c]
          /\ queue = <<>>
          /\ logic = "unused"

AllExited == \A c \in Contexts : thread[c] = "exited" /\ stopped[c]

\* Where the threads are, by where main is.
ThreadInv ==
  /\ \A c \in Contexts : /\ thread[c] = "construct" => ~pooled
                         /\ thread[c] = "exited" => stopped[c]
  /\ main = "construct" => pooled /\ Unused
  /\ main = "run" => \A c \in Contexts : ~stopped[c]
  /\ main = "stop" => at \in Contexts /\ \A c \in Contexts : stopped[c] => c < at
  /\ main = "stop" => \A c \in Contexts : c < at => stopped[c]
  /\ main = "join" => /\ at \in Contexts
                      /\ \A c \in Contexts : stopped[c] /\ (c < at => thread[c] = "exited")
  /\ main \in {"leave", "statics", "exited"} => (pooled /\ Unused) \/ AllExited
  /\ main = "terminated" => \/ pooled /\ Unused
                            \/ ~pooled /\ thread[1] = "threw"
                            \/ logic = "threw"

\* What has been destroyed, by where main is.
GoneInv ==
  /\ main \in {"construct", "run", "leave"} => at = 1
  /\ main = "statics" => at = 1 \/ (pooled /\ at = 2)
  /\ main = "statics" /\ at = 2 => "logic" \in gone
  /\ main \notin Over => gone \subseteq {"server"}
  /\ main \notin Over /\ pooled => gone = {}
  /\ "server" \in gone => (pooled /\ Unused) \/ AllExited
  /\ "logic" \in gone => main # "statics" \/ at = 2
  /\ "contexts" \in gone => \/ main = "exited"
                            \/ ~pooled /\ main \in {"statics", "terminated"}
  /\ main = "exited" => "logic" \in gone /\ AllExited

\* The worker is asked to stop when no thread posts any more.
WorkerInv ==
  /\ logic \in {"stopping", "exited"} => main \in Over
  /\ logic \in {"unused", "exited"} => queue = <<>>
  /\ "logic" \in gone => logic \in {"unused", "exited"}
  /\ "contexts" \in gone /\ pooled => "logic" \in gone

IInv == TypeOK /\ ThreadInv /\ GoneInv /\ WorkerInv /\ NothingDangles

-----------------------------------------------------------------------------
\* There is at least one io_context, and a step leaves their number alone.
LEMMA ContextsType == /\ NContexts \in Nat \ {0} /\ Contexts = 1 .. NContexts
                      /\ 1 \in Contexts
                      /\ ~pooled => NContexts = 1 /\ Contexts = {1}
BY ShutdownAssumption DEF NContexts, Contexts

LEMMA ContextsStay ==
  ASSUME [Next]_vars
  PROVE  pooled' = pooled /\ NContexts' = NContexts /\ Contexts' = Contexts
<1>1. pooled' = pooled
  BY DEF Next, Main, Thread, ConstructServer, ConstructThrows, Signal, StopContext, Join,
         LeaveBlock, StopLogic, DestroyLogic, DestroyPool, Accept, Dispatch, HandlePost,
         HandlePartial, HandleError, HandleWritten, ThreadExit, HandleThrows, Returns,
         Uncaught, Worker, WorkerCall, WorkerThrows, WorkerExit, vars
<1>2. NContexts' = NContexts
  BY <1>1 DEF NContexts
<1>. QED  BY <1>1, <1>2 DEF Contexts

\* main's block is entered with nothing under way.
LEMMA InitHolds == Init => IInv
<1> SUFFICES ASSUME Init PROVE IInv
  OBVIOUS
<1>0. NContexts \in Nat \ {0} /\ (~pooled => Contexts = {1})
  BY ContextsType
<1>1. TypeOK /\ NothingDangles
  <2>1. stopped \in [Contexts -> BOOLEAN]
    BY DEF Init
  <2>. QED  BY <2>1, ShutdownAssumption DEF Init, TypeOK, NothingDangles
<1>2. ThreadInv /\ GoneInv /\ WorkerInv
  BY DEF Init, ThreadInv, GoneInv, WorkerInv, Over, Unused
<1>. QED  BY <1>1, <1>2 DEF IInv

\* The order in which the programs destroy their singletons.
LEMMA StaticsOrder ==
  ASSUME IInv
  PROVE  /\ Len(Statics) = IF pooled THEN 2 ELSE 1
         /\ Destroying("logic") => main = "statics" /\ at = 1
         /\ Destroying("contexts") => main = "statics" /\ at = 2 /\ pooled
<1>1. CASE pooled
  BY <1>1 DEF Statics, Destroying, IInv, GoneInv
<1>2. CASE ~pooled
  BY <1>2 DEF Statics, Destroying, IInv, GoneInv
<1>. QED  BY <1>1, <1>2

\* The end of the process by an exception of version 3's network thread.
LEMMA UncaughtHolds ==
  ASSUME IInv, main # "terminated", ~pooled, NEW c \in Contexts,
         thread[c] \in {"construct", "handler"}, Uncaught(c),
         pooled' = pooled, Contexts' = Contexts,
         UNCHANGED <<at, stopped, ops, queue, posted, logic, gone, dangling>>
  PROVE  IInv'
<1>0. Contexts = {1} /\ c = 1
  BY ContextsType
<1>1. /\ thread' = [thread EXCEPT ![1] = "threw"]
      /\ main' = "terminated"
  BY <1>0 DEF Uncaught
<1>a. thread \in [Contexts -> {"construct", "poll", "handler", "exited", "threw"}]
  BY DEF IInv, TypeOK
<1>2. thread'[1] = "threw" /\ ~AllExited
  BY <1>0, <1>1, <1>a DEF AllExited
<1>3. TypeOK'
  <2>1. thread' \in [Contexts -> {"construct", "poll", "handler", "exited", "threw"}]
    BY <1>1, <1>a
  <2>2. main' \in {"construct", "run", "stop", "join", "leave", "statics", "exited",
                   "terminated"}
    BY <1>1
  <2>. QED  BY <2>1, <2>2 DEF IInv, TypeOK
<1>4. ThreadInv'
  BY <1>0, <1>1, <1>2 DEF ThreadInv
<1>5. main \notin {"leave", "statics", "exited"} /\ "server" \notin gone
  BY <1>2 DEF IInv, ThreadInv, GoneInv
<1>6. GoneInv' /\ WorkerInv' /\ NothingDangles'
  BY <1>1, <1>5 DEF IInv, GoneInv, WorkerInv, NothingDangles, Over
<1>. QED  BY <1>3, <1>4, <1>6 DEF IInv

\* main, as far as the end of its block.
LEMMA MainSteps ==
  ASSUME IInv, [Next]_vars, ~Ended,
         ConstructServer \/ ConstructThrows \/ Signal \/ StopContext \/ Join \/ LeaveBlock
  PROVE  IInv'
<1> USE DEF IInv, Uses
<1>0. /\ NContexts \in Nat \ {0} /\ Contexts = 1 .. NContexts
      /\ 1 \in Contexts /\ (~pooled => NContexts = 1 /\ Contexts = {1})
      /\ pooled' = pooled /\ Contexts' = Contexts
  BY ContextsStay, ContextsType
<1>1. CASE ConstructServer
  <2>1. TypeOK'
    BY <1>0, <1>1 DEF ConstructServer, TypeOK, mainVars, threadVars
  <2>2. ThreadInv'
    <3>1. CASE pooled /\ main = "construct"
      <4>1. main' = "run" /\ UNCHANGED <<at, stopped, thread>> /\ Unused
        BY <1>0, <1>1, <3>1 DEF ConstructServer, ThreadInv, Unused
      <4>. QED  BY <1>0, <3>1, <4>1 DEF ThreadInv, Over, Unused
    <3>2. CASE thread[1] = "construct" /\ thread' = [thread EXCEPT ![1] = "poll"] /\ UNCHANGED main
      <4>1. ~pooled /\ Contexts = {1} /\ thread'[1] = "poll" /\ UNCHANGED <<at, stopped>>
        BY <1>0, <1>1, <3>2 DEF ConstructServer, TypeOK, ThreadInv
      <4>2. main \in {"run", "stop", "join"}
        BY <1>0, <3>2, <4>1 DEF Ended, ThreadInv, AllExited, TypeOK
      <4>. QED  BY <1>0, <3>2, <4>1, <4>2 DEF ThreadInv, Over
    <3>. QED  BY <1>1, <3>1, <3>2 DEF ConstructServer
  <2>3. GoneInv'
    BY <1>0, <1>1 DEF ConstructServer, TypeOK, ThreadInv, GoneInv, Over, Unused, AllExited, mainVars, threadVars
  <2>4. WorkerInv' /\ NothingDangles'
    BY <1>0, <1>1 DEF ConstructServer, TypeOK, ThreadInv, GoneInv, WorkerInv, NothingDangles, Over, Unused, AllExited, mainVars, threadVars
  <2>. QED  BY <1>0, <2>1, <2>2, <2>3, <2>4
<1>2. CASE ConstructThrows
  <2>1. CASE pooled
    <3>1. main = "construct" /\ main' = "leave" /\ Unused
          /\ UNCHANGED <<at, stopped, threadVars, logic, gone, dangling>>
      BY <1>0, <1>2, <2>1 DEF ConstructThrows, ThreadInv, threadVars
    <3>2. TypeOK'
      BY <1>0, <3>1 DEF TypeOK, threadVars
    <3>3. ThreadInv' /\ GoneInv'
      BY <1>0, <2>1, <3>1 DEF ThreadInv, GoneInv, Over, Unused, AllExited, threadVars
    <3>4. WorkerInv' /\ NothingDangles'
      BY <1>0, <2>1, <3>1 DEF GoneInv, WorkerInv, NothingDangles, Over, threadVars
    <3>. QED  BY <3>2, <3>3, <3>4
  <2>2. CASE ~pooled
    <3>1. /\ thread[1] = "construct" /\ Uncaught(1)
          /\ UNCHANGED <<at, stopped, ops, queue, posted, logic, gone, dangling>>
      BY <1>0, <1>2, <2>2 DEF ConstructThrows, ThreadInv
    <3>. QED  BY <1>0, <2>2, <3>1, UncaughtHolds DEF Ended
  <2>. QED  BY <2>1, <2>2
<1>3. CASE Signal
  <2>1. TypeOK'
    BY <1>0, <1>3 DEF Signal, TypeOK, mainVars, threadVars
  <2>2. ThreadInv'
    BY <1>0, <1>3 DEF Signal, TypeOK, ThreadInv, GoneInv, Over, Unused, AllExited, mainVars, threadVars
  <2>3. GoneInv'
    BY <1>0, <1>3 DEF Signal, TypeOK, ThreadInv, GoneInv, Over, Unused, AllExited, mainVars, threadVars
  <2>4. WorkerInv' /\ NothingDangles'
    BY <1>0, <1>3 DEF Signal, TypeOK, ThreadInv, GoneInv, WorkerInv, NothingDangles, Over, Unused, AllExited, mainVars, threadVars
  <2>. QED  BY <1>0, <2>1, <2>2, <2>3, <2>4
<1>4. CASE StopContext
  <2>1. TypeOK'
    <3>1. stopped' \in [Contexts -> BOOLEAN]
      BY <1>4 DEF StopContext, TypeOK
    <3>. QED  BY <1>0, <1>4, <3>1 DEF StopContext, Step, TypeOK, mainVars, threadVars
  <2>2. ThreadInv'
    <3>1. /\ at \in Contexts /\ \A c \in Contexts : stopped[c] <=> c < at
          /\ main = "stop" /\ stopped' = [stopped EXCEPT ![at] = TRUE] /\ thread' = thread
      BY <1>0, <1>4 DEF StopContext, ThreadInv, threadVars
    <3>2. \A c \in Contexts : stopped'[c] <=> c < at \/ c = at
      <4>1. stopped \in [Contexts -> BOOLEAN]
        BY DEF TypeOK
      <4>. QED  BY <3>1, <4>1
    <3>3. CASE at < NContexts
      <4>1. main' = "stop" /\ at' = at + 1
        BY <1>4, <3>1, <3>3 DEF StopContext, Step
      <4>2. at' \in Contexts /\ \A c \in Contexts : stopped'[c] <=> c < at'
        BY <1>0, <3>1, <3>2, <3>3, <4>1
      <4>. QED  BY <1>0, <3>1, <3>2, <4>1, <4>2 DEF ThreadInv, Over
    <3>4. CASE ~(at < NContexts)
      <4>1. main' = "join" /\ at' = 1 /\ at = NContexts
        BY <1>0, <1>4, <3>1, <3>4 DEF StopContext, Step
      <4>2. at' \in Contexts /\ \A c \in Contexts : stopped'[c] /\ ~(c < at')
        BY <1>0, <3>1, <3>2, <4>1
      <4>. QED  BY <1>0, <3>1, <3>2, <4>1, <4>2 DEF ThreadInv, Over
    <3>. QED  BY <3>3, <3>4
  <2>3. GoneInv'
    <3>1. main = "stop" /\ main' \in {"stop", "join"} /\ gone' = gone /\ thread' = thread
      BY <1>4 DEF StopContext, Step, threadVars
    <3>2. /\ main \notin Over /\ main' \notin Over /\ gone' \subseteq {"server"}
          /\ pooled => gone = {}
      BY <3>1 DEF GoneInv, Over
    <3>3. "server" \notin gone \/ AllExited
      BY <3>2 DEF GoneInv
    <3>4. AllExited => AllExited'
      <4>1. stopped \in [Contexts -> BOOLEAN] /\ stopped' = [stopped EXCEPT ![at] = TRUE]
        BY <1>4 DEF StopContext, TypeOK
      <4>. QED  BY <1>0, <3>1, <4>1 DEF AllExited
    <3>. QED  BY <1>0, <3>1, <3>2, <3>3, <3>4 DEF GoneInv
  <2>4. WorkerInv' /\ NothingDangles'
    BY <1>0, <1>4 DEF StopContext, Step, TypeOK, ThreadInv, GoneInv, WorkerInv, NothingDangles, Over, Unused, AllExited, mainVars, threadVars
  <2>. QED  BY <1>0, <2>1, <2>2, <2>3, <2>4
<1>5. CASE Join
  <2>1. TypeOK'
    BY <1>0, <1>5 DEF Join, Step, TypeOK, mainVars, threadVars
  <2>2. ThreadInv'
    <3>1. at \in Contexts /\ \A c \in Contexts : stopped[c] /\ (c <= at => thread[c] = "exited")
      BY <1>0, <1>5 DEF Join, ThreadInv
    <3>2. CASE at < NContexts
      BY <1>0, <1>5, <3>1, <3>2 DEF Join, Step, ThreadInv, Over, threadVars
    <3>3. CASE ~(at < NContexts)
      <4>1. AllExited
        BY <1>0, <3>1, <3>3 DEF AllExited
      <4>. QED  BY <1>0, <1>5, <3>3, <4>1 DEF Join, Step, ThreadInv, Over, AllExited, threadVars
    <3>. QED  BY <3>2, <3>3
  <2>3. GoneInv'
    BY <1>0, <1>5 DEF Join, Step, TypeOK, ThreadInv, GoneInv, Over, Unused, AllExited, mainVars, threadVars
  <2>4. WorkerInv' /\ NothingDangles'
    BY <1>0, <1>5 DEF Join, Step, TypeOK, ThreadInv, GoneInv, WorkerInv, NothingDangles, Over, Unused, AllExited, mainVars, threadVars
  <2>. QED  BY <1>0, <2>1, <2>2, <2>3, <2>4
<1>6. CASE LeaveBlock
  <2>1. TypeOK'
    BY <1>0, <1>6 DEF LeaveBlock, TypeOK, mainVars, threadVars
  <2>2. ThreadInv'
    BY <1>0, <1>6 DEF LeaveBlock, TypeOK, ThreadInv, GoneInv, Over, Unused, AllExited, mainVars, threadVars
  <2>3. GoneInv'
    <3>1. /\ main = "leave" /\ main' = "statics" /\ UNCHANGED <<at, stopped, thread, ops, queue, logic>>
          /\ gone' = gone \cup {IF pooled THEN "server" ELSE "contexts"}
      BY <1>6 DEF LeaveBlock, threadVars
    <3>2. at' = 1 /\ gone \subseteq {"server"} /\ "logic" \notin gone'
      BY <3>1 DEF GoneInv, Over
    <3>3. (pooled /\ Unused) \/ AllExited
      BY <3>1 DEF ThreadInv
    <3>4. (pooled' /\ Unused') \/ AllExited'
      BY <1>0, <3>1, <3>3 DEF Unused, AllExited
    <3>5. pooled => "contexts" \notin gone'
      BY <3>1, <3>2
    <3>. QED  BY <1>0, <3>1, <3>2, <3>4, <3>5 DEF GoneInv, Over
  <2>4. WorkerInv' /\ NothingDangles'
    BY <1>0, <1>6 DEF LeaveBlock, TypeOK, ThreadInv, GoneInv, WorkerInv, NothingDangles, Over, Unused, AllExited, mainVars, threadVars
  <2>. QED  BY <1>0, <2>1, <2>2, <2>3, <2>4
<1>. QED  BY <1>1, <1>2, <1>3, <1>4, <1>5, <1>6

\* The destruction of the singletons.
LEMMA StaticSteps ==
  ASSUME IInv, [Next]_vars,
         StopLogic \/ DestroyLogic \/ DestroyPool
  PROVE  IInv'
<1> USE DEF IInv, Uses
<1>0. /\ NContexts \in Nat \ {0} /\ Contexts = 1 .. NContexts
      /\ 1 \in Contexts /\ (~pooled => NContexts = 1 /\ Contexts = {1})
      /\ pooled' = pooled /\ Contexts' = Contexts
  BY ContextsStay, ContextsType
<1>1. CASE StopLogic
  <2>1. TypeOK'
    BY <1>0, <1>1, StaticsOrder DEF StopLogic, TypeOK, mainVars, threadVars
  <2>2. ThreadInv'
    BY <1>0, <1>1, StaticsOrder DEF StopLogic, TypeOK, ThreadInv, GoneInv, Over, Unused, AllExited, mainVars, threadVars
  <2>3. GoneInv'
    BY <1>0, <1>1, StaticsOrder DEF StopLogic, TypeOK, ThreadInv, GoneInv, Over, Unused, AllExited, mainVars, threadVars
  <2>4. WorkerInv' /\ NothingDangles'
    BY <1>0, <1>1, StaticsOrder DEF StopLogic, TypeOK, ThreadInv, GoneInv, WorkerInv, NothingDangles, Over, Unused, AllExited, mainVars, threadVars
  <2>. QED  BY <1>0, <2>1, <2>2, <2>3, <2>4
<1>2. CASE DestroyLogic
  <2>1. TypeOK'
    <3>1. /\ main = "statics" /\ gone' = gone \cup {"logic"}
          /\ UNCHANGED <<stopped, thread, ops, queue, posted, logic, dangling, pooled>>
      BY <1>2, StaticsOrder DEF DestroyLogic, threadVars
    <3>2. at' \in Nat
      BY <1>2 DEF DestroyLogic, Step, TypeOK
    <3>3. main' \in {"statics", "exited"}
      BY <1>2, <3>1 DEF DestroyLogic, Step
    <3>4. gone' \subseteq {"server", "contexts", "logic"} /\ dangling' \subseteq gone'
      BY <3>1 DEF TypeOK
    <3>. QED  BY <1>0, <3>1, <3>2, <3>3, <3>4 DEF TypeOK
  <2>2. ThreadInv'
    <3>1. main = "statics" /\ UNCHANGED <<stopped, thread, ops, queue, logic>>
      BY <1>2, StaticsOrder DEF DestroyLogic, threadVars
    <3>2. main' \in {"statics", "exited"}
      BY <1>2, <3>1 DEF DestroyLogic, Step
    <3>3. (pooled' /\ Unused') \/ AllExited'
      BY <1>0, <3>1 DEF ThreadInv, Unused, AllExited
    <3>. QED  BY <1>0, <3>1, <3>2, <3>3 DEF ThreadInv
  <2>3. GoneInv'
    <3>1. /\ main = "statics" /\ at = 1 /\ Len(Statics) = IF pooled THEN 2 ELSE 1
          /\ gone' = gone \cup {"logic"} /\ UNCHANGED <<stopped, thread, ops, queue, logic>>
          /\ logic \in {"unused", "exited"}
      BY <1>2, StaticsOrder DEF DestroyLogic, threadVars
    <3>2. Step(Len(Statics), "exited")
      BY <1>2 DEF DestroyLogic
    <3>3. IF pooled THEN main' = "statics" /\ at' = 2 ELSE main' = "exited" /\ at' = 1
      BY <3>1, <3>2 DEF Step
    <3>4. (pooled /\ Unused) \/ AllExited
      BY <3>1 DEF ThreadInv
    <3>5. (pooled' /\ Unused') \/ AllExited'
      BY <1>0, <3>1, <3>4 DEF Unused, AllExited
    <3>. QED  BY <1>0, <3>1, <3>3, <3>5 DEF GoneInv, Over
  <2>4. WorkerInv' /\ NothingDangles'
    <3>1. /\ main = "statics" /\ logic \in {"unused", "exited"}
          /\ gone' = gone \cup {"logic"} /\ UNCHANGED <<queue, logic, dangling>>
      BY <1>2, StaticsOrder DEF DestroyLogic, threadVars
    <3>2. main' \in Over
      BY <1>2, <3>1 DEF DestroyLogic, Step, Over
    <3>. QED  BY <1>0, <3>1, <3>2 DEF WorkerInv, NothingDangles
  <2>. QED  BY <1>0, <2>1, <2>2, <2>3, <2>4
<1>3. CASE DestroyPool
  <2>0. /\ main = "statics" /\ at = 2 /\ UNCHANGED <<stopped, threadVars, logic, dangling>>
        /\ \/ /\ \A c \in Contexts : thread[c] = "exited"
              /\ gone' = gone \cup {"contexts"} /\ at' = 1 /\ main' = "exited"
           \/ /\ ~ \A c \in Contexts : thread[c] = "exited"
              /\ main' = "terminated" /\ UNCHANGED <<at, gone>>
    <3>1. main = "statics" /\ at = 2 /\ Len(Statics) = 2
      BY <1>3, StaticsOrder DEF DestroyPool
    <3>2. UNCHANGED <<stopped, threadVars, logic, dangling>>
      BY <1>3 DEF DestroyPool
    <3>3. CASE \A c \in Contexts : thread[c] = "exited"
      BY <1>3, <3>1, <3>2, <3>3 DEF DestroyPool, Step
    <3>4. CASE ~ \A c \in Contexts : thread[c] = "exited"
      BY <1>3, <3>1, <3>2, <3>4 DEF DestroyPool
    <3>. QED  BY <3>3, <3>4
  <2>1. TypeOK'
    <3>1. /\ main' \in {"exited", "terminated"} /\ at' \in Nat
          /\ gone' \subseteq {"server", "contexts", "logic"} /\ gone \subseteq gone'
      <4>1. gone \subseteq {"server", "contexts", "logic"}
        BY DEF TypeOK
      <4>2. CASE gone' = gone \cup {"contexts"} /\ at' = 1 /\ main' = "exited"
        BY <4>1, <4>2
      <4>3. CASE main' = "terminated" /\ at' = at /\ gone' = gone
        BY <2>0, <4>1, <4>3
      <4>. QED  BY <2>0, <4>2, <4>3
    <3>2. stopped' = stopped /\ thread' = thread /\ ops' = ops /\ queue' = queue
          /\ posted' = posted /\ logic' = logic /\ dangling' = dangling
      BY <2>0 DEF threadVars
    <3>3. stopped' \in [Contexts -> BOOLEAN]
      BY <3>2 DEF TypeOK
    <3>4. dangling' \subseteq gone'
      BY <3>1, <3>2 DEF TypeOK
    <3> HIDE DEF IInv
    <3>5. TypeOK
      BY DEF IInv
    <3>. QED  BY <1>0, <3>1, <3>2, <3>3, <3>4, <3>5 DEF TypeOK
  <2>2. ThreadInv'
    BY <1>0, <2>0 DEF ThreadInv, Over, Unused, AllExited, threadVars
  <2>3. GoneInv'
    <3>1. CASE \A c \in Contexts : thread[c] = "exited"
      <4>1. AllExited
        BY <3>1 DEF ThreadInv, AllExited
      <4>. QED  BY <1>0, <2>0, <3>1, <4>1 DEF GoneInv, Over, AllExited, threadVars
    <3>2. CASE ~ \A c \in Contexts : thread[c] = "exited"
      <4>1. Unused
        BY <2>0, <3>2 DEF ThreadInv, Over, AllExited
      <4>2. pooled /\ main' = "terminated" /\ UNCHANGED <<at, gone>> /\ Unused'
        BY <1>0, <1>3, <2>0, <3>2, <4>1, StaticsOrder DEF DestroyPool, Unused, threadVars
      <4>3. "contexts" \notin gone
        BY <2>0, <4>2 DEF GoneInv
      <4>. QED  BY <1>0, <2>0, <4>2, <4>3 DEF GoneInv, Over
    <3>. QED  BY <3>1, <3>2
  <2>4. WorkerInv' /\ NothingDangles'
    BY <2>0 DEF WorkerInv, GoneInv, NothingDangles, Over, threadVars
  <2>. QED  BY <1>0, <2>1, <2>2, <2>3, <2>4
<1>. QED  BY <1>1, <1>2, <1>3

\* The threads of the io_contexts.
LEMMA ThreadSteps ==
  ASSUME IInv, [Next]_vars, ~Ended, NEW c \in Contexts,
         Accept(c) \/ Dispatch(c) \/ HandlePost(c) \/ HandlePartial(c) \/ HandleError(c)
         \/ HandleThrows(c) \/ HandleWritten(c) \/ ThreadExit(c)
  PROVE  IInv'
<1> USE DEF IInv, Uses, Ended
<1>0. /\ NContexts \in Nat \ {0} /\ Contexts = 1 .. NContexts
      /\ 1 \in Contexts /\ (~pooled => NContexts = 1 /\ Contexts = {1})
      /\ pooled' = pooled /\ Contexts' = Contexts
  BY ContextsStay, ContextsType
<1>1. CASE Accept(c)
  <2>1. TypeOK'
    BY <1>0, <1>1 DEF Accept, TypeOK, mainVars, threadVars
  <2>2. ThreadInv'
    BY <1>0, <1>1 DEF Accept, TypeOK, ThreadInv, GoneInv, Over, Unused, AllExited, mainVars, threadVars
  <2>3. GoneInv'
    <3>1. "server" \in gone => pooled /\ Unused /\ main \in Over
      <4>1. ~AllExited \/ pooled
        BY <1>0, <1>1 DEF Accept, AllExited
      <4>. QED  BY <1>1, <4>1 DEF Accept, GoneInv, Over
    <3>2. "server" \notin gone
      BY <1>0, <1>1, <3>1 DEF Accept, GoneInv, Over
    <3>3. UNCHANGED <<main, at, stopped, thread, gone>>
      BY <1>1 DEF Accept, mainVars
    <3>. QED  BY <1>0, <3>2, <3>3 DEF GoneInv, Over, AllExited
  <2>4. WorkerInv' /\ NothingDangles'
    BY <1>0, <1>1 DEF Accept, TypeOK, ThreadInv, GoneInv, WorkerInv, NothingDangles, Over, Unused, AllExited, mainVars, threadVars
  <2>. QED  BY <1>0, <2>1, <2>2, <2>3, <2>4
<1>2. CASE Dispatch(c)
  <2>1. TypeOK'
    BY <1>0, <1>2 DEF Dispatch, TypeOK, mainVars, threadVars
  <2>2. ThreadInv'
    BY <1>0, <1>2 DEF Dispatch, TypeOK, ThreadInv, GoneInv, Over, Unused, AllExited, mainVars, threadVars
  <2>3. GoneInv'
    BY <1>0, <1>2 DEF Dispatch, TypeOK, ThreadInv, GoneInv, Over, Unused, AllExited, mainVars, threadVars
  <2>4. WorkerInv' /\ NothingDangles'
    BY <1>0, <1>2 DEF Dispatch, TypeOK, ThreadInv, GoneInv, WorkerInv, NothingDangles, Over, Unused, AllExited, mainVars, threadVars
  <2>. QED  BY <1>0, <2>1, <2>2, <2>3, <2>4
<1>3. CASE HandlePost(c)
  <2>1. TypeOK'
    <3>1. queue' \in Seq(Contexts)
      BY <1>3, AppendProperties DEF HandlePost, TypeOK
    <3>2. posted' \in 0 .. MaxMsgs /\ ops' \in [Contexts -> Nat]
      BY <1>3, ShutdownAssumption DEF HandlePost, TypeOK
    <3>. QED  BY <1>0, <1>3, <3>1, <3>2 DEF HandlePost, Returns, TypeOK, mainVars
  <2>2. ThreadInv'
    BY <1>0, <1>3 DEF HandlePost, Returns, TypeOK, ThreadInv, GoneInv, Over, Unused, AllExited, mainVars, threadVars
  <2>3. GoneInv'
    BY <1>0, <1>3 DEF HandlePost, Returns, TypeOK, ThreadInv, GoneInv, Over, Unused, AllExited, mainVars, threadVars
  <2>4. WorkerInv' /\ NothingDangles'
    BY <1>0, <1>3 DEF HandlePost, Returns, TypeOK, ThreadInv, GoneInv, WorkerInv, NothingDangles, Over, Unused, AllExited, mainVars, threadVars
  <2>. QED  BY <1>0, <2>1, <2>2, <2>3, <2>4
<1>4. CASE HandlePartial(c)
  <2>1. TypeOK'
    BY <1>0, <1>4 DEF HandlePartial, Returns, TypeOK, mainVars, threadVars
  <2>2. ThreadInv'
    BY <1>0, <1>4 DEF HandlePartial, Returns, TypeOK, ThreadInv, GoneInv, Over, Unused, AllExited, mainVars, threadVars
  <2>3. GoneInv'
    BY <1>0, <1>4 DEF HandlePartial, Returns, TypeOK, ThreadInv, GoneInv, Over, Unused, AllExited, mainVars, threadVars
  <2>4. WorkerInv' /\ NothingDangles'
    BY <1>0, <1>4 DEF HandlePartial, Returns, TypeOK, ThreadInv, GoneInv, WorkerInv, NothingDangles, Over, Unused, AllExited, mainVars, threadVars
  <2>. QED  BY <1>0, <2>1, <2>2, <2>3, <2>4
<1>5. CASE HandleError(c)
  <2>1. TypeOK'
    BY <1>0, <1>5 DEF HandleError, Returns, TypeOK, mainVars, threadVars
  <2>2. ThreadInv'
    BY <1>0, <1>5 DEF HandleError, Returns, TypeOK, ThreadInv, GoneInv, Over, Unused, AllExited, mainVars, threadVars
  <2>3. GoneInv'
    BY <1>0, <1>5 DEF HandleError, Returns, TypeOK, ThreadInv, GoneInv, Over, Unused, AllExited, mainVars, threadVars
  <2>4. WorkerInv' /\ NothingDangles'
    BY <1>0, <1>5 DEF HandleError, Returns, TypeOK, ThreadInv, GoneInv, WorkerInv, NothingDangles, Over, Unused, AllExited, mainVars, threadVars
  <2>. QED  BY <1>0, <2>1, <2>2, <2>3, <2>4
<1>6. CASE HandleWritten(c)
  <2>1. TypeOK'
    BY <1>0, <1>6 DEF HandleWritten, Returns, TypeOK, mainVars, threadVars
  <2>2. ThreadInv'
    BY <1>0, <1>6 DEF HandleWritten, Returns, TypeOK, ThreadInv, GoneInv, Over, Unused, AllExited, mainVars, threadVars
  <2>3. GoneInv'
    BY <1>0, <1>6 DEF HandleWritten, Returns, TypeOK, ThreadInv, GoneInv, Over, Unused, AllExited, mainVars, threadVars
  <2>4. WorkerInv' /\ NothingDangles'
    BY <1>0, <1>6 DEF HandleWritten, Returns, TypeOK, ThreadInv, GoneInv, WorkerInv, NothingDangles, Over, Unused, AllExited, mainVars, threadVars
  <2>. QED  BY <1>0, <2>1, <2>2, <2>3, <2>4
<1>7. CASE ThreadExit(c)
  <2>1. TypeOK'
    BY <1>0, <1>7 DEF ThreadExit, TypeOK, mainVars, threadVars
  <2>2. ThreadInv'
    BY <1>0, <1>7 DEF ThreadExit, TypeOK, ThreadInv, GoneInv, Over, Unused, AllExited, mainVars, threadVars
  <2>3. GoneInv'
    BY <1>0, <1>7 DEF ThreadExit, TypeOK, ThreadInv, GoneInv, Over, Unused, AllExited, mainVars, threadVars
  <2>4. WorkerInv' /\ NothingDangles'
    BY <1>0, <1>7 DEF ThreadExit, TypeOK, ThreadInv, GoneInv, WorkerInv, NothingDangles, Over, Unused, AllExited, mainVars, threadVars
  <2>. QED  BY <1>0, <2>1, <2>2, <2>3, <2>4
<1>8. CASE HandleThrows(c)
  <2>1. CASE pooled
    <3>1. HandleWritten(c)
      BY <1>8, <2>1 DEF HandleThrows, HandleWritten
    <3>. QED  BY <1>6, <3>1
  <2>2. CASE ~pooled
    BY <1>0, <1>8, <2>2, UncaughtHolds DEF HandleThrows
  <2>. QED  BY <2>1, <2>2
<1>. QED  BY <1>1, <1>2, <1>3, <1>4, <1>5, <1>6, <1>7, <1>8

\* The worker.
LEMMA WorkerSteps ==
  ASSUME IInv, [Next]_vars,
         Worker
  PROVE  IInv'
<1> USE DEF IInv, Uses
<1>0. /\ NContexts \in Nat \ {0} /\ Contexts = 1 .. NContexts
      /\ 1 \in Contexts /\ (~pooled => NContexts = 1 /\ Contexts = {1})
      /\ pooled' = pooled /\ Contexts' = Contexts
  BY ContextsStay, ContextsType
<1>1. CASE WorkerCall
  <2>1. TypeOK'
    <3>1. queue \in Seq(Contexts) /\ queue # <<>>
      BY <1>1 DEF WorkerCall, TypeOK
    <3>2. Head(queue) \in Contexts /\ Tail(queue) \in Seq(Contexts)
      BY <3>1, HeadTailProperties
    <3>3. ops' \in [Contexts -> Nat]
      BY <1>1, <3>2 DEF WorkerCall, TypeOK
    <3>4. /\ queue' = Tail(queue)
          /\ dangling' = dangling \cup ({"contexts"} \cap gone)
          /\ UNCHANGED <<main, at, stopped, thread, posted, logic, gone>>
      BY <1>1 DEF WorkerCall, mainVars
    <3>. QED  BY <1>0, <3>2, <3>3, <3>4 DEF TypeOK
  <2>2. ThreadInv'
    BY <1>0, <1>1 DEF WorkerCall, TypeOK, ThreadInv, GoneInv, Over, Unused, AllExited, mainVars, threadVars
  <2>3. GoneInv'
    BY <1>0, <1>1 DEF WorkerCall, TypeOK, ThreadInv, GoneInv, Over, Unused, AllExited, mainVars, threadVars
  <2>4. WorkerInv' /\ NothingDangles'
    BY <1>0, <1>1 DEF WorkerCall, TypeOK, ThreadInv, GoneInv, WorkerInv, NothingDangles, Over, Unused, AllExited, mainVars, threadVars
  <2>. QED  BY <1>0, <2>1, <2>2, <2>3, <2>4
<1>2. CASE WorkerExit
  <2>1. TypeOK'
    BY <1>0, <1>2 DEF WorkerExit, TypeOK, mainVars, threadVars
  <2>2. ThreadInv'
    BY <1>0, <1>2 DEF WorkerExit, TypeOK, ThreadInv, GoneInv, Over, Unused, AllExited, mainVars, threadVars
  <2>3. GoneInv'
    BY <1>0, <1>2 DEF WorkerExit, TypeOK, ThreadInv, GoneInv, Over, Unused, AllExited, mainVars, threadVars
  <2>4. WorkerInv' /\ NothingDangles'
    BY <1>0, <1>2 DEF WorkerExit, TypeOK, ThreadInv, GoneInv, WorkerInv, NothingDangles, Over, Unused, AllExited, mainVars, threadVars
  <2>. QED  BY <1>0, <2>1, <2>2, <2>3, <2>4
<1>3. CASE WorkerThrows
  <2>1. /\ logic \in {"running", "stopping"} /\ logic' = "threw"
        /\ main' = "terminated"
        /\ UNCHANGED <<at, stopped, thread, ops, queue, posted, gone, dangling>>
    BY <1>3 DEF WorkerThrows, threadVars
  <2>2. TypeOK'
    BY <1>0, <2>1 DEF TypeOK
  <2>3. ThreadInv'
    BY <1>0, <2>1 DEF ThreadInv
  <2>4. GoneInv'
    <3>1. "contexts" \in gone => ~pooled
      BY <2>1 DEF GoneInv, WorkerInv
    <3>2. "server" \in gone => AllExited /\ AllExited'
      BY <1>0, <2>1 DEF GoneInv, Unused, AllExited
    <3>. QED  BY <1>0, <2>1, <3>1, <3>2 DEF GoneInv, Over
  <2>5. WorkerInv' /\ NothingDangles'
    BY <1>0, <2>1 DEF WorkerInv, NothingDangles
  <2>. QED  BY <1>0, <2>2, <2>3, <2>4, <2>5
<1>. QED  BY <1>1, <1>2, <1>3 DEF Worker

\* Every step keeps the invariant.
LEMMA StepHolds == IInv /\ [Next]_vars => IInv'
<1> SUFFICES ASSUME IInv, [Next]_vars PROVE IInv'
  OBVIOUS
<1>1. CASE ~Ended /\ (Main \/ ConstructThrows \/ Signal \/ Worker)
  BY <1>1, MainSteps, StaticSteps, WorkerSteps DEF Main
<1>2. CASE ~Ended /\ \E c \in Contexts : Accept(c) \/ Thread(c)
  BY <1>2, ThreadSteps DEF Thread
<1>3. CASE UNCHANGED vars
  BY <1>3, ContextsStay DEF vars, IInv, TypeOK, ThreadInv, GoneInv, WorkerInv, NothingDangles, Over,
      Unused, AllExited
<1>. QED  BY <1>1, <1>2, <1>3 DEF Next

-----------------------------------------------------------------------------
\* Type correctness of the pooled program's end.
THEOREM TypeCorrect == Spec => []TypeOK
<1>1. IInv => TypeOK
  BY DEF IInv
<1>. QED  BY <1>1, InitHolds, StepHolds, PTL DEF Spec

\* Wherever the threads and the worker are when the signal comes, no CServer, no
\* io_context and no LogicSystem is used after its destruction.
THEOREM NothingDanglesCorrect == Spec => []NothingDangles
<1>1. IInv => NothingDangles
  BY DEF IInv
<1>. QED  BY <1>1, InitHolds, StepHolds, PTL DEF Spec

\* std::terminate ends either program only for an exception that nothing
\* catches, or for a pool whose server could not be constructed.
THEOREM TerminatedForCauseCorrect == Spec => []TerminatedForCause
<1>1. IInv => TerminatedForCause
  BY DEF IInv, ThreadInv, Unused, TerminatedForCause
<1>. QED  BY <1>1, InitHolds, StepHolds, PTL DEF Spec

\* At the end every thread has been joined and every message has been handled.
THEOREM AllJoinedCorrect == Spec => []AllJoined
<1>1. IInv => AllJoined
  BY DEF IInv, GoneInv, WorkerInv, AllExited, AllJoined
<1>. QED  BY <1>1, InitHolds, StepHolds, PTL DEF Spec

-----------------------------------------------------------------------------
(* Version 3: main waits for the signal. *)
\* A handler: the signal it is for and how far it has come.
Frame == [signal : Signals, at : {"lock", "locked", "notified"}]

\* In f, the handler at depth i of thread t is at the given point.
At(f, t, i, where) == i \in DOMAIN f[t] /\ f[t][i].at = where

Holds(f, t, i) == At(f, t, i, "locked") \/ At(f, t, i, "notified")

\* The mutex belongs to main between its lock and its unlock, or to the one
\* handler that has locked it and not returned.
OwnerInv ==
  /\ pc \in {"locked", "woken"} => mutex = "main"
  /\ \A t \in Threads, i \in Nat : Holds(frames, t, i) => mutex = t
  /\ \A t \in Threads, i \in Nat : Holds(frames, t, i) => pc \notin {"locked", "woken"}
  /\ \A t \in Threads, i, j \in Nat : Holds(frames, t, i) /\ Holds(frames, t, j) => i = j

\* Between main's test and its wait only a handler that has not notified yet
\* hides behind the test.
SleepInv ==
  /\ pc \in {"lock", "locked"} /\ is_server_terminated /\ ~missed =>
       \E t \in Threads, i \in Nat : At(frames, t, i, "locked")
  /\ pc = "wait" /\ is_server_terminated /\ ~missed =>
       notified \/ \E t \in Threads, i \in Nat : At(frames, t, i, "locked")

WaitInv == WaitTypeOK /\ OwnerInv /\ SleepInv

-----------------------------------------------------------------------------
\* The frames of a thread.
LEMMA FramesType == ASSUME WaitTypeOK, NEW t \in Threads
                PROVE  frames \in [Threads -> Seq(Frame)] /\ frames[t] \in Seq(Frame)
BY DEF WaitTypeOK, Frame

\* A handler that begins does not hold the mutex.
LEMMA Push ==
  ASSUME WaitTypeOK, NEW t \in Threads, NEW s \in Signals, NEW sched,
         sched = [frames EXCEPT ![t] = Append(@, [signal |-> s, at |-> "lock"])]
  PROVE  /\ sched \in [Threads -> Seq(Frame)]
         /\ \A u \in Threads, i \in Nat, p \in {"locked", "notified"} :
              At(sched, u, i, p) <=> At(frames, u, i, p)
<1> DEFINE new == [signal |-> s, at |-> "lock"]
           n == Len(frames[t])
           q == Append(frames[t], new)
<1>1. frames \in [Threads -> Seq(Frame)] /\ frames[t] \in Seq(Frame) /\ new \in Frame
  BY FramesType DEF Frame
<1>2. q \in Seq(Frame) /\ Len(q) = n + 1 /\ n \in Nat /\ q[n + 1] = new
  BY <1>1, AppendProperties, LenProperties
<1>3. \A i \in 1 .. n : q[i] = frames[t][i]
  BY <1>1, AppendProperties
<1>4. DOMAIN q = 1 .. n + 1 /\ DOMAIN frames[t] = 1 .. n
  BY <1>1, <1>2, LenProperties
<1>5. sched = [frames EXCEPT ![t] = q]
  OBVIOUS
<1>6. new.at = "lock"
  OBVIOUS
<1> HIDE DEF new, n, q
<1>7. \A u \in Threads : sched[u] = IF u = t THEN q ELSE frames[u]
  BY <1>1, <1>5
<1>8. ASSUME NEW u \in Threads, NEW i \in Nat, NEW p \in {"locked", "notified"}
      PROVE  At(sched, u, i, p) <=> At(frames, u, i, p)
  <2>1. CASE u # t
    BY <1>7, <2>1 DEF At
  <2>2. CASE u = t /\ i \in 1 .. n
    BY <1>3, <1>4, <1>7, <1>2, <2>2 DEF At
  <2>3. CASE u = t /\ i \notin 1 .. n
    BY <1>2, <1>4, <1>6, <1>7, <2>3 DEF At
  <2>. QED  BY <2>1, <2>2, <2>3
<1>9. sched \in [Threads -> Seq(Frame)]
  BY <1>1, <1>2, <1>5
<1>. QED  BY <1>8, <1>9

\* In f the running handler of t has gone on, or has returned, and all others
\* stay where they are.
Moved(f, t, to) ==
  /\ f \in [Threads -> Seq(Frame)]
  /\ Len(frames[t]) \in Nat
  /\ \A u \in Threads, i \in Nat, p \in {"lock", "locked", "notified"} :
       At(f, u, i, p) <=> IF u = t /\ i = Len(frames[t]) THEN p = to ELSE At(frames, u, i, p)

Popped(f, t) ==
  /\ f \in [Threads -> Seq(Frame)]
  /\ Len(frames[t]) \in Nat
  /\ \A u \in Threads, i \in Nat, p \in {"lock", "locked", "notified"} :
       At(f, u, i, p) <=> At(frames, u, i, p) /\ ~(u = t /\ i = Len(frames[t]))

\* A handler that goes on changes nothing but where it is.
LEMMA Move ==
  ASSUME WaitTypeOK, NEW t \in Threads, frames[t] # <<>>,
         NEW to \in {"lock", "locked", "notified"}, NEW sched,
         sched = [frames EXCEPT ![t][Len(frames[t])].at = to]
  PROVE  Moved(sched, t, to)
<1> DEFINE n == Len(frames[t])
           q == [frames[t] EXCEPT ![n].at = to]
<1>1. frames \in [Threads -> Seq(Frame)] /\ frames[t] \in Seq(Frame)
  BY FramesType
<1>2. n \in Nat \ {0} /\ DOMAIN frames[t] = 1 .. n
  BY <1>1, EmptySeq, LenProperties
<1>3. frames[t] \in [1 .. n -> Frame]
  BY <1>1, LenProperties
<1>4. sched = [frames EXCEPT ![t] = q]
  OBVIOUS
<1> DEFINE old == frames[t][n]
           new == [old EXCEPT !.at = to]
<1>5. old \in Frame
  <2> HIDE DEF n, old
  <2>1. n \in 1 .. n
    BY <1>2
  <2>. QED  BY <2>1, <1>3 DEF old
<1>6. new \in Frame /\ new.at = to
  <2> HIDE DEF old
  <2>. QED  BY <1>5 DEF Frame
<1>7. q = [frames[t] EXCEPT ![n] = new]
  OBVIOUS
<1> HIDE DEF n, q, old, new
<1>8. q \in [1 .. n -> Frame] /\ \A i \in 1 .. n : q[i] = IF i = n THEN new ELSE frames[t][i]
  BY <1>2, <1>3, <1>6, <1>7
<1>9. q \in Seq(Frame) /\ DOMAIN q = 1 .. n
  BY <1>2, <1>8, SeqDef
<1>10. \A u \in Threads : sched[u] = IF u = t THEN q ELSE frames[u]
  BY <1>1, <1>4
<1>11. ASSUME NEW u \in Threads, NEW i \in Nat, NEW p \in {"lock", "locked", "notified"}
       PROVE  At(sched, u, i, p) <=> IF u = t /\ i = n THEN p = to ELSE At(frames, u, i, p)
  <2>1. CASE u # t
    BY <1>10, <2>1 DEF At
  <2>2. CASE u = t /\ i = n
    BY <1>2, <1>6, <1>8, <1>9, <1>10, <2>2 DEF At
  <2>3. CASE u = t /\ i # n
    BY <1>2, <1>8, <1>9, <1>10, <2>3 DEF At
  <2>. QED  BY <2>1, <2>2, <2>3
<1>12. sched \in [Threads -> Seq(Frame)]
  BY <1>1, <1>4, <1>9
<1>. QED  BY <1>2, <1>11, <1>12 DEF n, Moved

\* A handler that returns is gone, and all others stay where they are.
LEMMA Pop ==
  ASSUME WaitTypeOK, NEW t \in Threads, frames[t] # <<>>, NEW sched,
         sched = [frames EXCEPT ![t] = SubSeq(@, 1, Len(@) - 1)]
  PROVE  Popped(sched, t)
<1> DEFINE n == Len(frames[t])
           q == SubSeq(frames[t], 1, n - 1)
<1>1. frames \in [Threads -> Seq(Frame)] /\ frames[t] \in Seq(Frame)
  BY FramesType
<1>2. n \in Nat \ {0} /\ DOMAIN frames[t] = 1 .. n
  BY <1>1, EmptySeq, LenProperties
<1>3. n - 1 \in Int /\ n - 1 < n
  <2> HIDE DEF n
  <2>. QED  BY <1>2
<1>4. sched = [frames EXCEPT ![t] = q]
  OBVIOUS
<1>5. q \in Seq(Frame) /\ Len(q) = n - 1 /\ \A i \in 1 .. n - 1 : q[i] = frames[t][i]
  <2>1. \A i \in 1 .. n - 1 : i \in 1 .. n
    <3> HIDE DEF n
    <3>. QED  BY <1>2
  <2>2. \A i \in 1 .. n - 1 : frames[t][i] \in Frame
    BY <1>1, <2>1, ElementOfSeq
  <2>. QED  BY <1>1, <1>2, <2>2
<1> HIDE DEF n, q
<1>6. DOMAIN q = 1 .. n - 1
  BY <1>5, LenProperties
<1>7. \A u \in Threads : sched[u] = IF u = t THEN q ELSE frames[u]
  BY <1>1, <1>4
<1>8. ASSUME NEW u \in Threads, NEW i \in Nat, NEW p \in {"lock", "locked", "notified"}
      PROVE  At(sched, u, i, p) <=> At(frames, u, i, p) /\ ~(u = t /\ i = n)
  <2>1. CASE u # t
    BY <1>7, <2>1 DEF At
  <2>2. CASE u = t /\ i \in 1 .. n - 1
    BY <1>2, <1>5, <1>6, <1>7, <2>2 DEF At
  <2>3. CASE u = t /\ i \notin 1 .. n - 1
    BY <1>2, <1>6, <1>7, <2>3 DEF At
  <2>. QED  BY <2>1, <2>2, <2>3
<1>9. sched \in [Threads -> Seq(Frame)]
  BY <1>1, <1>4, <1>5
<1>. QED  BY <1>2, <1>8, <1>9 DEF n, Popped

-----------------------------------------------------------------------------
\* The invariant holds at first.
LEMMA WaitInitHolds == WaitInit => WaitInv
<1> SUFFICES ASSUME WaitInit PROVE WaitInv
  OBVIOUS
<1>1. WaitTypeOK
  <2>1. <<>> \in Seq(Frame)
    BY EmptySeq
  <2>2. frames \in [Threads -> Seq(Frame)]
    BY <2>1 DEF WaitInit
  <2>3. 0 \in 0 .. MaxSignals
    BY SignalAssumption
  <2>. QED  BY <2>2, <2>3 DEF WaitInit, WaitTypeOK, Threads, Frame
<1>2. \A t \in Threads, i \in Nat : i \notin DOMAIN frames[t]
  BY DEF WaitInit
<1>3. OwnerInv /\ SleepInv
  BY <1>2 DEF WaitInit, OwnerInv, SleepInv, Holds, At
<1>. QED  BY <1>1, <1>3 DEF WaitInv

\* No handler holds the mutex when main locks it or has it, so that a signal main
\* has not seen has been notified before the wait.
LEMMA MainThreadHolds == WaitInv /\ (MainThread \/ WakeUp) => WaitInv'
<1> SUFFICES ASSUME WaitInv, MainThread \/ WakeUp PROVE WaitInv'
  OBVIOUS
<1>0. WaitTypeOK /\ OwnerInv /\ SleepInv /\ frames' = frames
  BY DEF WaitInv, MainThread, Test, Lock, Wait, WakeUp, Unlock, MainRuns
<1>1. WaitTypeOK'
  BY <1>0 DEF WaitTypeOK, MainThread, Test, Lock, Wait, WakeUp, Unlock, MainRuns, Threads
<1>2. \A t \in Threads : t # "nobody"
  BY SignalAssumption DEF Threads
<1>3. OwnerInv' /\ SleepInv'
  <2>1. CASE Test
    BY <1>0, <2>1 DEF WaitTypeOK, Test, MainRuns, OwnerInv, SleepInv
  <2>2. CASE Lock
    <3>1. \A t \in Threads, i \in Nat : ~Holds(frames, t, i)
      BY <1>0, <1>2, <2>2 DEF Lock, OwnerInv
    <3>2. OwnerInv'
      BY <1>0, <2>2, <3>1 DEF Lock, MainRuns, OwnerInv
    <3>3. ~(is_server_terminated /\ ~missed)
      BY <1>0, <2>2, <3>1 DEF Lock, MainRuns, SleepInv, Holds
    <3>. QED  BY <3>2, <3>3, <2>2 DEF Lock, MainRuns, SleepInv
  <2>3. CASE Wait
    <3>1. \A t \in Threads, i \in Nat : ~Holds(frames, t, i)
      BY <1>0, <2>3 DEF Wait, MainRuns, OwnerInv
    <3>2. OwnerInv'
      BY <1>0, <2>3, <3>1 DEF Wait, MainRuns, OwnerInv
    <3>3. ~(is_server_terminated /\ ~missed)
      BY <1>0, <2>3, <3>1 DEF Wait, MainRuns, SleepInv, Holds
    <3>. QED  BY <3>2, <3>3, <2>3 DEF Wait, MainRuns, SleepInv
  <2>4. CASE WakeUp
    <3>1. \A t \in Threads, i \in Nat : ~Holds(frames, t, i)
      BY <1>0, <1>2, <2>4 DEF WakeUp, OwnerInv
    <3>. QED  BY <1>0, <2>4, <3>1 DEF WakeUp, MainRuns, OwnerInv, SleepInv
  <2>5. CASE Unlock
    <3>1. \A t \in Threads, i \in Nat : ~Holds(frames, t, i)
      BY <1>0, <2>5 DEF Unlock, MainRuns, OwnerInv
    <3>. QED  BY <1>0, <2>5, <3>1 DEF Unlock, MainRuns, OwnerInv, SleepInv
  <2>. QED  BY <2>1, <2>2, <2>3, <2>4, <2>5 DEF MainThread
<1>. QED  BY <1>1, <1>3 DEF WaitInv

\* Wherever the thread is, a handler on top of it does not get the mutex yet.
LEMMA DeliverHolds == ASSUME WaitInv, NEW t \in Threads, NEW s \in Signals, Deliver(t, s)
                      PROVE  WaitInv'
<1>0. WaitTypeOK /\ OwnerInv /\ SleepInv
  BY DEF WaitInv
<1>1. /\ frames' \in [Threads -> Seq(Frame)]
      /\ \A u \in Threads, i \in Nat, p \in {"locked", "notified"} :
           At(frames', u, i, p) <=> At(frames, u, i, p)
  BY <1>0, Push DEF Deliver
<1>2. WaitTypeOK'
  <2>1. sent' \in 0 .. MaxSignals
    BY <1>0, SignalAssumption DEF WaitTypeOK, Deliver
  <2>. QED  BY <1>0, <1>1, <2>1 DEF WaitTypeOK, Deliver, Frame
<1>3. \A u \in Threads, i \in Nat : Holds(frames', u, i) <=> Holds(frames, u, i)
  BY <1>1 DEF Holds
<1>4. OwnerInv'
  BY <1>0, <1>3 DEF Deliver, OwnerInv
<1>5. SleepInv'
  BY <1>0, <1>1 DEF Deliver, SleepInv
<1>. QED  BY <1>2, <1>4, <1>5 DEF WaitInv

\* The handler that locks is the only one to hold the mutex, and will notify.
LEMMA HandlerLockHolds == ASSUME WaitInv, NEW t \in Threads, HandlerLock(t) PROVE WaitInv'
<1> DEFINE n == Len(frames[t])
<1>0. WaitTypeOK /\ OwnerInv /\ SleepInv
  BY DEF WaitInv
<1>1. /\ frames' \in [Threads -> Seq(Frame)] /\ n \in Nat
      /\ \A u \in Threads, i \in Nat, p \in {"lock", "locked", "notified"} :
           At(frames', u, i, p) <=> IF u = t /\ i = n THEN p = "locked" ELSE At(frames, u, i, p)
  <2>1. frames[t] # <<>> /\ frames' = [frames EXCEPT ![t][Len(frames[t])].at = "locked"]
    BY DEF HandlerLock, HandlerRuns
  <2>2. Moved(frames', t, "locked")
    BY <1>0, <2>1, Move, Zenon
  <2>. QED  BY <2>2 DEF Moved
<1>2. /\ mutex = "nobody" /\ mutex' = t /\ is_server_terminated' = TRUE
      /\ UNCHANGED <<pc, sent, notified, missed>>
  BY DEF HandlerLock, HandlerRuns
<1> HIDE DEF n
<1>3. WaitTypeOK'
  BY <1>0, <1>1, <1>2 DEF WaitTypeOK, Frame
<1>4. \A u \in Threads, i \in Nat : ~Holds(frames, u, i)
  BY <1>0, <1>2, SignalAssumption DEF OwnerInv, Threads
<1>5. \A u \in Threads, i \in Nat : Holds(frames', u, i) <=> u = t /\ i = n
  BY <1>1, <1>4 DEF Holds
<1>6. pc \notin {"locked", "woken"}
  BY <1>0, <1>2 DEF OwnerInv
<1>7. OwnerInv'
  BY <1>2, <1>5, <1>6 DEF OwnerInv
<1>8. At(frames', t, n, "locked")
  BY <1>1
<1>9. SleepInv'
  BY <1>1, <1>8 DEF SleepInv
<1>. QED  BY <1>3, <1>7, <1>9 DEF WaitInv

\* main waits and is notified, or is about to and the notification is lost, or
\* has its test in front of it: it cannot hold the mutex.
LEMMA HandlerNotifyHolds == ASSUME WaitInv, NEW t \in Threads, HandlerNotify(t) PROVE WaitInv'
<1> DEFINE n == Len(frames[t])
<1>0. WaitTypeOK /\ OwnerInv /\ SleepInv
  BY DEF WaitInv
<1>1. /\ frames' \in [Threads -> Seq(Frame)] /\ n \in Nat
      /\ \A u \in Threads, i \in Nat, p \in {"lock", "locked", "notified"} :
           At(frames', u, i, p) <=> IF u = t /\ i = n THEN p = "notified" ELSE At(frames, u, i, p)
  <2>1. frames[t] # <<>> /\ frames' = [frames EXCEPT ![t][Len(frames[t])].at = "notified"]
    BY DEF HandlerNotify, HandlerRuns
  <2>2. Moved(frames', t, "notified")
    BY <1>0, <2>1, Move, Zenon
  <2>. QED  BY <2>2 DEF Moved
<1>2. /\ notified' = (pc = "wait") /\ missed' = (missed \/ pc = "lock")
      /\ UNCHANGED <<pc, sent, is_server_terminated, mutex>>
  BY DEF HandlerNotify, HandlerRuns
<1>3. At(frames, t, n, "locked")
  <2>1. frames[t] # <<>> /\ frames[t][n].at = "locked"
    BY DEF HandlerNotify, HandlerRuns, Top
  <2>2. frames[t] \in Seq(Frame)
    BY <1>0, FramesType
  <2>3. n \in DOMAIN frames[t]
    BY <2>1, <2>2, EmptySeq, LenProperties
  <2>. QED  BY <2>1, <2>3 DEF At
<1> HIDE DEF n
<1>4. WaitTypeOK'
  <2>1. notified' \in BOOLEAN /\ missed' \in BOOLEAN
    BY <1>0, <1>2 DEF WaitTypeOK
  <2>. QED  BY <1>0, <1>1, <1>2, <2>1 DEF WaitTypeOK, Frame
<1>5. \A u \in Threads, i \in Nat : Holds(frames', u, i) <=> Holds(frames, u, i)
  BY <1>1, <1>3 DEF Holds
<1>6. OwnerInv'
  BY <1>0, <1>2, <1>5 DEF OwnerInv
<1>7. pc # "locked"
  BY <1>0, <1>1, <1>3 DEF OwnerInv, Holds
<1>8. SleepInv'
  BY <1>2, <1>7 DEF SleepInv
<1>. QED  BY <1>4, <1>6, <1>8 DEF WaitInv

\* The handler that returns was the one to hold the mutex.
LEMMA HandlerReturnHolds == ASSUME WaitInv, NEW t \in Threads, HandlerReturn(t) PROVE WaitInv'
<1> DEFINE n == Len(frames[t])
<1>0. WaitTypeOK /\ OwnerInv /\ SleepInv
  BY DEF WaitInv
<1>1. /\ frames' \in [Threads -> Seq(Frame)] /\ n \in Nat
      /\ \A u \in Threads, i \in Nat, p \in {"lock", "locked", "notified"} :
           At(frames', u, i, p) <=> At(frames, u, i, p) /\ ~(u = t /\ i = n)
  <2>1. frames[t] # <<>> /\ frames' = [frames EXCEPT ![t] = SubSeq(@, 1, Len(@) - 1)]
    BY DEF HandlerReturn
  <2>2. Popped(frames', t)
    BY <1>0, <2>1, Pop, Zenon
  <2>. QED  BY <2>2 DEF Popped
<1>2. mutex' = "nobody" /\ UNCHANGED <<pc, is_server_terminated, notified, sent, missed>>
  BY DEF HandlerReturn
<1>3. At(frames, t, n, "notified")
  <2>1. frames[t] # <<>> /\ frames[t][n].at = "notified"
    BY DEF HandlerReturn, Top
  <2>2. frames[t] \in Seq(Frame)
    BY <1>0, FramesType
  <2>3. n \in DOMAIN frames[t]
    BY <2>1, <2>2, EmptySeq, LenProperties
  <2>. QED  BY <2>1, <2>3 DEF At
<1>4. ~At(frames, t, n, "locked")
  BY <1>3 DEF At
<1> HIDE DEF n
<1>5. WaitTypeOK'
  BY <1>0, <1>1, <1>2 DEF WaitTypeOK, Frame
<1>6. Holds(frames, t, n) /\ mutex = t /\ pc \notin {"locked", "woken"}
  BY <1>0, <1>1, <1>3 DEF Holds, OwnerInv
<1>7. \A u \in Threads, i \in Nat : ~Holds(frames', u, i)
  <2> SUFFICES ASSUME NEW u \in Threads, NEW i \in Nat, Holds(frames', u, i) PROVE FALSE
    OBVIOUS
  <2>1. Holds(frames, u, i) /\ ~(u = t /\ i = n)
    BY <1>1 DEF Holds
  <2>2. u = t
    BY <1>0, <1>6, <2>1 DEF OwnerInv
  <2>. QED  BY <1>0, <1>1, <1>6, <2>1, <2>2 DEF OwnerInv
<1>8. OwnerInv'
  BY <1>2, <1>6, <1>7 DEF OwnerInv
<1>9. \A u \in Threads, i \in Nat : At(frames, u, i, "locked") => At(frames', u, i, "locked")
  BY <1>1, <1>4
<1>10. SleepInv'
  BY <1>0, <1>2, <1>9 DEF SleepInv
<1>. QED  BY <1>5, <1>8, <1>10 DEF WaitInv

\* Every step keeps the invariant.
LEMMA WaitStepHolds == WaitInv /\ [WaitNext]_waitVars => WaitInv'
<1> SUFFICES ASSUME WaitInv, [WaitNext]_waitVars PROVE WaitInv'
  OBVIOUS
<1>1. CASE MainThread \/ WakeUp
  BY <1>1, MainThreadHolds
<1>2. CASE \E t \in Threads : Handler(t) \/ \E s \in Signals : Deliver(t, s)
  BY <1>2, DeliverHolds, HandlerLockHolds, HandlerNotifyHolds, HandlerReturnHolds DEF Handler
<1>3. CASE UNCHANGED waitVars
  BY <1>3 DEF waitVars, WaitInv, WaitTypeOK, OwnerInv, SleepInv
<1>. QED  BY <1>1, <1>2, <1>3 DEF WaitNext, Idle

-----------------------------------------------------------------------------
\* Type correctness of version 3's wait.
THEOREM WaitTypeCorrect == WaitSpec => []WaitTypeOK
<1>1. WaitInv => WaitTypeOK
  BY DEF WaitInv
<1>. QED  BY <1>1, WaitInitHolds, WaitStepHolds, PTL DEF WaitSpec

\* With handlers on any thread, on top of main and of each other, the mutex
\* belongs to main between its lock and its unlock or to one handler.
THEOREM OwnerCorrect == WaitSpec => []OwnerInv
<1>1. WaitInv => OwnerInv
  BY DEF WaitInv
<1>. QED  BY <1>1, WaitInitHolds, WaitStepHolds, PTL DEF WaitSpec

\* main sleeps through a signal only if the handler notified between the test of
\* is_server_terminated and the wait.
THEOREM NoLostSignalCorrect == WaitSpec => []NoLostSignal
<1>1. WaitInv => NoLostSignal
  BY DEF WaitInv, SleepInv, NoLostSignal, At
<1>. QED  BY <1>1, WaitInitHolds, WaitStepHolds, PTL DEF WaitSpec
=============================================================================
