----------------------------- MODULE SignalWait -----------------------------
(***************************************************************************)
(* Server-version-3: main waits for is_server_terminated on a condition    *)
(* variable, and signal_handler sets it and notifies.  The kernel runs the *)
(* handler on any thread of the process, main's too, on top of what that   *)
(* thread is doing; a signal is blocked on a thread only while its own     *)
(* handler runs there.                                                     *)
(*                                                                         *)
(* mutex_terminated is not recursive.  Locking it on the thread that holds *)
(* it is undefined; with the threads library of the build it blocks.       *)
(***************************************************************************)
EXTENDS Naturals, Sequences

CONSTANTS Others,     (* the threads that are not main's                     *)
          Signals,    (* SIGINT and SIGTERM                                  *)
          MaxSignals  (* bound on the signals sent to the process            *)

ASSUME SignalAssumption == /\ {"main", "nobody"} \cap Others = {}
                           /\ Signals # {}
                           /\ MaxSignals \in Nat

Threads == Others \cup {"main"}

VARIABLES
  pc,                    (* main: test, lock, locked, wait, woken, done      *)
  is_server_terminated,
  mutex,                 (* who holds mutex_terminated: nobody or a thread   *)
  notified,              (* main has been woken up in its wait               *)
  frames,                (* the handlers on each thread, the running one last*)
  sent,                  (* signals sent so far                              *)
  missed                 (* a notification came after the test, before the wait *)

waitVars == <<pc, is_server_terminated, mutex, notified, frames, sent, missed>>

WaitInit == /\ pc = "test"
            /\ is_server_terminated = FALSE
            /\ mutex = "nobody"
            /\ notified = FALSE
            /\ frames = [t \in Threads |-> <<>>]
            /\ sent = 0
            /\ missed = FALSE

-----------------------------------------------------------------------------
(* main runs when no handler is on top of it. *)
MainRuns(from, to) == /\ frames["main"] = <<>>
                      /\ pc = from
                      /\ pc' = to
                      /\ UNCHANGED <<is_server_terminated, frames, sent>>

Test == /\ MainRuns("test", IF is_server_terminated THEN "done" ELSE "lock")
        /\ UNCHANGED <<mutex, notified, missed>>

Lock == /\ MainRuns("lock", "locked")
        /\ mutex = "nobody"
        /\ mutex' = "main"
        /\ UNCHANGED <<notified, missed>>

\* wait releases the mutex and sleeps in one step.
Wait == /\ MainRuns("locked", "wait")
        /\ mutex' = "nobody"
        /\ notified' = FALSE
        /\ UNCHANGED missed

\* Notified or not (a spurious wakeup), wait takes the mutex again; the lock's
\* destructor releases it at the end of the loop's body.
WakeUp == /\ MainRuns("wait", "woken")
          /\ mutex = "nobody"
          /\ mutex' = "main"
          /\ notified' = FALSE
          /\ UNCHANGED missed

\* A mutant of Unlock that waits again without a test.
UnlockNoTest == /\ MainRuns("woken", "lock")
                /\ mutex' = "nobody"
                /\ UNCHANGED <<notified, missed>>

Unlock == /\ MainRuns("woken", "test")
          /\ mutex' = "nobody"
          /\ UNCHANGED <<notified, missed>>

-----------------------------------------------------------------------------
Running(t) == {frames[t][i].signal : i \in DOMAIN frames[t]}

\* The handler for s begins on thread t.
Deliver(t, s) ==
  /\ sent < MaxSignals
  /\ s \notin Running(t)
  /\ sent' = sent + 1
  /\ frames' = [frames EXCEPT ![t] = Append(@, [signal |-> s, at |-> "lock"])]
  /\ UNCHANGED <<pc, is_server_terminated, mutex, notified, missed>>

\* The handler that runs on t goes from one point to the next.
Top(t) == frames[t][Len(frames[t])]

HandlerRuns(t, from, to) ==
  /\ frames[t] # <<>> /\ Top(t).at = from
  /\ frames' = [frames EXCEPT ![t][Len(frames[t])].at = to]
  /\ UNCHANGED <<pc, sent>>

\* A mutant of HandlerLock that takes the signal for the thread.
HandlerLockSignal(t) ==
  /\ HandlerRuns(t, "lock", "locked")
  /\ mutex = "nobody"
  /\ mutex' = Top(t).signal
  /\ is_server_terminated' = TRUE
  /\ UNCHANGED <<notified, missed>>

HandlerLock(t) ==
  /\ HandlerRuns(t, "lock", "locked")
  /\ mutex = "nobody"
  /\ mutex' = t
  /\ is_server_terminated' = TRUE
  /\ UNCHANGED <<notified, missed>>

\* A mutant of HandlerNotify that leaves notify_one out.
HandlerNotifyNot(t) ==
  /\ HandlerRuns(t, "locked", "notified")
  /\ missed' = (missed \/ pc = "lock")
  /\ UNCHANGED <<is_server_terminated, mutex, notified>>

\* notify_one reaches main only if it waits.
HandlerNotify(t) ==
  /\ HandlerRuns(t, "locked", "notified")
  /\ notified' = (pc = "wait")
  /\ missed' = (missed \/ pc = "lock")
  /\ UNCHANGED <<is_server_terminated, mutex>>

HandlerReturn(t) ==
  /\ frames[t] # <<>> /\ Top(t).at = "notified"
  /\ frames' = [frames EXCEPT ![t] = SubSeq(@, 1, Len(@) - 1)]
  /\ mutex' = "nobody"
  /\ UNCHANGED <<pc, is_server_terminated, notified, sent, missed>>

Handler(t) == HandlerLock(t) \/ HandlerNotify(t) \/ HandlerReturn(t)

MainThread == Test \/ Lock \/ Wait \/ (notified /\ WakeUp) \/ Unlock

\* The threads whose handler wants the mutex that the code underneath it on
\* the same thread holds: main between its lock and its unlock, or a handler
\* that the other signal has interrupted.
BlockedOnItself(t) == /\ frames[t] # <<>> /\ Top(t).at = "lock"
                      /\ mutex = t

\* main has gone on to stop the server, or a thread blocks itself and, with it,
\* all that want the mutex.
Idle == /\ pc = "done" \/ \E t \in Threads : BlockedOnItself(t)
        /\ UNCHANGED waitVars

WaitNext == \/ MainThread \/ WakeUp
            \/ \E t \in Threads : Handler(t) \/ \E s \in Signals : Deliver(t, s)
            \/ Idle

WaitSpec == WaitInit /\ [][WaitNext]_waitVars

\* Threads that can go on do.  Nothing makes a signal come or a wakeup be
\* spurious.
FairWaitSpec == /\ WaitSpec
                /\ WF_waitVars(MainThread)
                /\ \A t \in Threads : WF_waitVars(Handler(t))

-----------------------------------------------------------------------------
(***************************************************************************)
(* Properties.                                                             *)
(***************************************************************************)
\* Type invariant.
WaitTypeOK ==
  /\ pc \in {"test", "lock", "locked", "wait", "woken", "done"}
  /\ is_server_terminated \in BOOLEAN
  /\ mutex \in Threads \cup {"nobody"}
  /\ notified \in BOOLEAN
  /\ frames \in [Threads -> Seq([signal : Signals, at : {"lock", "locked", "notified"}])]
  /\ sent \in 0 .. MaxSignals
  /\ missed \in BOOLEAN

\* main sleeps through a signal only if the handler notified between the test
\* of is_server_terminated and the wait: the loop tests before it locks.
NoLostSignal ==
  pc = "wait" /\ is_server_terminated /\ ~missed =>
    notified \/ \E t \in Threads : \E i \in DOMAIN frames[t] : frames[t][i].at = "locked"

\* A signal that has been handled ends the wait, but for the lost notification
\* and for a thread that blocks itself; and once a notification is lost, the next
\* signal that is handled while main waits still ends it.
SignalEndsWait ==
  LET Blocked == \E t \in Threads : BlockedOnItself(t)
  IN  /\ is_server_terminated ~> (pc = "done" \/ missed \/ Blocked)
      /\ notified ~> (pc = "done" \/ Blocked)
=============================================================================
