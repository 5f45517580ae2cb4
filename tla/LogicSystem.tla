----------------------------- MODULE LogicSystem -----------------------------
(***************************************************************************)
(* The LogicSystem singleton: sessions, on the threads of the asio layer,  *)
(* post messages to a queue guarded by a mutex and a condition variable;   *)
(* one worker thread takes them out and runs the callbacks.                *)
(*                                                                         *)
(* A step is what a thread does between two points where another thread    *)
(* can see or change something it uses: taking the mutex, the wait, the    *)
(* notification, the callback, the write of _b_stop, which happens without *)
(* the mutex.                                                              *)
(***************************************************************************)
EXTENDS Naturals, Sequences

CONSTANTS Producers,       (* threads of the asio layer                        *)
          Msgs, Known, IllTyped,
          MaxPosts         (* bound on the messages posted                     *)

ASSUME MsgsAssumption == Known \subseteq Msgs /\ IllTyped \subseteq Known

ASSUME ProducersAssumption ==
  /\ "free" \notin Producers /\ "worker" \notin Producers
  /\ MaxPosts \in Nat

VARIABLES
  msg_que,       (* _msg_que                                              *)
  mutex,         (* who holds _mutex                                      *)
  b_stop,        (* _b_stop                                               *)
  fun_callbacks, (* the messages whose id is in _fun_callbacks            *)
  worker,        (* where DealMsg is                                      *)
  poster,        (* where each producer is in PostMsgToQue                *)
  dtor,          (* where ~LogicSystem is                                 *)
  terminated,    (* an exception has left the worker: std::terminate      *)
  posts,         (* how many messages producers have begun to post        *)
  replies,       (* messages whose callback has called Send and returned  *)
  notifyUnderLock (* the program: version 3, or the multi-thread version,  *)
                  (* which unlocks before it notifies                     *)

vars == <<msg_que, mutex, b_stop, fun_callbacks, worker, poster, dtor,
          terminated, posts, replies, notifyUnderLock>>

Init == /\ msg_que = <<>>
        /\ mutex = "free"
        /\ b_stop = FALSE
        /\ fun_callbacks = {}
        /\ worker = "none"
        /\ poster = [p \in Producers |-> "idle"]
        /\ dtor = "alive"
        /\ terminated = FALSE
        /\ posts = 0
        /\ replies = <<>>
        /\ notifyUnderLock \in BOOLEAN

-----------------------------------------------------------------------------
(* notify_one: the worker is the only thread that ever waits. *)
notify_one == worker' = IF worker = "waiting" THEN "woken" ELSE worker

Goto(p, label) == poster' = [poster EXCEPT ![p] = label]

\* HandleRead has a message and asks for the singleton.
PostBegin(p) ==
  /\ ~terminated
  /\ dtor = "alive"
  /\ poster[p] = "idle"
  /\ posts < MaxPosts
  /\ posts' = posts + 1
  /\ Goto(p, "instance")
  /\ UNCHANGED <<msg_que, mutex, b_stop, fun_callbacks, worker, dtor,
                 terminated, replies, notifyUnderLock>>

\* A mutant of Construct that registers a callback for every id.
ConstructAllIds(p) ==
  /\ ~terminated
  /\ poster[p] = "instance"
  /\ worker = "none"
  /\ fun_callbacks' = Msgs
  /\ worker' = "lock"
  /\ Goto(p, "lock")
  /\ UNCHANGED <<msg_que, mutex, b_stop, dtor, terminated, posts, replies, notifyUnderLock>>

\* The first GetInstance constructs the singleton inside call_once: the
\* callbacks are registered, then the worker is started.
Construct(p) ==
  /\ ~terminated
  /\ poster[p] = "instance"
  /\ worker = "none"
  /\ fun_callbacks' = Known
  /\ worker' = "lock"
  /\ Goto(p, "lock")
  /\ UNCHANGED <<msg_que, mutex, b_stop, dtor, terminated, posts, replies, notifyUnderLock>>

GetInstance(p) ==
  /\ ~terminated
  /\ poster[p] = "instance"
  /\ worker # "none"
  /\ Goto(p, "lock")
  /\ UNCHANGED <<msg_que, mutex, b_stop, fun_callbacks, worker, dtor,
                 terminated, posts, replies, notifyUnderLock>>

PostLock(p) ==
  /\ ~terminated
  /\ poster[p] = "lock"
  /\ mutex = "free"
  /\ mutex' = p
  /\ Goto(p, "push")
  /\ UNCHANGED <<msg_que, b_stop, fun_callbacks, worker, dtor,
                 terminated, posts, replies, notifyUnderLock>>

\* A mutant of MustNotify: the size is tested before the push.
MustNotifyEarlySize == Len(msg_que) = 1

\* push, and the test of the size afterwards.
MustNotify == Len(msg_que') = 1

PostPush(p, m) ==
  /\ ~terminated
  /\ poster[p] = "push"
  /\ msg_que' = Append(msg_que, m)
  /\ Goto(p, IF ~MustNotify THEN "unlock"
             ELSE IF notifyUnderLock THEN "notify" ELSE "unlock_notify")
  /\ UNCHANGED <<mutex, b_stop, fun_callbacks, worker, dtor, terminated,
                 posts, replies, notifyUnderLock>>

\* unlock(), by hand in front of the notification or at the end of the scope.
PostUnlock(p) ==
  /\ ~terminated
  /\ poster[p] \in {"unlock", "unlock_notify"}
  /\ mutex' = "free"
  /\ Goto(p, IF poster[p] = "unlock" THEN "idle" ELSE "notify")
  /\ UNCHANGED <<msg_que, b_stop, fun_callbacks, worker, dtor,
                 terminated, posts, replies, notifyUnderLock>>

PostNotify(p) ==
  /\ ~terminated
  /\ poster[p] = "notify"
  /\ notify_one
  /\ Goto(p, IF notifyUnderLock THEN "unlock" ELSE "idle")
  /\ UNCHANGED <<msg_que, mutex, b_stop, fun_callbacks, dtor, terminated,
                 posts, replies, notifyUnderLock>>

-----------------------------------------------------------------------------
(* DealMsg. *)
WorkerLock ==
  /\ ~terminated
  /\ worker \in {"lock", "woken"}
  /\ mutex = "free"
  /\ mutex' = "worker"
  /\ worker' = "check"
  /\ UNCHANGED <<msg_que, b_stop, fun_callbacks, poster, dtor,
                 terminated, posts, replies, notifyUnderLock>>

\* while (_msg_que.empty() && !_b_stop), then if (_b_stop).
WorkerCheck ==
  /\ ~terminated
  /\ worker = "check"
  /\ worker' = IF msg_que = <<>> /\ ~b_stop THEN "wait"
               ELSE IF b_stop THEN "drain" ELSE "front"
  /\ UNCHANGED <<msg_que, mutex, b_stop, fun_callbacks, poster, dtor,
                 terminated, posts, replies, notifyUnderLock>>

\* wait() releases the mutex and starts to wait in one step.
WorkerWait ==
  /\ ~terminated
  /\ worker = "wait"
  /\ mutex' = "free"
  /\ worker' = "waiting"
  /\ UNCHANGED <<msg_que, b_stop, fun_callbacks, poster, dtor,
                 terminated, posts, replies, notifyUnderLock>>

SpuriousWakeup ==
  /\ ~terminated
  /\ worker = "waiting"
  /\ worker' = "woken"
  /\ UNCHANGED <<msg_que, mutex, b_stop, fun_callbacks, poster, dtor,
                 terminated, posts, replies, notifyUnderLock>>

\* After a pop: the loop starts over and its lock ends, or the drain goes on.
AfterPop(from) ==
  IF from \in {"front", "pop"}
  THEN mutex' = "free" /\ worker' = "lock"
  ELSE mutex' = mutex /\ worker' = "drain"

\* A mutant of WorkerDrop that drops messages with a callback too.
WorkerDropAny ==
  /\ ~terminated
  /\ worker \in {"front", "drain"}
  /\ msg_que # <<>>
  /\ msg_que' = Tail(msg_que)
  /\ AfterPop(worker)
  /\ UNCHANGED <<b_stop, fun_callbacks, poster, dtor, terminated, posts,
                 replies, notifyUnderLock>>

\* The message in front has no callback.
WorkerDrop ==
  /\ ~terminated
  /\ worker \in {"front", "drain"}
  /\ msg_que # <<>>
  /\ Head(msg_que) \notin fun_callbacks
  /\ msg_que' = Tail(msg_que)
  /\ AfterPop(worker)
  /\ UNCHANGED <<b_stop, fun_callbacks, poster, dtor, terminated, posts,
                 replies, notifyUnderLock>>

\* The callback is called, with the mutex held.
WorkerCall ==
  /\ ~terminated
  /\ worker \in {"front", "drain"}
  /\ msg_que # <<>>
  /\ Head(msg_que) \in fun_callbacks
  /\ worker' = IF worker = "front" THEN "call" ELSE "drain_call"
  /\ UNCHANGED <<msg_que, mutex, b_stop, fun_callbacks, poster, dtor,
                 terminated, posts, replies, notifyUnderLock>>

\* HelloWordCallBack: an answer goes to the session's Send, unless jsoncpp
\* throws, which nothing in the worker catches.
HelloWordCallBack ==
  /\ ~terminated
  /\ worker \in {"call", "drain_call"}
  /\ Head(msg_que) \notin IllTyped
  /\ replies' = Append(replies, Head(msg_que))
  /\ worker' = IF worker = "call" THEN "pop" ELSE "drain_pop"
  /\ UNCHANGED <<msg_que, mutex, b_stop, fun_callbacks, poster, dtor,
                 terminated, posts, notifyUnderLock>>

HelloWordCallBackThrows ==
  /\ ~terminated
  /\ worker \in {"call", "drain_call"}
  /\ Head(msg_que) \in IllTyped
  /\ terminated' = TRUE
  /\ UNCHANGED <<msg_que, mutex, b_stop, fun_callbacks, worker, poster,
                 dtor, posts, replies, notifyUnderLock>>

WorkerPop ==
  /\ ~terminated
  /\ worker \in {"pop", "drain_pop"}
  /\ msg_que' = Tail(msg_que)
  /\ AfterPop(worker)
  /\ UNCHANGED <<b_stop, fun_callbacks, poster, dtor, terminated, posts,
                 replies, notifyUnderLock>>

\* A mutant of WorkerExit that does not drain the queue.
WorkerExitAtOnce ==
  /\ ~terminated
  /\ worker = "drain"
  /\ worker' = "exited"
  /\ mutex' = "free"
  /\ UNCHANGED <<msg_que, b_stop, fun_callbacks, poster, dtor,
                 terminated, posts, replies, notifyUnderLock>>

WorkerExit ==
  /\ ~terminated
  /\ worker = "drain"
  /\ msg_que = <<>>
  /\ worker' = "exited"
  /\ mutex' = "free"
  /\ UNCHANGED <<msg_que, b_stop, fun_callbacks, poster, dtor,
                 terminated, posts, replies, notifyUnderLock>>

-----------------------------------------------------------------------------
(* ~LogicSystem, when main has returned: the threads of the asio layer     *)
(* have been joined by then.                                               *)
Stop ==
  /\ ~terminated
  /\ dtor = "alive"
  /\ worker # "none"
  /\ \A p \in Producers : poster[p] = "idle"
  /\ b_stop' = TRUE
  /\ dtor' = "notify"
  /\ UNCHANGED <<msg_que, mutex, fun_callbacks, worker, poster,
                 terminated, posts, replies, notifyUnderLock>>

StopNotify ==
  /\ ~terminated
  /\ dtor = "notify"
  /\ notify_one
  /\ dtor' = "join"
  /\ UNCHANGED <<msg_que, mutex, b_stop, fun_callbacks, poster,
                 terminated, posts, replies, notifyUnderLock>>

StopJoin ==
  /\ ~terminated
  /\ dtor = "join"
  /\ worker = "exited"
  /\ dtor' = "done"
  /\ UNCHANGED <<msg_que, mutex, b_stop, fun_callbacks, worker, poster,
                 terminated, posts, replies, notifyUnderLock>>

-----------------------------------------------------------------------------
Post(p) == \/ Construct(p) \/ GetInstance(p) \/ PostLock(p) \/ (\E m \in Msgs : PostPush(p, m))
           \/ PostUnlock(p) \/ PostNotify(p)

DealMsg == \/ WorkerLock \/ WorkerCheck \/ WorkerWait \/ WorkerDrop
           \/ WorkerCall \/ HelloWordCallBack \/ HelloWordCallBackThrows
           \/ WorkerPop \/ WorkerExit

Destroy == StopNotify \/ StopJoin

\* The process is over.
Finished == (terminated \/ dtor = "done") /\ UNCHANGED vars

Next == \/ \E p \in Producers : PostBegin(p) \/ Post(p)
        \/ DealMsg \/ SpuriousWakeup \/ Stop \/ Destroy \/ Finished

Spec == Init /\ [][Next]_vars

\* Every thread that can go on does.  Nothing makes a session post, the process
\* stop, or the condition variable wake up by itself.
FairSpec == /\ Spec
            /\ \A p \in Producers : WF_vars(Post(p))
            /\ WF_vars(DealMsg)
            /\ WF_vars(Destroy)

-----------------------------------------------------------------------------
(***************************************************************************)
(* Properties.                                                             *)
(***************************************************************************)
WorkerLocked == {"check", "wait", "front", "drain", "call", "drain_call",
                 "pop", "drain_pop"}
PosterLocked == {"push", "unlock", "unlock_notify"}

\* Type invariant of the logic layer.
TypeOK ==
  /\ msg_que \in Seq(Msgs)
  /\ mutex \in {"free", "worker"} \cup Producers
  /\ b_stop \in BOOLEAN
  /\ fun_callbacks \in {{}, Known}
  /\ worker \in {"none", "lock", "waiting", "woken", "exited"} \cup WorkerLocked
  /\ poster \in [Producers -> {"idle", "instance", "lock", "notify"} \cup PosterLocked]
  /\ dtor \in {"alive", "notify", "join", "done"}
  /\ terminated \in BOOLEAN
  /\ posts \in 0 .. MaxPosts
  /\ replies \in Seq(Msgs)
  /\ notifyUnderLock \in BOOLEAN

\* PostMsgToQue notifies only when it has made the queue non-empty, and the
\* multi-thread version does so after it has unlocked; still the worker never
\* sleeps on a non-empty queue unless a notification is on its way.
NoLostWakeup ==
  worker = "waiting" /\ msg_que # <<>> =>
    \E p \in Producers : poster[p] \in {"notify", "unlock_notify"}

\* Nothing posted before the stop request is left behind: neither when the
\* worker has drained the queue and gone, nor when it slept through the
\* request and the destructor waits for it.
NothingLeftBehind ==
  worker = "exited" \/ (dtor = "join" /\ worker = "waiting") => msg_que = <<>>

\* Seen from the sessions, the logic layer is a LogicService.
Pending == IF worker \in {"pop", "drain_pop"} THEN Tail(msg_que) ELSE msg_que

Service == INSTANCE LogicService WITH pending <- Pending, crashed <- terminated

\* The queue, the mutex and the wakeups implement the service: order, one
\* answer for each message with a callback, none for the others, and every
\* message is dealt with in the end.
ImplementsService == Service!SFairSpec

\* The comment in version 3's DealMsg: when _b_stop is true the queue is
\* drained and the loop ends, so that the destructor's join returns.
StopLeadsToExit == dtor = "join" ~> (dtor = "done" \/ terminated)
=============================================================================
