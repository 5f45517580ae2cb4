-------------------------- MODULE LogicSystemProofs --------------------------
(***************************************************************************)
(* Theorems about LogicSystem: no wakeup of a post is lost, nothing is     *)
(* left behind at the end, and the logic layer implements LogicService,    *)
(* for any number of producers and any messages.                           *)
(***************************************************************************)
EXTENDS LogicSystem, SequenceTheorems, TLAPS

\* Version 3 still holds the mutex when it notifies.
HoldsLock(p) == poster[p] \in PosterLocked \/ (notifyUnderLock /\ poster[p] = "notify")

\* The mutex is held by the thread whose place in the code says so.
LockInv ==
  /\ mutex = "worker" <=> worker \in WorkerLocked
  /\ \A p \in Producers : mutex = p <=> HoldsLock(p)

\* Only the multi-thread version unlocks in front of the notification.
UnlockInv == \A p \in Producers : poster[p] = "unlock_notify" => ~notifyUnderLock

\* The constructor and the destructor enclose everything else.
LifeInv ==
  /\ fun_callbacks = IF worker = "none" THEN {} ELSE Known
  /\ worker = "none" => /\ msg_que = <<>>
                        /\ \A p \in Producers : poster[p] \in {"idle", "instance"}
  /\ b_stop <=> dtor # "alive"
  /\ b_stop => worker # "none" /\ \A p \in Producers : poster[p] = "idle"
  /\ worker \in {"drain", "drain_call", "drain_pop", "exited"} => b_stop

\* What the worker has found out about the queue stays true where it is.
QueueInv ==
  /\ worker = "wait" => msg_que = <<>>
  /\ worker = "exited" => msg_que = <<>>
  /\ worker = "front" => msg_que # <<>>
  /\ worker \in {"call", "drain_call", "pop", "drain_pop"} =>
       msg_que # <<>> /\ Head(msg_que) \in Known
  /\ worker \in {"pop", "drain_pop"} => Head(msg_que) \notin IllTyped

\* The inductive invariant.  NoLostWakeup needs LockInv: between the worker's
\* test of the queue and its wait nobody can push.
IInv == TypeOK /\ LockInv /\ UnlockInv /\ LifeInv /\ QueueInv /\ NoLostWakeup

\* The initial states satisfy the inductive invariant.
LEMMA InitInv == Init => IInv
<1> SUFFICES ASSUME Init PROVE IInv
  OBVIOUS
<1> USE DEF Init
<1>1. TypeOK
  <2>1. b_stop \in BOOLEAN /\ terminated \in BOOLEAN
    OBVIOUS
  <2>2. posts \in 0 .. MaxPosts
    BY ProducersAssumption
  <2>3. msg_que \in Seq(Msgs) /\ replies \in Seq(Msgs)
    OBVIOUS
  <2>4. poster \in [Producers -> {"idle", "instance", "lock", "notify"} \cup PosterLocked]
    OBVIOUS
  <2>. QED  BY <2>1, <2>2, <2>3, <2>4 DEF TypeOK
<1>2. LockInv
  BY ProducersAssumption DEF LockInv, HoldsLock, PosterLocked, WorkerLocked
<1>3. LifeInv
  BY DEF LifeInv
<1>4. QueueInv /\ NoLostWakeup /\ UnlockInv
  BY DEF QueueInv, NoLostWakeup, UnlockInv
<1>. QED  BY <1>1, <1>2, <1>3, <1>4 DEF IInv

\* A session that has a message to post keeps the inductive invariant.
LEMMA PostBeginInv ==
  ASSUME IInv, NEW p \in Producers, PostBegin(p)
  PROVE  IInv'
<1> USE DEF PostBegin, Goto
<1>1. TypeOK'
  <2>1. posts' \in 0 .. MaxPosts
    BY ProducersAssumption DEF IInv, TypeOK
  <2>. QED  BY <2>1 DEF IInv, TypeOK
<1>2. LockInv'
  BY ProducersAssumption DEF IInv, TypeOK, LockInv, HoldsLock, WorkerLocked, PosterLocked
<1>3. LifeInv'
  BY DEF IInv, TypeOK, LifeInv, LockInv, HoldsLock, WorkerLocked, PosterLocked
<1>4. QueueInv'
  BY DEF IInv, QueueInv, TypeOK, LockInv, LifeInv, HoldsLock, WorkerLocked, PosterLocked
<1>5. NoLostWakeup'
  BY DEF IInv, TypeOK, NoLostWakeup, QueueInv
<1>6. UnlockInv'
  BY DEF IInv, TypeOK, UnlockInv
<1>. QED  BY <1>1, <1>2, <1>3, <1>4, <1>5, <1>6 DEF IInv

\* The constructor, inside call_once keeps the inductive invariant.
LEMMA ConstructInv ==
  ASSUME IInv, NEW p \in Producers, Construct(p)
  PROVE  IInv'
<1> USE DEF Construct, Goto
<1>1. TypeOK'
  BY DEF IInv, TypeOK, WorkerLocked, PosterLocked
<1>2. LockInv'
  BY ProducersAssumption DEF IInv, TypeOK, LockInv, HoldsLock, WorkerLocked, PosterLocked
<1>3. LifeInv'
  BY DEF IInv, TypeOK, LifeInv, LockInv, HoldsLock, WorkerLocked, PosterLocked
<1>4. QueueInv'
  BY DEF IInv, QueueInv, TypeOK, LockInv, LifeInv, HoldsLock, WorkerLocked, PosterLocked
<1>5. NoLostWakeup'
  BY DEF IInv, TypeOK, NoLostWakeup, QueueInv
<1>6. UnlockInv'
  BY DEF IInv, TypeOK, UnlockInv
<1>. QED  BY <1>1, <1>2, <1>3, <1>4, <1>5, <1>6 DEF IInv

\* GetInstance once the singleton is there keeps the inductive invariant.
LEMMA GetInstanceInv ==
  ASSUME IInv, NEW p \in Producers, GetInstance(p)
  PROVE  IInv'
<1> USE DEF GetInstance, Goto
<1>1. TypeOK'
  BY DEF IInv, TypeOK, WorkerLocked, PosterLocked
<1>2. LockInv'
  BY ProducersAssumption DEF IInv, TypeOK, LockInv, HoldsLock, WorkerLocked, PosterLocked
<1>3. LifeInv'
  BY DEF IInv, TypeOK, LifeInv, LockInv, HoldsLock, WorkerLocked, PosterLocked
<1>4. QueueInv'
  BY DEF IInv, QueueInv, TypeOK, LockInv, LifeInv, HoldsLock, WorkerLocked, PosterLocked
<1>5. NoLostWakeup'
  BY DEF IInv, TypeOK, NoLostWakeup, QueueInv
<1>6. UnlockInv'
  BY DEF IInv, TypeOK, UnlockInv
<1>. QED  BY <1>1, <1>2, <1>3, <1>4, <1>5, <1>6 DEF IInv

\* Taking the mutex in PostMsgToQue keeps the inductive invariant.
LEMMA PostLockInv ==
  ASSUME IInv, NEW p \in Producers, PostLock(p)
  PROVE  IInv'
<1> USE DEF PostLock, Goto
<1>1. TypeOK'
  BY DEF IInv, TypeOK, WorkerLocked, PosterLocked
<1>2. LockInv'
  BY ProducersAssumption DEF IInv, TypeOK, LockInv, HoldsLock, WorkerLocked, PosterLocked
<1>3. LifeInv'
  BY DEF IInv, TypeOK, LifeInv, LockInv, HoldsLock, WorkerLocked, PosterLocked
<1>4. QueueInv'
  BY DEF IInv, QueueInv, TypeOK, LockInv, LifeInv, HoldsLock, WorkerLocked, PosterLocked
<1>5. NoLostWakeup'
  BY DEF IInv, TypeOK, NoLostWakeup, QueueInv
<1>6. UnlockInv'
  BY DEF IInv, TypeOK, UnlockInv
<1>. QED  BY <1>1, <1>2, <1>3, <1>4, <1>5, <1>6 DEF IInv

\* The push and the test of the size in PostMsgToQue keeps the inductive invariant.
LEMMA PostPushInv ==
  ASSUME IInv, NEW p \in Producers, NEW m \in Msgs, PostPush(p, m)
  PROVE  IInv'
<1> USE DEF PostPush, MustNotify, Goto
<1>1. TypeOK'
  BY DEF IInv, TypeOK, WorkerLocked, PosterLocked
<1>2. LockInv'
  BY ProducersAssumption DEF IInv, TypeOK, LockInv, HoldsLock, WorkerLocked, PosterLocked
<1>3. LifeInv'
  BY DEF IInv, TypeOK, LifeInv, LockInv, HoldsLock, WorkerLocked, PosterLocked
<1>4. QueueInv'
  <2>1. mutex = p /\ mutex # "worker"
    BY ProducersAssumption DEF IInv, LockInv, HoldsLock, PosterLocked
  <2>2. worker \notin WorkerLocked
    BY <2>1 DEF IInv, LockInv
  <2>3. worker # "exited"
    BY DEF IInv, LifeInv
  <2>. QED  BY <2>2, <2>3 DEF QueueInv, WorkerLocked
<1>5. NoLostWakeup'
  BY DEF IInv, TypeOK, NoLostWakeup, QueueInv
<1>6. UnlockInv'
  BY DEF IInv, TypeOK, UnlockInv
<1>. QED  BY <1>1, <1>2, <1>3, <1>4, <1>5, <1>6 DEF IInv

\* The release of the mutex in PostMsgToQue keeps the inductive invariant.
LEMMA PostUnlockInv ==
  ASSUME IInv, NEW p \in Producers, PostUnlock(p)
  PROVE  IInv'
<1> USE DEF PostUnlock, Goto
<1>1. TypeOK'
  BY DEF IInv, TypeOK, WorkerLocked, PosterLocked
<1>2. LockInv'
  <2>1. mutex = p /\ \A q \in Producers : mutex = q <=> HoldsLock(q)
    BY DEF IInv, LockInv, HoldsLock, PosterLocked
  <2>2. mutex' # "worker" /\ worker' \notin WorkerLocked
    BY <2>1, ProducersAssumption DEF IInv, LockInv
  <2>3. ~HoldsLock(p)'
    <3>1. poster'[p] = IF poster[p] = "unlock" THEN "idle" ELSE "notify"
      BY DEF IInv, TypeOK
    <3>2. CASE poster[p] = "unlock"
      BY <3>1, <3>2 DEF HoldsLock, PosterLocked
    <3>3. CASE poster[p] = "unlock_notify"
      BY <3>1, <3>3 DEF IInv, UnlockInv, HoldsLock, PosterLocked
    <3>. QED  BY <3>2, <3>3
  <2>4. ASSUME NEW q \in Producers, q # p PROVE ~HoldsLock(q)'
    <3>1. ~HoldsLock(q) /\ poster'[q] = poster[q]
      BY <2>1, <2>4 DEF IInv, TypeOK
    <3>. QED  BY <3>1 DEF HoldsLock
  <2>5. \A q \in Producers : mutex' # q
    BY ProducersAssumption
  <2>. QED  BY <2>2, <2>3, <2>4, <2>5 DEF LockInv
<1>3. LifeInv'
  BY DEF IInv, TypeOK, LifeInv, LockInv, HoldsLock, WorkerLocked, PosterLocked
<1>4. QueueInv'
  BY DEF IInv, QueueInv, TypeOK, LockInv, LifeInv, HoldsLock, WorkerLocked, PosterLocked
<1>5. NoLostWakeup'
  BY DEF IInv, TypeOK, NoLostWakeup, QueueInv
<1>6. UnlockInv'
  BY DEF IInv, TypeOK, UnlockInv
<1>. QED  BY <1>1, <1>2, <1>3, <1>4, <1>5, <1>6 DEF IInv

\* The notification in PostMsgToQue keeps the inductive invariant.
LEMMA PostNotifyInv ==
  ASSUME IInv, NEW p \in Producers, PostNotify(p)
  PROVE  IInv'
<1> USE DEF PostNotify, notify_one, Goto
<1>1. TypeOK'
  BY DEF IInv, TypeOK, WorkerLocked, PosterLocked
<1>2. LockInv'
  BY ProducersAssumption DEF IInv, TypeOK, LockInv, HoldsLock, WorkerLocked, PosterLocked
<1>3. LifeInv'
  BY DEF IInv, TypeOK, LifeInv, LockInv, HoldsLock, WorkerLocked, PosterLocked
<1>4. QueueInv'
  BY DEF IInv, QueueInv, TypeOK, LockInv, LifeInv, HoldsLock, WorkerLocked, PosterLocked
<1>5. NoLostWakeup'
  BY DEF IInv, TypeOK, NoLostWakeup, QueueInv
<1>6. UnlockInv'
  BY DEF IInv, TypeOK, UnlockInv
<1>. QED  BY <1>1, <1>2, <1>3, <1>4, <1>5, <1>6 DEF IInv

\* Taking the mutex in DealMsg keeps the inductive invariant.
LEMMA WorkerLockInv ==
  ASSUME IInv, WorkerLock
  PROVE  IInv'
<1> USE DEF WorkerLock
<1>1. TypeOK'
  BY DEF IInv, TypeOK, WorkerLocked, PosterLocked
<1>2. LockInv'
  BY ProducersAssumption DEF IInv, TypeOK, LockInv, HoldsLock, WorkerLocked, PosterLocked
<1>3. LifeInv'
  BY DEF IInv, TypeOK, LifeInv, LockInv, HoldsLock, WorkerLocked, PosterLocked
<1>4. QueueInv'
  BY DEF IInv, QueueInv, TypeOK, LockInv, LifeInv, HoldsLock, WorkerLocked, PosterLocked
<1>5. NoLostWakeup'
  BY DEF IInv, TypeOK, NoLostWakeup, QueueInv
<1>6. UnlockInv'
  BY DEF IInv, TypeOK, UnlockInv
<1>. QED  BY <1>1, <1>2, <1>3, <1>4, <1>5, <1>6 DEF IInv

\* DealMsg's tests of the queue and of _b_stop keep the inductive invariant.
LEMMA WorkerCheckInv ==
  ASSUME IInv, WorkerCheck
  PROVE  IInv'
<1> USE DEF WorkerCheck
<1>1. TypeOK'
  BY DEF IInv, TypeOK, WorkerLocked, PosterLocked
<1>2. LockInv'
  BY ProducersAssumption DEF IInv, TypeOK, LockInv, HoldsLock, WorkerLocked, PosterLocked
<1>3. LifeInv'
  BY DEF IInv, TypeOK, LifeInv, LockInv, HoldsLock, WorkerLocked, PosterLocked
<1>4. QueueInv'
  BY DEF IInv, QueueInv, TypeOK, LockInv, LifeInv, HoldsLock, WorkerLocked, PosterLocked
<1>5. NoLostWakeup'
  BY DEF IInv, TypeOK, NoLostWakeup, QueueInv
<1>6. UnlockInv'
  BY DEF IInv, TypeOK, UnlockInv
<1>. QED  BY <1>1, <1>2, <1>3, <1>4, <1>5, <1>6 DEF IInv

\* The beginning of DealMsg's wait keeps the inductive invariant.
LEMMA WorkerWaitInv ==
  ASSUME IInv, WorkerWait
  PROVE  IInv'
<1> USE DEF WorkerWait
<1>1. TypeOK'
  BY DEF IInv, TypeOK, WorkerLocked, PosterLocked
<1>2. LockInv'
  BY ProducersAssumption DEF IInv, TypeOK, LockInv, HoldsLock, WorkerLocked, PosterLocked
<1>3. LifeInv'
  BY DEF IInv, TypeOK, LifeInv, LockInv, HoldsLock, WorkerLocked, PosterLocked
<1>4. QueueInv'
  BY DEF IInv, QueueInv, TypeOK, LockInv, LifeInv, HoldsLock, WorkerLocked, PosterLocked
<1>5. NoLostWakeup'
  BY DEF IInv, TypeOK, NoLostWakeup, QueueInv
<1>6. UnlockInv'
  BY DEF IInv, TypeOK, UnlockInv
<1>. QED  BY <1>1, <1>2, <1>3, <1>4, <1>5, <1>6 DEF IInv

\* A wakeup nobody asked for keeps the inductive invariant.
LEMMA SpuriousWakeupInv ==
  ASSUME IInv, SpuriousWakeup
  PROVE  IInv'
<1> USE DEF SpuriousWakeup
<1>1. TypeOK'
  BY DEF IInv, TypeOK, WorkerLocked, PosterLocked
<1>2. LockInv'
  BY ProducersAssumption DEF IInv, TypeOK, LockInv, HoldsLock, WorkerLocked, PosterLocked
<1>3. LifeInv'
  BY DEF IInv, TypeOK, LifeInv, LockInv, HoldsLock, WorkerLocked, PosterLocked
<1>4. QueueInv'
  BY DEF IInv, QueueInv, TypeOK, LockInv, LifeInv, HoldsLock, WorkerLocked, PosterLocked
<1>5. NoLostWakeup'
  BY DEF IInv, TypeOK, NoLostWakeup, QueueInv
<1>6. UnlockInv'
  BY DEF IInv, TypeOK, UnlockInv
<1>. QED  BY <1>1, <1>2, <1>3, <1>4, <1>5, <1>6 DEF IInv

\* The pop of a message without a callback keeps the inductive invariant.
LEMMA WorkerDropInv ==
  ASSUME IInv, WorkerDrop
  PROVE  IInv'
<1> USE DEF WorkerDrop, AfterPop
<1>1. TypeOK'
  BY DEF IInv, TypeOK, WorkerLocked, PosterLocked
<1>2. LockInv'
  BY ProducersAssumption DEF IInv, TypeOK, LockInv, HoldsLock, WorkerLocked, PosterLocked
<1>3. LifeInv'
  BY DEF IInv, TypeOK, LifeInv, LockInv, HoldsLock, WorkerLocked, PosterLocked
<1>4. QueueInv'
  BY DEF IInv, QueueInv, TypeOK, LockInv, LifeInv, HoldsLock, WorkerLocked, PosterLocked
<1>5. NoLostWakeup'
  BY DEF IInv, TypeOK, NoLostWakeup, QueueInv
<1>6. UnlockInv'
  BY DEF IInv, TypeOK, UnlockInv
<1>. QED  BY <1>1, <1>2, <1>3, <1>4, <1>5, <1>6 DEF IInv

\* The call of a callback keeps the inductive invariant.
LEMMA WorkerCallInv ==
  ASSUME IInv, WorkerCall
  PROVE  IInv'
<1> USE DEF WorkerCall
<1>1. TypeOK'
  BY DEF IInv, TypeOK, WorkerLocked, PosterLocked
<1>2. LockInv'
  BY ProducersAssumption DEF IInv, TypeOK, LockInv, HoldsLock, WorkerLocked, PosterLocked
<1>3. LifeInv'
  BY DEF IInv, TypeOK, LifeInv, LockInv, HoldsLock, WorkerLocked, PosterLocked
<1>4. QueueInv'
  BY DEF IInv, QueueInv, TypeOK, LockInv, LifeInv, HoldsLock, WorkerLocked, PosterLocked
<1>5. NoLostWakeup'
  BY DEF IInv, TypeOK, NoLostWakeup, QueueInv
<1>6. UnlockInv'
  BY DEF IInv, TypeOK, UnlockInv
<1>. QED  BY <1>1, <1>2, <1>3, <1>4, <1>5, <1>6 DEF IInv

\* A callback that answers keeps the inductive invariant.
LEMMA HelloWordCallBackInv ==
  ASSUME IInv, HelloWordCallBack
  PROVE  IInv'
<1> USE DEF HelloWordCallBack
<1>1. TypeOK'
  <2>1. msg_que # <<>> /\ msg_que \in Seq(Msgs) /\ replies \in Seq(Msgs)
    BY DEF IInv, QueueInv, TypeOK
  <2>2. Head(msg_que) \in Msgs
    BY <2>1, HeadTailProperties
  <2>3. replies' \in Seq(Msgs)
    BY <2>1, <2>2, AppendProperties
  <2>. QED  BY <2>3 DEF IInv, TypeOK, WorkerLocked
<1>2. LockInv'
  BY ProducersAssumption DEF IInv, TypeOK, LockInv, HoldsLock, WorkerLocked, PosterLocked
<1>3. LifeInv'
  BY DEF IInv, TypeOK, LifeInv, LockInv, HoldsLock, WorkerLocked, PosterLocked
<1>4. QueueInv'
  BY DEF IInv, QueueInv, TypeOK, LockInv, LifeInv, HoldsLock, WorkerLocked, PosterLocked
<1>5. NoLostWakeup'
  BY DEF IInv, TypeOK, NoLostWakeup, QueueInv
<1>6. UnlockInv'
  BY DEF IInv, TypeOK, UnlockInv
<1>. QED  BY <1>1, <1>2, <1>3, <1>4, <1>5, <1>6 DEF IInv

\* A callback that throws keeps the inductive invariant.
LEMMA HelloWordCallBackThrowsInv ==
  ASSUME IInv, HelloWordCallBackThrows
  PROVE  IInv'
<1> USE DEF HelloWordCallBackThrows
<1>1. TypeOK'
  BY DEF IInv, TypeOK, WorkerLocked, PosterLocked
<1>2. LockInv'
  BY ProducersAssumption DEF IInv, TypeOK, LockInv, HoldsLock, WorkerLocked, PosterLocked
<1>3. LifeInv'
  BY DEF IInv, TypeOK, LifeInv, LockInv, HoldsLock, WorkerLocked, PosterLocked
<1>4. QueueInv'
  BY DEF IInv, QueueInv, TypeOK, LockInv, LifeInv, HoldsLock, WorkerLocked, PosterLocked
<1>5. NoLostWakeup'
  BY DEF IInv, TypeOK, NoLostWakeup, QueueInv
<1>6. UnlockInv'
  BY DEF IInv, TypeOK, UnlockInv
<1>. QED  BY <1>1, <1>2, <1>3, <1>4, <1>5, <1>6 DEF IInv

\* The pop after a callback keeps the inductive invariant.
LEMMA WorkerPopInv ==
  ASSUME IInv, WorkerPop
  PROVE  IInv'
<1> USE DEF WorkerPop, AfterPop
<1>1. TypeOK'
  <2>1. msg_que # <<>> /\ msg_que \in Seq(Msgs)
    BY DEF IInv, QueueInv, TypeOK
  <2>2. msg_que' \in Seq(Msgs)
    BY <2>1, HeadTailProperties
  <2>. QED  BY <2>2 DEF IInv, TypeOK, WorkerLocked
<1>2. LockInv'
  BY ProducersAssumption DEF IInv, TypeOK, LockInv, HoldsLock, WorkerLocked, PosterLocked
<1>3. LifeInv'
  BY DEF IInv, TypeOK, LifeInv, LockInv, HoldsLock, WorkerLocked, PosterLocked
<1>4. QueueInv'
  BY DEF IInv, QueueInv, TypeOK, LockInv, LifeInv, HoldsLock, WorkerLocked, PosterLocked
<1>5. NoLostWakeup'
  BY DEF IInv, TypeOK, NoLostWakeup, QueueInv
<1>6. UnlockInv'
  BY DEF IInv, TypeOK, UnlockInv
<1>. QED  BY <1>1, <1>2, <1>3, <1>4, <1>5, <1>6 DEF IInv

\* The end of DealMsg keeps the inductive invariant.
LEMMA WorkerExitInv ==
  ASSUME IInv, WorkerExit
  PROVE  IInv'
<1> USE DEF WorkerExit
<1>1. TypeOK'
  BY DEF IInv, TypeOK, WorkerLocked, PosterLocked
<1>2. LockInv'
  BY ProducersAssumption DEF IInv, TypeOK, LockInv, HoldsLock, WorkerLocked, PosterLocked
<1>3. LifeInv'
  BY DEF IInv, TypeOK, LifeInv, LockInv, HoldsLock, WorkerLocked, PosterLocked
<1>4. QueueInv'
  BY DEF IInv, QueueInv, TypeOK, LockInv, LifeInv, HoldsLock, WorkerLocked, PosterLocked
<1>5. NoLostWakeup'
  BY DEF IInv, TypeOK, NoLostWakeup, QueueInv
<1>6. UnlockInv'
  BY DEF IInv, TypeOK, UnlockInv
<1>. QED  BY <1>1, <1>2, <1>3, <1>4, <1>5, <1>6 DEF IInv

\* The destructor's write of _b_stop keeps the inductive invariant.
LEMMA StopInv ==
  ASSUME IInv, Stop
  PROVE  IInv'
<1> USE DEF Stop
<1>1. TypeOK'
  BY DEF IInv, TypeOK, WorkerLocked, PosterLocked
<1>2. LockInv'
  BY ProducersAssumption DEF IInv, TypeOK, LockInv, HoldsLock, WorkerLocked, PosterLocked
<1>3. LifeInv'
  BY DEF IInv, TypeOK, LifeInv, LockInv, HoldsLock, WorkerLocked, PosterLocked
<1>4. QueueInv'
  BY DEF IInv, QueueInv, TypeOK, LockInv, LifeInv, HoldsLock, WorkerLocked, PosterLocked
<1>5. NoLostWakeup'
  BY DEF IInv, TypeOK, NoLostWakeup, QueueInv
<1>6. UnlockInv'
  BY DEF IInv, TypeOK, UnlockInv
<1>. QED  BY <1>1, <1>2, <1>3, <1>4, <1>5, <1>6 DEF IInv

\* The destructor's notification keeps the inductive invariant.
LEMMA StopNotifyInv ==
  ASSUME IInv, StopNotify
  PROVE  IInv'
<1> USE DEF StopNotify, notify_one
<1>1. TypeOK'
  BY DEF IInv, TypeOK, WorkerLocked, PosterLocked
<1>2. LockInv'
  BY ProducersAssumption DEF IInv, TypeOK, LockInv, HoldsLock, WorkerLocked, PosterLocked
<1>3. LifeInv'
  BY DEF IInv, TypeOK, LifeInv, LockInv, HoldsLock, WorkerLocked, PosterLocked
<1>4. QueueInv'
  BY DEF IInv, QueueInv, TypeOK, LockInv, LifeInv, HoldsLock, WorkerLocked, PosterLocked
<1>5. NoLostWakeup'
  BY DEF IInv, TypeOK, NoLostWakeup, QueueInv
<1>6. UnlockInv'
  BY DEF IInv, TypeOK, UnlockInv
<1>. QED  BY <1>1, <1>2, <1>3, <1>4, <1>5, <1>6 DEF IInv

\* The destructor's join keeps the inductive invariant.
LEMMA StopJoinInv ==
  ASSUME IInv, StopJoin
  PROVE  IInv'
<1> USE DEF StopJoin
<1>1. TypeOK'
  BY DEF IInv, TypeOK, WorkerLocked, PosterLocked
<1>2. LockInv'
  BY ProducersAssumption DEF IInv, TypeOK, LockInv, HoldsLock, WorkerLocked, PosterLocked
<1>3. LifeInv'
  BY DEF IInv, TypeOK, LifeInv, LockInv, HoldsLock, WorkerLocked, PosterLocked
<1>4. QueueInv'
  BY DEF IInv, QueueInv, TypeOK, LockInv, LifeInv, HoldsLock, WorkerLocked, PosterLocked
<1>5. NoLostWakeup'
  BY DEF IInv, TypeOK, NoLostWakeup, QueueInv
<1>6. UnlockInv'
  BY DEF IInv, TypeOK, UnlockInv
<1>. QED  BY <1>1, <1>2, <1>3, <1>4, <1>5, <1>6 DEF IInv

-----------------------------------------------------------------------------
\* Every step, and a stuttering step, keeps the inductive invariant.
LEMMA NextInv == IInv /\ [Next]_vars => IInv'
<1> SUFFICES ASSUME IInv, [Next]_vars PROVE IInv'
  OBVIOUS
<1>1. ASSUME NEW p \in Producers, PostBegin(p) PROVE IInv'
  BY <1>1, PostBeginInv
<1>2. ASSUME NEW p \in Producers, Construct(p) PROVE IInv'
  BY <1>2, ConstructInv
<1>3. ASSUME NEW p \in Producers, GetInstance(p) PROVE IInv'
  BY <1>3, GetInstanceInv
<1>4. ASSUME NEW p \in Producers, PostLock(p) PROVE IInv'
  BY <1>4, PostLockInv
<1>5. ASSUME NEW p \in Producers, NEW m \in Msgs, PostPush(p, m) PROVE IInv'
  BY <1>5, PostPushInv
<1>6. ASSUME NEW p \in Producers, PostUnlock(p) PROVE IInv'
  BY <1>6, PostUnlockInv
<1>7. ASSUME NEW p \in Producers, PostNotify(p) PROVE IInv'
  BY <1>7, PostNotifyInv
<1>8. CASE WorkerLock
  BY <1>8, WorkerLockInv
<1>9. CASE WorkerCheck
  BY <1>9, WorkerCheckInv
<1>10. CASE WorkerWait
  BY <1>10, WorkerWaitInv
<1>11. CASE SpuriousWakeup
  BY <1>11, SpuriousWakeupInv
<1>12. CASE WorkerDrop
  BY <1>12, WorkerDropInv
<1>13. CASE WorkerCall
  BY <1>13, WorkerCallInv
<1>14. CASE HelloWordCallBack
  BY <1>14, HelloWordCallBackInv
<1>15. CASE HelloWordCallBackThrows
  BY <1>15, HelloWordCallBackThrowsInv
<1>16. CASE WorkerPop
  BY <1>16, WorkerPopInv
<1>17. CASE WorkerExit
  BY <1>17, WorkerExitInv
<1>18. CASE Stop
  BY <1>18, StopInv
<1>19. CASE StopNotify
  BY <1>19, StopNotifyInv
<1>20. CASE StopJoin
  BY <1>20, StopJoinInv
<1>21. CASE UNCHANGED vars
  BY <1>21 DEF vars, IInv, TypeOK, LockInv, HoldsLock, UnlockInv, LifeInv,
               QueueInv, NoLostWakeup
<1>. QED
  BY <1>1, <1>2, <1>3, <1>4, <1>5, <1>6, <1>7, <1>8, <1>9, <1>10,
     <1>11, <1>12, <1>13, <1>14, <1>15, <1>16, <1>17, <1>18, <1>19, <1>20, <1>21
     DEF Next, Post, DealMsg, Destroy, Finished

\* Every reachable state satisfies the inductive invariant.
LEMMA Invariance == Spec => []IInv
BY InitInv, NextInv, PTL DEF Spec

\* Type correctness of the logic layer.
THEOREM TypeCorrect == Spec => []TypeOK
<1>1. IInv => TypeOK
  BY DEF IInv
<1>. QED  BY <1>1, Invariance, PTL

\* The worker never sleeps on a non-empty queue without a notification under
\* way, for any number of producers, with either order of unlock and notify.
THEOREM WakeupCorrect == Spec => []NoLostWakeup
<1>1. IInv => NoLostWakeup
  BY DEF IInv
<1>. QED  BY <1>1, Invariance, PTL

\* No message is left in the queue when the worker has gone, nor when the
\* destructor waits for a worker that slept through the stop request.
THEOREM NothingLeftCorrect == Spec => []NothingLeftBehind
<1>1. IInv => NothingLeftBehind
  <2> SUFFICES ASSUME IInv,
                      worker = "exited" \/ (dtor = "join" /\ worker = "waiting")
               PROVE  msg_que = <<>>
    BY DEF NothingLeftBehind
  <2>1. CASE worker = "exited"
    BY <2>1 DEF IInv, QueueInv
  <2>2. CASE dtor = "join" /\ worker = "waiting"
    <3>1. \A p \in Producers : poster[p] = "idle"
      BY <2>2 DEF IInv, LifeInv
    <3>. QED  BY <2>2, <3>1 DEF IInv, NoLostWakeup
  <2>. QED  BY <2>1, <2>2
<1>. QED  BY <1>1, Invariance, PTL

-----------------------------------------------------------------------------
(* Refinement.  Pending counts a message as dealt with when its callback   *)
(* has returned, although it leaves the queue one step later.              *)

\* The initial states are initial states of the service.
LEMMA InitRefines == Init => Service!SInit
BY DEF Init, Service!SInit, Pending

\* Every step is a step of the service or changes nothing it can see.
LEMMA StepRefines == IInv /\ [Next]_vars => [Service!SNext]_(Service!svars)
<1> SUFFICES ASSUME IInv, [Next]_vars
             PROVE  Service!SNext \/ UNCHANGED <<Pending, replies, terminated>>
  BY DEF Service!svars
<1> USE DEF Pending
<1>1. ASSUME NEW p \in Producers, NEW m \in Msgs, PostPush(p, m)
      PROVE  Service!SPost(m)
  <2>1. worker \notin WorkerLocked
    <3>1. mutex = p /\ mutex # "worker"
      BY <1>1, ProducersAssumption DEF PostPush, IInv, LockInv, HoldsLock, PosterLocked
    <3>. QED  BY <3>1 DEF IInv, LockInv
  <2>. QED  BY <1>1, <2>1 DEF PostPush, Service!SPost, WorkerLocked
<1>2. CASE WorkerDrop
  <2>1. fun_callbacks = Known
    BY <1>2 DEF WorkerDrop, IInv, LifeInv
  <2>2. Pending = msg_que /\ Pending' = Tail(msg_que)
    BY <1>2 DEF WorkerDrop, AfterPop
  <2>3. /\ ~terminated /\ msg_que # <<>> /\ Head(msg_que) \notin Known
        /\ UNCHANGED <<replies, terminated>>
    BY <1>2, <2>1 DEF WorkerDrop
  <2>4. Service!SDeal
    BY <2>2, <2>3, MsgsAssumption DEF Service!SDeal
  <2>. QED  BY <2>4 DEF Service!SNext
<1>3. CASE HelloWordCallBack
  <2>1. msg_que # <<>> /\ Head(msg_que) \in Known
    BY <1>3 DEF HelloWordCallBack, IInv, QueueInv
  <2>2. Pending = msg_que /\ Pending' = Tail(msg_que)
    BY <1>3 DEF HelloWordCallBack
  <2>3. Service!SDeal
    BY <1>3, <2>1, <2>2 DEF Service!SDeal, HelloWordCallBack
  <2>. QED  BY <2>3 DEF Service!SNext
<1>4. CASE HelloWordCallBackThrows
  <2>1. msg_que # <<>>
    BY <1>4 DEF HelloWordCallBackThrows, IInv, QueueInv
  <2>2. Service!SCrash
    BY <1>4, <2>1 DEF Service!SCrash, HelloWordCallBackThrows
  <2>. QED  BY <2>2 DEF Service!SNext
<1>5. CASE WorkerPop
  BY <1>5 DEF WorkerPop, AfterPop
<1>6. ASSUME NEW p \in Producers,
             PostBegin(p) \/ Construct(p) \/ GetInstance(p) \/ PostLock(p)
               \/ PostUnlock(p) \/ PostNotify(p)
      PROVE  UNCHANGED <<Pending, replies, terminated>>
  BY <1>6 DEF PostBegin, Construct, GetInstance, PostLock, PostUnlock, PostNotify, notify_one
<1>7. CASE WorkerLock \/ WorkerCheck \/ WorkerWait \/ SpuriousWakeup \/ WorkerCall
             \/ WorkerExit \/ Stop \/ StopNotify \/ StopJoin
  BY <1>7 DEF WorkerLock, WorkerCheck, WorkerWait, SpuriousWakeup, WorkerCall,
              WorkerExit, Stop, StopNotify, StopJoin, notify_one
<1>8. CASE UNCHANGED vars
  BY <1>8 DEF vars
<1>. QED
  BY <1>1, <1>2, <1>3, <1>4, <1>5, <1>6, <1>7, <1>8
     DEF Next, Post, DealMsg, Destroy, Finished, Service!SNext

\* Whatever the threads do, the sessions see messages dealt with one at a
\* time, in order, each with a callback answered once.
THEOREM Refinement == Spec => Service!SSpec
BY InitRefines, StepRefines, Invariance, PTL DEF Spec, Service!SSpec
=============================================================================
