------------------------- MODULE SessionTableProofs -------------------------
(***************************************************************************)
(* The table of sessions, for any pool, number of sessions and number of   *)
(* messages: types, the sharing out of the io_contexts, and which sessions *)
(* the table holds.                                                        *)
(***************************************************************************)
EXTENDS SessionTable, FiniteSetTheorems, TLAPS

\* The acceptor's session as long as HandleAccept has not started it, and the
\* numbers still to come.
Fresh(i) == i > made \/ (i = made /\ accept \in {"waiting", "ok", "error"})

\* Nothing has happened to a session that has not been started.
FreshInv ==
  \A i \in Ids : Fresh(i) =>
    /\ reading[i] = "none" /\ writing[i] = "none"
    /\ queued[i] = 0 /\ out[i] = 0 /\ fate[i] = "live"
    /\ i \notin sessions /\ i \notin early
    /\ socket[i] = "open" => i = made /\ accept = "ok"

\* The answers do not outnumber the messages, and what is being written is in
\* the send queue.
CountInv ==
  \A i \in Ids : /\ out[i] + queued[i] <= received[i]
                 /\ writing[i] # "none" => out[i] > 0

IInv == TypeOK /\ FreshInv /\ CountInv

\* The steps of a session, and of the acceptor, one by one.
SessionStep(i) ==
  \/ ReadCompletes(i) \/ HandleReadError(i)
  \/ HandleReadMessage(i) \/ HandleReadRefused(i) \/ HandleReadThrows(i)
  \/ Answer(i) \/ WriteCompletes(i) \/ HandleWrite(i) \/ HandleWriteError(i)

LEMMA NextCases ==
  ASSUME [Next]_vars
  PROVE  \/ ~Terminated /\ \/ AcceptCompletes \/ HandleAcceptStart
                            \/ HandleAcceptInsert \/ HandleAcceptError
                            \/ \E i \in Ids : SessionStep(i)
         \/ UNCHANGED vars
BY DEF Next, Peer, HandleRead, Progress, HandleAccept, Quiet, SessionStep

-----------------------------------------------------------------------------
\* There is at least one io_context to run on.
LEMMA ContextsType == Contexts \in Nat \ {0}
BY TableAssumption DEF Contexts

\* A step leaves the number of io_contexts alone: first the acceptor, then the
\* handlers of a session.
LEMMA AcceptKeeps ==
  ASSUME AcceptCompletes \/ HandleAcceptStart \/ HandleAcceptInsert \/ HandleAcceptError
  PROVE  pooled' = pooled /\ Contexts' = Contexts
<1>1. pooled' = pooled
  BY DEF AcceptCompletes, HandleAcceptStart, HandleAcceptInsert, HandleAcceptError, sessionVars
<1>. QED  BY <1>1 DEF Contexts

LEMMA SessionKeeps ==
  ASSUME NEW i \in Ids, SessionStep(i)
  PROVE  UNCHANGED acceptVars /\ pooled' = pooled /\ Contexts' = Contexts
<1>1. UNCHANGED acceptVars
  BY DEF SessionStep, ReadCompletes, HandleReadError, HandleReadMessage,
         HandleReadRefused, HandleReadThrows, Answer, WriteCompletes, HandleWrite,
         HandleWriteError
<1>2. pooled' = pooled
  BY <1>1 DEF acceptVars
<1>. QED  BY <1>1, <1>2 DEF Contexts

LEMMA ContextsStay ==
  ASSUME [Next]_vars
  PROVE  pooled' = pooled /\ Contexts' = Contexts
<1>1. CASE UNCHANGED vars
  <2>1. pooled' = pooled
    BY <1>1 DEF vars
  <2>. QED  BY <2>1 DEF Contexts
<1>. QED  BY <1>1, NextCases, AcceptKeeps, SessionKeeps

\* The constructor's state has the right types.
LEMMA InitTypes == Init => IInv
<1> SUFFICES ASSUME Init PROVE IInv
  OBVIOUS
<1>1. 1 \in Ids /\ MaxSessions \in Nat /\ Contexts \in Nat
  BY TableAssumption, ContextsType DEF Ids
<1>2. next \in 0 .. Contexts - 1 /\ 0 \in 0 .. Contexts - 1
  BY ContextsType DEF Init
<1>3. TypeOK
  BY <1>1, <1>2, TableAssumption DEF Init, TypeOK
<1>4. FreshInv /\ CountInv
  BY TableAssumption DEF Init, FreshInv, CountInv
<1>. QED  BY <1>3, <1>4 DEF IInv

\* StartAccept makes the next session on a valid io_context.
LEMMA StartAcceptTypes ==
  ASSUME TypeOK, StartAccept
  PROVE  /\ made' \in Ids /\ service' \in [Ids -> 0 .. Contexts - 1]
         /\ next' \in 0 .. Contexts - 1
         /\ accept' \in {"waiting", "bound"}
         /\ accept' = "waiting" => made' = made + 1
         /\ accept' = "bound" => made' = made
<1>1. made \in Ids /\ service \in [Ids -> 0 .. Contexts - 1] /\ next \in 0 .. Contexts - 1
  BY DEF TypeOK
<1>2. Contexts \in Nat \ {0} /\ MaxSessions \in Nat
  BY TableAssumption, ContextsType
<1>3. GetIOService \in 0 .. Contexts - 1
  BY <1>1, <1>2 DEF GetIOService
<1>4. made < MaxSessions => made + 1 \in Ids
  BY <1>1, <1>2 DEF Ids
<1>. QED  BY <1>1, <1>3, <1>4 DEF StartAccept

\* The acceptor keeps the types.
LEMMA AcceptStepTypes ==
  ASSUME IInv,
         AcceptCompletes \/ HandleAcceptStart \/ HandleAcceptInsert \/ HandleAcceptError
  PROVE  IInv'
<1> USE DEF IInv
<1>0. made \in Ids /\ Ids \subseteq Nat /\ pooled' = pooled /\ Contexts' = Contexts
  BY AcceptKeeps DEF TypeOK, Ids
<1>1. CASE AcceptCompletes
  <2>1. TypeOK'
    BY <1>0, <1>1 DEF AcceptCompletes, TypeOK
  <2>2. FreshInv'
    BY <1>0, <1>1 DEF AcceptCompletes, TypeOK, FreshInv, Fresh
  <2>3. CountInv'
    BY <1>1 DEF AcceptCompletes, CountInv
  <2>. QED  BY <2>1, <2>2, <2>3
<1>2. CASE HandleAcceptStart
  <2>1. TypeOK'
    BY <1>0, <1>2 DEF HandleAcceptStart, TypeOK
  <2>2. FreshInv'
    BY <1>0, <1>2 DEF HandleAcceptStart, TypeOK, FreshInv, Fresh
  <2>3. CountInv'
    BY <1>2 DEF HandleAcceptStart, CountInv, TypeOK
  <2>. QED  BY <2>1, <2>2, <2>3
<1>3. CASE HandleAcceptInsert
  <2>1. StartAccept /\ accept = "started" /\ sessions' = sessions \cup {made}
        /\ UNCHANGED sessionVars
    BY <1>3 DEF HandleAcceptInsert
  <2>2. TypeOK'
    BY <1>0, <2>1, StartAcceptTypes DEF TypeOK, sessionVars
  <2>3. FreshInv'
    <3> SUFFICES ASSUME NEW i \in Ids, Fresh(i)' PROVE i > made
      BY <1>0, <2>1 DEF FreshInv, sessionVars, Fresh
    <3>. QED  BY <1>0, <2>1, StartAcceptTypes DEF Fresh
  <2>4. CountInv'
    BY <2>1 DEF CountInv, sessionVars
  <2>. QED  BY <2>2, <2>3, <2>4
<1>4. CASE HandleAcceptError
  <2>1. StartAccept /\ accept = "error" /\ UNCHANGED <<sessions, sessionVars>>
    BY <1>4 DEF HandleAcceptError
  <2>2. TypeOK'
    BY <1>0, <2>1, StartAcceptTypes DEF TypeOK, sessionVars
  <2>3. FreshInv'
    <3> SUFFICES ASSUME NEW i \in Ids, Fresh(i)' PROVE i > made
      BY <1>0, <2>1 DEF FreshInv, sessionVars, Fresh
    <3>. QED  BY <1>0, <2>1, StartAcceptTypes DEF Fresh
  <2>4. CountInv'
    BY <2>1 DEF CountInv, sessionVars
  <2>. QED  BY <2>2, <2>3, <2>4
<1>. QED  BY <1>1, <1>2, <1>3, <1>4

\* A session that takes a step has been started.
LEMMA StepNotFresh ==
  ASSUME IInv, NEW i \in Ids, SessionStep(i)
  PROVE  ~Fresh(i)
<1>1. Fresh(i) => reading[i] = "none" /\ writing[i] = "none" /\ queued[i] = 0
  BY DEF IInv, FreshInv
<1>. QED  BY <1>1 DEF SessionStep, ReadCompletes, HandleReadError, HandleReadMessage,
          HandleReadRefused, HandleReadThrows, Answer, WriteCompletes, HandleWrite,
          HandleWriteError

\* So do the handlers of a session.
LEMMA SessionStepTypes ==
  ASSUME IInv, NEW i \in Ids, SessionStep(i)
  PROVE  IInv'
<1>0. made \in Ids /\ Ids \subseteq Nat /\ ~Fresh(i) /\ MaxMsgs \in Nat
  <2>1. ~Fresh(i)
    BY StepNotFresh
  <2>2. MaxMsgs \in Nat
    BY TableAssumption
  <2>. QED  BY <2>1, <2>2 DEF IInv, TypeOK, Ids
<1> USE DEF IInv
<1>1. /\ out[i] \in 0 .. MaxMsgs /\ queued[i] \in 0 .. MaxMsgs
      /\ received[i] \in 0 .. MaxMsgs
      /\ out[i] + queued[i] <= received[i]
      /\ writing[i] # "none" => out[i] > 0
  BY DEF TypeOK, CountInv
<1> USE DEF ClearSession, Close, acceptVars
<1>2. TypeOK'
  <2> USE SessionKeeps
  <2>1. CASE ReadCompletes(i)
    BY <2>1 DEF ReadCompletes, TypeOK
  <2>2. CASE HandleReadError(i)
    BY <2>2 DEF HandleReadError, TypeOK
  <2>3. CASE HandleReadMessage(i)
    BY <1>0, <1>1, <2>3 DEF HandleReadMessage, TypeOK
  <2>4. CASE HandleReadRefused(i)
    BY <2>4 DEF HandleReadRefused, TypeOK
  <2>5. CASE HandleReadThrows(i)
    BY <2>5 DEF HandleReadThrows, TypeOK
  <2>6. CASE Answer(i)
    BY <1>0, <1>1, <2>6 DEF Answer, TypeOK
  <2>7. CASE WriteCompletes(i)
    BY <2>7 DEF WriteCompletes, TypeOK
  <2>8. CASE HandleWrite(i)
    BY <1>0, <1>1, <2>8 DEF HandleWrite, TypeOK
  <2>9. CASE HandleWriteError(i)
    BY <2>9 DEF HandleWriteError, TypeOK
  <2>. QED  BY <2>1, <2>2, <2>3, <2>4, <2>5, <2>6, <2>7, <2>8, <2>9 DEF SessionStep
<1>3. FreshInv'
  <2> SUFFICES ASSUME NEW j \in Ids, Fresh(j)
               PROVE  /\ reading'[j] = reading[j] /\ writing'[j] = writing[j]
                      /\ queued'[j] = queued[j] /\ out'[j] = out[j] /\ fate'[j] = fate[j]
                      /\ j \in sessions' => j \in sessions
                      /\ j \in early' => j \in early
                      /\ socket'[j] = socket[j]
    <3>1. made' = made /\ accept' = accept
      BY DEF SessionStep, ReadCompletes, HandleReadError, HandleReadMessage,
          HandleReadRefused, HandleReadThrows, Answer, WriteCompletes, HandleWrite,
          HandleWriteError
    <3>. QED  BY <3>1 DEF FreshInv, Fresh
  <2>1. i # j
    BY <1>0
  <2>. QED  BY <2>1 DEF TypeOK, SessionStep, ReadCompletes, HandleReadError,
          HandleReadMessage, HandleReadRefused, HandleReadThrows, Answer, WriteCompletes,
          HandleWrite, HandleWriteError
<1>4. CountInv'
  <2> SUFFICES ASSUME NEW j \in Ids
               PROVE  /\ out'[j] + queued'[j] <= received'[j]
                      /\ writing'[j] # "none" => out'[j] > 0
    BY DEF CountInv
  <2>1. CASE j # i
    BY <2>1 DEF TypeOK, CountInv, SessionStep, ReadCompletes, HandleReadError,
          HandleReadMessage, HandleReadRefused, HandleReadThrows, Answer, WriteCompletes,
          HandleWrite, HandleWriteError
  <2>2. CASE j = i
    BY <1>1, <2>2 DEF TypeOK, SessionStep, ReadCompletes, HandleReadError,
          HandleReadMessage, HandleReadRefused, HandleReadThrows, Answer, WriteCompletes,
          HandleWrite, HandleWriteError
  <2>. QED  BY <2>1, <2>2
<1>. QED  BY <1>2, <1>3, <1>4

LEMMA Invariance == IInv /\ [Next]_vars => IInv'
<1> SUFFICES ASSUME IInv, [Next]_vars PROVE IInv'
  OBVIOUS
<1>1. CASE UNCHANGED vars
  BY <1>1, ContextsStay DEF vars, IInv, TypeOK, FreshInv, Fresh, CountInv
<1>. QED  BY <1>1, NextCases, AcceptStepTypes, SessionStepTypes

\* The state of the server keeps its types, with any number of io_contexts,
\* sessions and messages.
THEOREM TypeCorrect == Spec => []TypeOK
<1>1. Spec => []IInv
  BY InitTypes, Invariance, PTL DEF Spec
<1>2. IInv => TypeOK
  BY DEF IInv
<1>. QED  BY <1>1, <1>2, PTL

-----------------------------------------------------------------------------
\* Every session that reads from an open socket is in the table, for any
\* interleaving of acceptor, sessions and logic thread.
THEOREM ReadersRegisteredCorrect == Spec => []ReadersRegistered
<1>1. Init => ReadersRegistered
  BY DEF Init, ReadersRegistered
<1>2. IInv /\ ReadersRegistered /\ [Next]_vars => ReadersRegistered'
  <2> SUFFICES ASSUME IInv, ReadersRegistered, [Next]_vars PROVE ReadersRegistered'
    OBVIOUS
  <2>0. made \in Ids /\ Ids \subseteq Nat
    BY DEF IInv, TypeOK, Ids
  <2>1. CASE AcceptCompletes
    BY <2>0, <2>1 DEF AcceptCompletes, IInv, TypeOK, FreshInv, Fresh, ReadersRegistered
  <2>2. CASE HandleAcceptStart
    BY <2>0, <2>2 DEF HandleAcceptStart, IInv, TypeOK, ReadersRegistered
  <2>3. CASE HandleAcceptInsert
    BY <2>0, <2>3 DEF HandleAcceptInsert, sessionVars, ReadersRegistered
  <2>4. CASE HandleAcceptError
    BY <2>0, <2>4 DEF HandleAcceptError, sessionVars, ReadersRegistered
  <2>5. ASSUME NEW i \in Ids, SessionStep(i) PROVE ReadersRegistered'
    <3> SUFFICES ASSUME NEW j \in Ids, reading'[j] # "none", socket'[j] = "open"
                 PROVE  j \in sessions' \/ (j = made' /\ accept' = "started")
      BY DEF ReadersRegistered
    <3>1. reading[j] # "none" /\ socket[j] = "open" =>
            j \in sessions \/ (j = made /\ accept = "started")
      BY DEF ReadersRegistered
    <3> USE DEF Close, ClearSession, acceptVars
    <3>2. CASE j # i
      BY <2>5, <3>1, <3>2 DEF IInv, TypeOK, SessionStep, ReadCompletes, HandleReadError,
          HandleReadMessage, HandleReadRefused, HandleReadThrows, Answer, WriteCompletes,
          HandleWrite, HandleWriteError
    <3>3. CASE j = i
      BY <2>5, <3>1, <3>3 DEF IInv, TypeOK, SessionStep, ReadCompletes, HandleReadError,
          HandleReadMessage, HandleReadRefused, HandleReadThrows, Answer, WriteCompletes,
          HandleWrite, HandleWriteError
    <3>. QED  BY <3>2, <3>3
  <2>6. CASE UNCHANGED vars
    BY <2>6 DEF vars, ReadersRegistered
  <2>. QED  BY <2>1, <2>2, <2>3, <2>4, <2>5, <2>6, NextCases
<1>. QED  BY <1>1, <1>2, InitTypes, Invariance, PTL DEF Spec

\* A session that has ended before HandleAccept is through with it has left its
\* mark, and is one of a pool.
EarlyInv ==
  /\ DeadInTable
  /\ accept = "started" /\ fate[made] # "live" =>
       pooled /\ (fate[made] = "threw" \/ made \in early)

\* The table never holds a session that has ended, but for those whose handler
\* threw and, with a pool, those that ended before they were inserted.
THEOREM DeadInTableCorrect == Spec => []DeadInTable
<1>1. Init => EarlyInv
  BY DEF Init, EarlyInv, DeadInTable
<1>2. IInv /\ EarlyInv /\ [Next]_vars => EarlyInv'
  <2> SUFFICES ASSUME IInv, EarlyInv, [Next]_vars PROVE EarlyInv'
    OBVIOUS
  <2>0. made \in Ids /\ Ids \subseteq Nat /\ pooled' = pooled
    BY ContextsStay DEF IInv, TypeOK, Ids
  <2> USE DEF EarlyInv, DeadInTable
  <2>1. CASE AcceptCompletes
    BY <2>0, <2>1 DEF AcceptCompletes
  <2>2. CASE HandleAcceptStart
    <3>1. fate[made] = "live"
      BY <2>0, <2>2 DEF HandleAcceptStart, IInv, FreshInv, Fresh
    <3>. QED  BY <2>0, <2>2, <3>1 DEF HandleAcceptStart
  <2>3. CASE HandleAcceptInsert
    <3>1. accept' # "started"
      BY <2>3, StartAcceptTypes DEF HandleAcceptInsert, IInv
    <3>. QED  BY <2>0, <2>3, <3>1 DEF HandleAcceptInsert, sessionVars
  <2>4. CASE HandleAcceptError
    <3>1. accept' # "started"
      BY <2>4, StartAcceptTypes DEF HandleAcceptError, IInv
    <3>. QED  BY <2>0, <2>4, <3>1 DEF HandleAcceptError, sessionVars
  <2>5. ASSUME NEW i \in Ids, SessionStep(i) PROVE EarlyInv'
    <3> USE DEF Close, ClearSession, acceptVars
    <3>1. ASSUME NEW j \in Ids, j \in sessions', fate'[j] # "live"
          PROVE  fate'[j] = "threw" \/ (pooled' /\ j \in early')
      BY <2>0, <2>5, <3>1 DEF IInv, TypeOK, SessionStep, ReadCompletes, HandleReadError,
          HandleReadMessage, HandleReadRefused, HandleReadThrows, Answer, WriteCompletes,
          HandleWrite, HandleWriteError
    <3>2. sessions' \subseteq Ids
      BY <2>5, SessionStepTypes DEF IInv, TypeOK
    <3>3. ASSUME accept' = "started", fate'[made'] # "live"
          PROVE  pooled' /\ (fate'[made'] = "threw" \/ made' \in early')
      BY <2>0, <2>5, <3>3 DEF MayRun, IInv, TypeOK, SessionStep, ReadCompletes, HandleReadError,
          HandleReadMessage, HandleReadRefused, HandleReadThrows, Answer, WriteCompletes,
          HandleWrite, HandleWriteError
    <3>. QED  BY <3>1, <3>2, <3>3
  <2>6. CASE UNCHANGED vars
    BY <2>6 DEF vars
  <2>. QED  BY <2>1, <2>2, <2>3, <2>4, <2>5, <2>6, NextCases
<1>3. EarlyInv => DeadInTable
  BY DEF EarlyInv
<1>. QED  BY <1>1, <1>2, <1>3, InitTypes, Invariance, PTL DEF Spec

-----------------------------------------------------------------------------
(* The io_contexts in front of next have one session more than the others. *)
Of(m, s, c) == {i \in 1 .. m : s[i] = c}

BalanceInv ==
  \E q \in Nat : \A c \in 0 .. Contexts - 1 :
    Load(c) = IF c < next THEN q + 1 ELSE q

\* The sessions of an io_context are finitely many.
LEMMA LoadType ==
  ASSUME NEW m \in Nat, NEW s, NEW c
  PROVE  IsFiniteSet(Of(m, s, c)) /\ Cardinality(Of(m, s, c)) \in Nat
<1>1. IsFiniteSet(1 .. m)
  BY FS_Interval
<1>2. Of(m, s, c) \in SUBSET (1 .. m)
  BY DEF Of
<1>3. IsFiniteSet(Of(m, s, c))
  BY <1>1, <1>2, FS_Subset
<1>. QED  BY <1>3, FS_CardinalityType

\* A new session is one more for its io_context.
LEMMA LoadStep ==
  ASSUME NEW m \in Nat, NEW s, NEW t, NEW c,
         \A i \in 1 .. m : t[i] = s[i]
  PROVE  Cardinality(Of(m + 1, t, c)) =
           IF t[m + 1] = c THEN Cardinality(Of(m, s, c)) + 1 ELSE Cardinality(Of(m, s, c))
<1>0. IsFiniteSet(Of(m, s, c))
  BY LoadType
<1>1. IsFiniteSet(Of(m, s, c)) /\ m + 1 \notin Of(m, s, c)
  <2>1. m + 1 \notin 1 .. m
    OBVIOUS
  <2>. QED  BY <1>0, <2>1 DEF Of
<1>2. CASE t[m + 1] = c
  <2>1. Of(m + 1, t, c) = Of(m, s, c) \cup {m + 1}
    BY <1>2 DEF Of
  <2>. QED  BY <1>1, <1>2, <2>1, FS_AddElement
<1>3. CASE t[m + 1] # c
  <2>1. Of(m + 1, t, c) = Of(m, s, c)
    BY <1>3 DEF Of
  <2>. QED  BY <1>3, <2>1
<1>. QED  BY <1>2, <1>3

\* Whenever StartAccept makes a session, the shares stay as BalanceInv says.
LEMMA BalanceStep ==
  ASSUME TypeOK, BalanceInv, StartAccept, Contexts' = Contexts
  PROVE  BalanceInv'
<1>0. made \in Nat /\ next \in Nat /\ next < Contexts /\ Contexts \in Nat
  BY ContextsType DEF TypeOK, Ids
<1>1. CASE made < MaxSessions
  <2>1. /\ made' = made + 1 /\ made + 1 \in Ids
        /\ service' = [service EXCEPT ![made + 1] = next]
        /\ next' = IF next + 1 = Contexts THEN 0 ELSE next + 1
    BY <1>0, <1>1, TableAssumption DEF StartAccept, GetIOService, Ids
  <2>2. service'[made + 1] = next /\ \A i \in 1 .. made : service'[i] = service[i]
    BY <1>0, <2>1 DEF TypeOK, Ids
  <2>3. ASSUME NEW c \in 0 .. Contexts - 1
        PROVE  /\ Load(c) \in Nat
               /\ Load(c)' = IF next = c THEN Load(c) + 1 ELSE Load(c)
    <3>1. Load(c) = Cardinality(Of(made, service, c))
      BY DEF Load, Of
    <3>2. Load(c)' = Cardinality(Of(made + 1, service', c))
      BY <2>1 DEF Load, Of
    <3>. QED  BY <1>0, <2>2, <3>1, <3>2, LoadType, LoadStep
  <2>4. PICK q \in Nat : \A c \in 0 .. Contexts - 1 : Load(c) = IF c < next THEN q + 1 ELSE q
    BY DEF BalanceInv
  <2> HIDE DEF Load
  <2>5. CASE next + 1 = Contexts
    <3>1. \A c \in 0 .. Contexts - 1 : Load(c)' = q + 1
      BY <1>0, <2>3, <2>4, <2>5
    <3>2. next' = 0 /\ q + 1 \in Nat
      BY <2>1, <2>5
    <3>. QED  BY <3>1, <3>2 DEF BalanceInv
  <2>6. CASE next + 1 # Contexts
    <3>1. \A c \in 0 .. Contexts - 1 : Load(c)' = IF c < next + 1 THEN q + 1 ELSE q
      BY <1>0, <2>3, <2>4, <2>6
    <3>2. next' = next + 1
      BY <2>1, <2>6
    <3>. QED  BY <3>1, <3>2 DEF BalanceInv
  <2>. QED  BY <2>5, <2>6
<1>2. CASE ~(made < MaxSessions)
  BY <1>2 DEF StartAccept, BalanceInv, Load
<1>. QED  BY <1>1, <1>2

\* With any number of io_contexts and sessions, no io_context gets two sessions
\* more than another one.
THEOREM BalancedCorrect == Spec => []Balanced
<1>1. Init => BalanceInv
  <2> SUFFICES ASSUME Init PROVE BalanceInv
    OBVIOUS
  <2>1. Contexts \in Nat \ {0} /\ 1 \in Ids
    BY TableAssumption, ContextsType DEF Ids
  <2>2. ASSUME NEW c \in 0 .. Contexts - 1 PROVE Load(c) = IF c = 0 THEN 1 ELSE 0
    <3>1. Load(c) = Cardinality(Of(0 + 1, service, c)) /\ service[0 + 1] = 0
      BY <2>1 DEF Init, Load, Of
    <3>2. Of(0, service, c) = {}
      BY DEF Of
    <3>3. Cardinality(Of(0, service, c)) = 0
      BY <3>2, FS_EmptySet
    <3>4. Cardinality(Of(0 + 1, service, c)) =
            IF service[0 + 1] = c THEN Cardinality(Of(0, service, c)) + 1
                                  ELSE Cardinality(Of(0, service, c))
      <4>1. 0 \in Nat /\ \A i \in 1 .. 0 : service[i] = service[i]
        OBVIOUS
      <4> HIDE DEF Of
      <4>. QED  BY <4>1, LoadStep
    <3>. QED  BY <3>1, <3>3, <3>4
  <2>3. CASE Contexts = 1
    <3>1. next = 0 /\ \A c \in 0 .. Contexts - 1 : Load(c) = 1
      BY <2>2, <2>3 DEF Init
    <3>. QED  BY <3>1 DEF BalanceInv
  <2>4. CASE Contexts # 1
    <3>1. next = 1 /\ \A c \in 0 .. Contexts - 1 : Load(c) = IF c < 1 THEN 0 + 1 ELSE 0
      BY <2>1, <2>2, <2>4 DEF Init
    <3>. QED  BY <3>1 DEF BalanceInv
  <2>. QED  BY <2>3, <2>4
<1>2. IInv /\ BalanceInv /\ [Next]_vars => BalanceInv'
  <2> SUFFICES ASSUME IInv, BalanceInv, [Next]_vars PROVE BalanceInv'
    OBVIOUS
  <2>1. ASSUME UNCHANGED <<made, service, next>> PROVE BalanceInv'
    BY <2>1, ContextsStay DEF BalanceInv, Load
  <2>2. CASE AcceptCompletes \/ HandleAcceptStart \/ UNCHANGED vars
    BY <2>1, <2>2 DEF AcceptCompletes, HandleAcceptStart, vars
  <2>3. CASE HandleAcceptInsert \/ HandleAcceptError
    BY <2>3, BalanceStep, ContextsStay DEF HandleAcceptInsert, HandleAcceptError, IInv
  <2>4. ASSUME NEW i \in Ids, SessionStep(i) PROVE BalanceInv'
    <3>1. UNCHANGED acceptVars
      BY <2>4 DEF SessionStep, ReadCompletes, HandleReadError, HandleReadMessage,
          HandleReadRefused, HandleReadThrows, Answer, WriteCompletes, HandleWrite,
          HandleWriteError
    <3>. QED  BY <2>1, <3>1 DEF acceptVars
  <2>. QED  BY <2>2, <2>3, <2>4, NextCases
<1>3. IInv /\ BalanceInv => Balanced
  <2> SUFFICES ASSUME IInv, BalanceInv, NEW c \in 0 .. Contexts - 1, NEW d \in 0 .. Contexts - 1
               PROVE  Load(c) <= Load(d) + 1
    BY DEF Balanced
  <2>1. PICK q \in Nat : \A e \in 0 .. Contexts - 1 : Load(e) = IF e < next THEN q + 1 ELSE q
    BY DEF BalanceInv
  <2> HIDE DEF Load
  <2>2. Load(c) \in {q, q + 1} /\ Load(d) \in {q, q + 1}
    BY <2>1
  <2>. QED  BY <2>2
<1>. QED  BY <1>1, <1>2, <1>3, InitTypes, Invariance, PTL DEF Spec
=============================================================================
