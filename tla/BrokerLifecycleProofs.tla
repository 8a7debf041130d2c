----------------------- MODULE BrokerLifecycleProofs -----------------------
(***************************************************************************)
(* What TLAPS proves of BrokerLifecycle, for any number of brig processes, *)
(* broker processes and sandboxes, with signals, crashes, hand-started     *)
(* brokers and interrupted brigs.                                          *)
(***************************************************************************)
EXTENDS BrokerLifecycle, TLAPS

\* The locals of a call keep their type, whichever field a step sets.
LEMMA OpFields ==
    ASSUME NEW o \in OpSet
    PROVE /\ \A id \in Ids \cup {Nobody} : [o EXCEPT !.id = id] \in OpSet
          /\ \A n \in 0..Attempts : [o EXCEPT !.attempt = n] \in OpSet
          /\ \A x \in BOOLEAN : [o EXCEPT !.started = x] \in OpSet
          /\ \A b \in Brokers \cup {Nobody} : [o EXCEPT !.child = b] \in OpSet
          /\ \A T \in SUBSET Ids : [o EXCEPT !.todo = T] \in OpSet
BY DEF OpSet

LEMMA NoOpType == NoOp \in OpSet
BY LifecycleAssumption DEF NoOp, OpSet

\* The part of the type invariant that is about the calls.
CallsOK ==
    /\ pc \in [Clients -> Labels]
    /\ op \in [Clients -> OpSet]
    /\ \A c \in Clients : pc[c] \in Named => op[c].id \in Ids

\* A step of client c that goes to a label with well-typed locals o, which
\* name a sandbox if the label is of a call that does, keeps CallsOK.
LEMMA CallsStep ==
    ASSUME TypeOK, NEW c \in Clients, NEW l \in Labels, NEW o \in OpSet,
           l \in Named => o.id \in Ids,
           pc' = [pc EXCEPT ![c] = l], op' = [op EXCEPT ![c] = o]
    PROVE CallsOK'
BY DEF TypeOK, CallsOK

\* A call that returns leaves well-typed locals behind.
LEMMA ReturnType ==
    ASSUME TypeOK, NEW c \in Clients, return(c)
    PROVE CallsOK'
<1>1. "idle" \in Labels /\ "idle" \notin Named
  BY DEF Labels, Named
<1> QED
  BY <1>1, NoOpType, CallsStep DEF return, goto

\* No step changes what may befall the processes.
LEMMA EnvStays == [Next]_vars => env' = env
<1> SUFFICES ASSUME [Next]_vars PROVE env' = env
  OBVIOUS
<1>1. ASSUME NEW b \in Brokers,
             HandStart(b) \/ NewServerFails(b) \/ Signal(b) \/ Crash(b) \/ BrokerStep(b)
      PROVE env' = env
  BY <1>1 DEF HandStart, NewServerFails, Signal, Crash, BrokerStep, takeLock, Listen,
     writePID, ShutControl, ShutRoutes, RemoveFiles, Exit
<1>2. ASSUME NEW c \in Clients, ClientStep(c)
      PROVE env' = env
  BY <1>2 DEF ClientStep, lockStart, LockTimeout, ensure, Found, NotAnswering, Start,
     Started, StartFails, StartTimeout, Add, addSandbox, AddBroken, waitExit,
     removeSandbox, Status, RemoveEach, stopIfIdle
<1>3. ASSUME NEW c \in Clients,
             ForgetAll(c) \/ Interrupt(c) \/ \E id \in Ids : Register(c, id) \/ Forget(c, id)
      PROVE env' = env
  BY <1>3 DEF ForgetAll, Interrupt, Register, Forget
<1> QED
  BY <1>1, <1>2, <1>3 DEF Next, vars

\* Every step of a broker process keeps the types.
LEMMA BrokerType ==
    ASSUME TypeOK, NEW b \in Brokers, UNCHANGED env,
           \/ HandStart(b) \/ BrokerStep(b) \/ NewServerFails(b)
           \/ Signal(b) \/ Crash(b)
    PROVE TypeOK'
<1> USE DEF TypeOK, files, brokerVars, clientVars, Phases
<1>1. CASE HandStart(b)
  BY <1>1 DEF HandStart, spawned
<1>2. CASE takeLock(b)
  BY <1>2 DEF takeLock
<1>3. CASE Listen(b) \/ writePID(b)
  BY <1>3 DEF Listen, writePID
<1>4. CASE ShutControl(b) \/ ShutRoutes(b) \/ RemoveFiles(b)
  BY <1>4 DEF ShutControl, ShutRoutes, RemoveFiles
<1>5. CASE Exit(b) \/ Crash(b)
  BY <1>5 DEF Exit, Crash, gone
<1>6. CASE NewServerFails(b) \/ Signal(b)
  BY <1>6 DEF NewServerFails, Signal
<1> QED
  BY <1>1, <1>2, <1>3, <1>4, <1>5, <1>6 DEF BrokerStep

\* A step that keeps the locals moves a call that names a sandbox to any label.
LEMMA MoveType ==
    ASSUME TypeOK, NEW c \in Clients, NEW l \in Labels,
           l \in Named => pc[c] \in Named,
           goto(c, l), UNCHANGED op
    PROVE CallsOK'
BY DEF TypeOK, CallsOK, goto

\* Every step of a call keeps the types.
LEMMA ClientType ==
    ASSUME TypeOK, NEW c \in Clients, UNCHANGED env,
           \/ \E id \in Ids : Register(c, id) \/ Forget(c, id)
           \/ ForgetAll(c) \/ ClientStep(c) \/ Interrupt(c)
    PROVE TypeOK'
<1> USE DEF files, brokerVars, clientVars
<1>o. op[c] \in OpSet
  BY DEF TypeOK
<1>f. op[c].id \in Ids \cup {Nobody} /\ op[c].todo \in SUBSET Ids
  BY <1>o DEF OpSet
<1>n. pc[c] \in Named => op[c].id \in Ids
  BY DEF TypeOK
<1>c. ASSUME CallsOK', UNCHANGED <<brokerVars, live>>, startLock' \in Clients \cup {Nobody}
      PROVE TypeOK'
  BY <1>c DEF TypeOK, CallsOK
<1>1. ASSUME NEW id \in Ids, Register(c, id) \/ Forget(c, id)
      PROVE TypeOK'
  <2>1. 1 \in 0..Attempts
    BY LifecycleAssumption
  <2>2. /\ [NoOp EXCEPT !.id = id] \in OpSet
        /\ [NoOp EXCEPT !.id = id].id \in Ids
    BY NoOpType, OpFields DEF NoOp
  <2>3. /\ [NoOp EXCEPT !.id = id, !.attempt = 1] \in OpSet
        /\ [NoOp EXCEPT !.id = id, !.attempt = 1].id \in Ids
    BY <2>1, LifecycleAssumption DEF NoOp, OpSet
  <2>4. CallsOK'
    BY <1>1, <2>2, <2>3, CallsStep DEF Register, Forget, goto, Labels
  <2> QED
    BY <1>1, <2>4, <1>c DEF Register, Forget, TypeOK
<1>2. CASE ForgetAll(c) \/ lockStart(c) \/ ensure(c) \/ Found(c)
  <2>1. CallsOK'
    BY <1>2, MoveType DEF ForgetAll, lockStart, ensure, Found, Labels, Named
  <2> QED
    BY <1>2, <2>1, <1>c DEF ForgetAll, lockStart, ensure, Found, TypeOK, unlock
<1>3. CASE LockTimeout(c) \/ StartFails(c) \/ Interrupt(c)
  BY <1>3, <1>c, ReturnType
     DEF LockTimeout, StartFails, Interrupt, TypeOK, unlock
<1>4. CASE NotAnswering(c)
  <2>1. CallsOK'
    BY <1>4, ReturnType, MoveType DEF NotAnswering, Labels, Named
  <2> QED
    BY <1>4, <2>1, <1>c DEF NotAnswering, TypeOK, unlock
<1>5. CASE Start(c)
  <2>1. PICK b \in Brokers : spawned(b) /\ op' = [op EXCEPT ![c].child = b]
    BY <1>5 DEF Start
  <2>2. /\ [op[c] EXCEPT !.child = b] \in OpSet
        /\ [op[c] EXCEPT !.child = b].id = op[c].id
    BY <1>o, OpFields DEF OpSet
  <2>3. pc[c] \in Named /\ "await" \in Labels
    BY <1>5 DEF Start, Named, Labels
  <2>4. CallsOK'
    BY <1>5, <2>1, <2>2, <2>3, <1>n, CallsStep DEF Start, goto
  <2> QED
    BY <1>5, <2>1, <2>4 DEF Start, spawned, TypeOK, CallsOK, Phases
<1>6. CASE Started(c)
  <2> DEFINE o == [op[c] EXCEPT !.started = TRUE, !.child = Nobody]
  <2>1. o \in OpSet /\ o.id = op[c].id
    BY <1>o DEF OpSet
  <2>2. op' = [op EXCEPT ![c] = o]
    BY <1>6 DEF Started, TypeOK
  <2>3. pc[c] \in Named /\ "add" \in Labels
    BY <1>6 DEF Started, Named, Labels
  <2> HIDE DEF o
  <2>4. CallsOK'
    BY <1>6, <2>1, <2>2, <2>3, <1>n, CallsStep DEF Started, goto
  <2> QED
    BY <1>6, <2>4, <1>c DEF Started, TypeOK, unlock
<1>7. CASE StartTimeout(c)
  <2>1. CallsOK'
    BY <1>7, ReturnType DEF StartTimeout
  <2> QED
    BY <1>7, <2>1 DEF StartTimeout, TypeOK, CallsOK, gone, unlock, Phases
\* The locals with their child set.
<1>h. ASSUME NEW b \in Brokers \cup {Nobody}, NEW l \in Labels, pc[c] \in Named,
             goto(c, l), op' = [op EXCEPT ![c].child = b]
      PROVE CallsOK'
  <2>2. /\ [op[c] EXCEPT !.child = b] \in OpSet
        /\ [op[c] EXCEPT !.child = b].id = op[c].id
    BY <1>o, OpFields DEF OpSet
  <2> QED
    BY <1>h, <2>2, <1>n, CallsStep DEF goto
<1>8. CASE Add(c)
  <2>1. CallsOK'
    BY <1>8, <1>h, MoveType DEF Add, Labels, Named
  <2> QED
    BY <1>8, <2>1, <1>c DEF Add, TypeOK
<1>9. ASSUME refused(c), pc[c] \in Named
      PROVE CallsOK'
  BY <1>9, <1>h, ReturnType DEF refused, Labels
<1>10. CASE addSandbox(c)
  <2>1. pc[c] \in Named /\ "exit" \in Labels
    BY <1>10 DEF addSandbox, Named, Labels
  <2>2. CallsOK'
    BY <1>10, <2>1, <1>9, <1>h, ReturnType DEF addSandbox
  <2>3. op[c].id \in Ids
    BY <2>1, <1>n
  <2>4. /\ sandboxes' \in [Brokers -> SUBSET Ids]
        /\ live' \subseteq Ids
    BY <1>10, <2>3 DEF addSandbox, TypeOK
  <2> QED
    BY <1>10, <2>2, <2>4 DEF addSandbox, TypeOK, CallsOK
<1>11. CASE AddBroken(c)
  <2>1. pc[c] \in Named
    BY <1>11 DEF AddBroken, Named, Labels
  <2> QED
    BY <1>11, <2>1, <1>9, <1>c DEF AddBroken, TypeOK
<1>12. CASE waitExit(c)
  <2> DEFINE o == [op[c] EXCEPT !.attempt = @ + 1, !.started = FALSE]
  <2>1. CASE op[c].attempt < Attempts
    <3>1. op[c].attempt + 1 \in 0..Attempts
      BY <1>o, <2>1, LifecycleAssumption DEF OpSet
    <3>2. o \in OpSet /\ o.id = op[c].id
      BY <1>o, <3>1 DEF OpSet
    <3>a. ~(op[c].attempt >= Attempts)
      BY <1>o, <2>1, LifecycleAssumption DEF OpSet
    <3>b. /\ goto(c, "lock")
          /\ op' = [op EXCEPT ![c].attempt = @ + 1, ![c].started = FALSE]
      BY <1>12, <3>a DEF waitExit
    <3>3. goto(c, "lock") /\ op' = [op EXCEPT ![c] = o]
      BY <3>b, <1>o DEF TypeOK
    <3>4. pc[c] \in Named /\ "lock" \in Labels
      BY <1>12 DEF waitExit, Named, Labels
    <3> HIDE DEF o
    <3>5. CallsOK'
      BY <3>2, <3>3, <3>4, <1>n, CallsStep DEF goto
    <3> QED
      BY <1>12, <3>5, <1>c DEF waitExit, TypeOK
  <2>2. CASE ~(op[c].attempt < Attempts)
    BY <1>12, <2>2, ReturnType, <1>c DEF waitExit, TypeOK
  <2> QED
    BY <2>1, <2>2
<1>13. CASE removeSandbox(c)
  <2>1. CallsOK'
    BY <1>13, ReturnType, MoveType DEF removeSandbox, Named, Labels
  <2> QED
    BY <1>13, <2>1 DEF removeSandbox, removed, TypeOK, CallsOK
\* The locals with their todo set.
<1>t. ASSUME NEW T \in SUBSET Ids, NEW l \in Labels \ Named,
             pc' = [pc EXCEPT ![c] = l], op' = [op EXCEPT ![c].todo = T]
      PROVE CallsOK'
  BY <1>t, <1>o, OpFields, CallsStep
<1>14. CASE Status(c)
  <2>1. CallsOK'
    BY <1>14, <1>t, ReturnType DEF Status, goto, Named, Labels, TypeOK
  <2> QED
    BY <1>14, <2>1, <1>c DEF Status, TypeOK
<1>15. CASE RemoveEach(c)
  <2>0. pc = [pc EXCEPT ![c] = "removeAll"]
    BY <1>15 DEF RemoveEach, TypeOK
  <2>1. "removeAll" \in Labels \ Named /\ "stop" \in Labels \ Named
    BY DEF Labels, Named
  <2>2. CallsOK'
    <3>1. ASSUME NEW id, op' = [op EXCEPT ![c].todo = @ \ {id}], UNCHANGED pc
          PROVE CallsOK'
      BY <3>1, <1>t, <1>f, <2>0, <2>1
    <3> QED
      BY <1>15, <3>1, <2>1, ReturnType, MoveType DEF RemoveEach
  <2>3. /\ sandboxes' \in [Brokers -> SUBSET Ids]
        /\ live' \subseteq Ids
    BY <1>15 DEF RemoveEach, removed, TypeOK
  <2> QED
    BY <1>15, <2>2, <2>3 DEF RemoveEach, TypeOK, CallsOK
<1>16. CASE stopIfIdle(c)
  <2>1. CallsOK'
    BY <1>16, ReturnType DEF stopIfIdle
  <2> QED
    BY <1>16, <2>1 DEF stopIfIdle, stopRequest, TypeOK, CallsOK
<1> QED
  BY <1>1, <1>2, <1>3, <1>4, <1>5, <1>6, <1>7, <1>8, <1>10, <1>11, <1>12,
     <1>13, <1>14, <1>15, <1>16 DEF ClientStep

-----------------------------------------------------------------------------
\* Type correctness, of every call of brig and every step of every broker.
THEOREM TypeCorrect == Spec => []TypeOK
<1>1. Init => TypeOK
  BY LifecycleAssumption, NoOpType DEF Init, TypeOK, Phases, Labels, Named
<1>2. ASSUME TypeOK, [Next]_vars
      PROVE TypeOK'
  <2>1. CASE UNCHANGED vars
    BY <1>2, <2>1 DEF vars, brokerVars, clientVars, files, TypeOK
  <2> QED
    BY <1>2, <2>1, EnvStays, BrokerType, ClientType DEF Next
<1> QED
  BY <1>1, <1>2, PTL DEF Spec

\* The clients never touch the files or the phase of a broker, except to kill
\* the child they started.
LEMMA ClientFiles ==
    ASSUME NEW c \in Clients,
           \/ \E id \in Ids : Register(c, id) \/ Forget(c, id)
           \/ ForgetAll(c) \/ ClientStep(c) \/ Interrupt(c)
    PROVE \/ UNCHANGED <<phase, files>>
          \/ gone(op[c].child)
          \/ \E b \in Brokers : free(b) /\ spawned(b) /\ UNCHANGED files
<1> USE DEF files, brokerVars
<1>1. CASE StartTimeout(c)
  BY <1>1 DEF StartTimeout
<1>2. CASE Start(c)
  BY <1>2 DEF Start
<1>3. CASE \/ \E id \in Ids : Register(c, id) \/ Forget(c, id)
           \/ ForgetAll(c) \/ Interrupt(c)
  BY <1>3 DEF Register, Forget, ForgetAll, Interrupt
<1>4. CASE \/ lockStart(c) \/ LockTimeout(c) \/ ensure(c) \/ Found(c)
           \/ NotAnswering(c) \/ Started(c) \/ StartFails(c)
  BY <1>4 DEF lockStart, LockTimeout, ensure, Found, NotAnswering, Started, StartFails
<1>5. CASE \/ Add(c) \/ addSandbox(c) \/ AddBroken(c) \/ waitExit(c)
           \/ removeSandbox(c) \/ Status(c) \/ RemoveEach(c) \/ stopIfIdle(c)
  BY <1>5 DEF Add, addSandbox, AddBroken, waitExit, removeSandbox, Status,
              RemoveEach, stopIfIdle
<1> QED
  BY <1>1, <1>2, <1>3, <1>4, <1>5 DEF ClientStep

\* A process that is gone owns nothing, and the others keep what they own.
LEMMA GoneOwns ==
    ASSUME TypeOK, ServingOwnsDir, NEW b \in Brokers \cup {Nobody}, gone(b)
    PROVE ServingOwnsDir'
<1>1. Nobody \notin Brokers
  BY LifecycleAssumption
<1> QED
  BY <1>1 DEF TypeOK, ServingOwnsDir, gone, Holding

\* A new process owns nothing yet.
LEMMA SpawnOwns ==
    ASSUME TypeOK, ServingOwnsDir, NEW b \in Brokers, spawned(b), UNCHANGED files
    PROVE ServingOwnsDir'
BY DEF TypeOK, ServingOwnsDir, spawned, Holding, files

\* Every step keeps the directory with the broker that serves.
LEMMA OwnsStep ==
    ASSUME TypeOK, ServingOwnsDir, Next
    PROVE ServingOwnsDir'
<1>0. Nobody \notin Brokers
  BY LifecycleAssumption
<1>1. ASSUME NEW b \in Brokers, HandStart(b)
      PROVE ServingOwnsDir'
  BY <1>1, SpawnOwns DEF HandStart
<1>2. ASSUME NEW b \in Brokers, takeLock(b)
      PROVE ServingOwnsDir'
  BY <1>0, <1>2 DEF takeLock, TypeOK, ServingOwnsDir, Holding
<1>3. ASSUME NEW b \in Brokers, Listen(b) \/ writePID(b)
      PROVE ServingOwnsDir'
  BY <1>3 DEF Listen, writePID, TypeOK, ServingOwnsDir, Holding
<1>4. ASSUME NEW b \in Brokers,
             ShutControl(b) \/ ShutRoutes(b) \/ RemoveFiles(b) \/ NewServerFails(b)
      PROVE ServingOwnsDir'
  BY <1>4 DEF ShutControl, ShutRoutes, RemoveFiles, NewServerFails, TypeOK,
              ServingOwnsDir, Holding, files
<1>5. ASSUME NEW b \in Brokers, Exit(b) \/ Crash(b)
      PROVE ServingOwnsDir'
  BY <1>5, GoneOwns DEF Exit, Crash
<1>6. ASSUME NEW b \in Brokers, Signal(b)
      PROVE ServingOwnsDir'
  BY <1>6 DEF Signal, files, ServingOwnsDir
<1>7. ASSUME NEW c \in Clients,
             \/ \E id \in Ids : Register(c, id) \/ Forget(c, id)
             \/ ForgetAll(c) \/ ClientStep(c) \/ Interrupt(c)
      PROVE ServingOwnsDir'
  <2>1. op[c].child \in Brokers \cup {Nobody}
    BY DEF TypeOK, OpSet
  <2>2. ASSUME UNCHANGED <<phase, files>>
        PROVE ServingOwnsDir'
    BY <2>2 DEF ServingOwnsDir, files
  <2> QED
    BY <1>7, <2>1, <2>2, ClientFiles, GoneOwns, SpawnOwns
<1> QED
  BY <1>1, <1>2, <1>3, <1>4, <1>5, <1>6, <1>7 DEF Next, BrokerStep

\* Every step of a broker keeps its sandboxes served.
LEMMA BrokerServes ==
    ASSUME TypeOK, RegisteredServed, NEW b \in Brokers,
           \/ HandStart(b) \/ BrokerStep(b) \/ NewServerFails(b)
           \/ Signal(b) \/ Crash(b)
    PROVE RegisteredServed'
<1> USE DEF TypeOK, RegisteredServed
<1>1. CASE HandStart(b)
  BY <1>1 DEF HandStart, spawned
<1>2. CASE takeLock(b) \/ Listen(b) \/ writePID(b)
  BY <1>2 DEF takeLock, Listen, writePID
<1>3. CASE ShutControl(b) \/ ShutRoutes(b) \/ RemoveFiles(b)
  BY <1>3 DEF ShutControl, ShutRoutes, RemoveFiles
<1>4. CASE Exit(b) \/ Crash(b)
  BY <1>4 DEF Exit, Crash, gone
<1>5. CASE NewServerFails(b) \/ Signal(b)
  BY <1>5 DEF NewServerFails, Signal
<1> QED
  BY <1>1, <1>2, <1>3, <1>4, <1>5 DEF BrokerStep

\* Every step of a call keeps the sandboxes of every broker served.
LEMMA ClientServes ==
    ASSUME TypeOK, RegisteredServed, NEW c \in Clients,
           \/ \E id \in Ids : Register(c, id) \/ Forget(c, id)
           \/ ForgetAll(c) \/ ClientStep(c) \/ Interrupt(c)
    PROVE RegisteredServed'
<1> USE DEF brokerVars, files
<1>0. ASSUME UNCHANGED <<phase, stop, sandboxes>>
      PROVE RegisteredServed'
  BY <1>0 DEF RegisteredServed
<1>1. CASE \/ \E id \in Ids : Register(c, id) \/ Forget(c, id)
           \/ ForgetAll(c) \/ Interrupt(c)
  BY <1>0, <1>1 DEF Register, Forget, ForgetAll, Interrupt
<1>2. CASE \/ lockStart(c) \/ LockTimeout(c) \/ ensure(c) \/ Found(c)
           \/ NotAnswering(c) \/ Started(c) \/ StartFails(c)
           \/ Add(c) \/ AddBroken(c) \/ waitExit(c) \/ Status(c)
  BY <1>0, <1>2 DEF lockStart, LockTimeout, ensure, Found, NotAnswering, Started,
                    StartFails, Add, AddBroken, waitExit, Status
<1>3. CASE Start(c)
  BY <1>3 DEF Start, spawned, TypeOK, RegisteredServed
<1>4. CASE StartTimeout(c)
  BY <1>4 DEF StartTimeout, gone, TypeOK, RegisteredServed
<1>5. CASE addSandbox(c)
  BY <1>5 DEF addSandbox, TypeOK, RegisteredServed
<1>6. CASE removeSandbox(c) \/ RemoveEach(c)
  BY <1>6 DEF removeSandbox, RemoveEach, removed, TypeOK, RegisteredServed
<1>7. CASE stopIfIdle(c)
  BY <1>7 DEF stopIfIdle, stopRequest, TypeOK, RegisteredServed
<1> QED
  BY <1>1, <1>2, <1>3, <1>4, <1>5, <1>6, <1>7 DEF ClientStep

\* The broker that serves owns the lock, the control path and the pid file:
\* at most one broker ever serves a directory, and brig finds it.
THEOREM OneBroker == Spec => []ServingOwnsDir
<1>1. Init => ServingOwnsDir
  BY DEF Init, ServingOwnsDir, Holding
<1>2. ASSUME TypeOK, ServingOwnsDir, [Next]_vars
      PROVE ServingOwnsDir'
  <2>1. CASE UNCHANGED vars
    BY <1>2, <2>1 DEF vars, brokerVars, files, ServingOwnsDir
  <2> QED
    BY <1>2, <2>1, OwnsStep
<1> QED
  BY <1>1, <1>2, TypeCorrect, PTL DEF Spec

\* A registered sandbox is served until it is forgotten, its broker crashes or
\* is sent a signal: no idle stop takes it, and no stopping broker accepts it.
THEOREM Served == Spec => []RegisteredServed
<1>1. Init => RegisteredServed
  BY DEF Init, RegisteredServed
<1>2. ASSUME TypeOK, RegisteredServed, [Next]_vars
      PROVE RegisteredServed'
  <2>1. CASE UNCHANGED vars
    BY <1>2, <2>1 DEF vars, brokerVars, RegisteredServed
  <2> QED
    BY <1>2, <2>1, BrokerServes, ClientServes DEF Next
<1> QED
  BY <1>1, <1>2, TypeCorrect, PTL DEF Spec

-----------------------------------------------------------------------------
\* No broker was sent a signal.
NoSignal == \A b \in Brokers : stop[b] # "signal"

\* Without signals, only an idle stop ends a broker.
LEMMA NoSignalStep ==
    ASSUME TypeOK, NoSignal, "signals" \notin env, Next
    PROVE NoSignal'
<1> USE DEF brokerVars, files, TypeOK, NoSignal
<1>1. ASSUME NEW b \in Brokers,
             \/ HandStart(b) \/ BrokerStep(b) \/ NewServerFails(b)
             \/ Signal(b) \/ Crash(b)
      PROVE NoSignal'
  <2>1. CASE HandStart(b) \/ Exit(b) \/ Crash(b)
    BY <2>1 DEF HandStart, spawned, Exit, Crash, gone
  <2>2. CASE \/ takeLock(b) \/ Listen(b) \/ writePID(b) \/ ShutControl(b)
             \/ ShutRoutes(b) \/ RemoveFiles(b) \/ NewServerFails(b)
    BY <2>2 DEF takeLock, Listen, writePID, ShutControl, ShutRoutes, RemoveFiles,
                NewServerFails
  <2> QED
    BY <1>1, <2>1, <2>2 DEF BrokerStep, Signal
<1>2. ASSUME NEW c \in Clients,
             \/ \E id \in Ids : Register(c, id) \/ Forget(c, id)
             \/ ForgetAll(c) \/ ClientStep(c) \/ Interrupt(c)
      PROVE NoSignal'
  <2>1. CASE stopIfIdle(c)
    BY <2>1 DEF stopIfIdle, stopRequest
  <2>2. CASE Start(c) \/ StartTimeout(c)
    BY <2>2 DEF Start, StartTimeout, spawned, gone
  <2>3. CASE \/ \E id \in Ids : Register(c, id) \/ Forget(c, id)
             \/ ForgetAll(c) \/ Interrupt(c) \/ lockStart(c) \/ LockTimeout(c)
             \/ ensure(c) \/ Found(c) \/ NotAnswering(c) \/ Started(c)
             \/ StartFails(c) \/ Add(c) \/ addSandbox(c) \/ AddBroken(c)
             \/ waitExit(c) \/ removeSandbox(c) \/ Status(c) \/ RemoveEach(c)
    BY <2>3 DEF Register, Forget, ForgetAll, Interrupt, lockStart, LockTimeout,
                ensure, Found, NotAnswering, Started, StartFails, Add, addSandbox,
                AddBroken, waitExit, removeSandbox, Status, RemoveEach
  <2> QED
    BY <1>2, <2>1, <2>2, <2>3 DEF ClientStep
<1> QED
  BY <1>1, <1>2 DEF Next

\* A step that registers nothing, forgets nothing and opens no routes.
LEMMA KeepsRefused ==
    ASSUME RefusesForgotten, UNCHANGED live,
           \A b \in Brokers : /\ sandboxes'[b] \subseteq sandboxes[b]
                              /\ \/ sandboxes'[b] = {}
                                 \/ phase'[b] \in {"serving", "draining"} =>
                                        phase[b] \in {"serving", "draining"}
    PROVE RefusesForgotten'
BY DEF RefusesForgotten, accepts

\* Every step refuses the forgotten: a removal that is answered reaches the one
\* broker that has sandboxes, and one that is not finds none that has any.
LEMMA RefusedStep ==
    ASSUME TypeOK, ServingOwnsDir, RegisteredServed, NoSignal, RefusesForgotten, Next
    PROVE RefusesForgotten'
<1> USE DEF brokerVars, files
<1>0. \A b \in Brokers : sandboxes[b] # {} =>
          phase[b] = "serving" /\ sock = b
  BY DEF RegisteredServed, NoSignal, ServingOwnsDir
<1>1. ASSUME NEW b \in Brokers,
             \/ HandStart(b) \/ BrokerStep(b) \/ NewServerFails(b)
             \/ Signal(b) \/ Crash(b)
      PROVE RefusesForgotten'
  <2>1. CASE HandStart(b) \/ Exit(b) \/ Crash(b)
    BY <2>1, KeepsRefused DEF HandStart, spawned, Exit, Crash, gone, TypeOK
  <2>2. CASE writePID(b)
    <3>1. sandboxes[b] = {}
      BY <1>0, <2>2 DEF writePID
    <3> QED
      BY <2>2, <3>1, KeepsRefused DEF writePID, TypeOK
  <2>3. CASE \/ takeLock(b) \/ Listen(b) \/ ShutControl(b) \/ ShutRoutes(b)
             \/ RemoveFiles(b) \/ NewServerFails(b) \/ Signal(b)
    BY <2>3, KeepsRefused DEF takeLock, Listen, ShutControl, ShutRoutes,
         RemoveFiles, NewServerFails, Signal, TypeOK
  <2> QED
    BY <1>1, <2>1, <2>2, <2>3 DEF BrokerStep
<1>2. ASSUME NEW c \in Clients,
             \/ \E id \in Ids : Register(c, id) \/ Forget(c, id)
             \/ ForgetAll(c) \/ ClientStep(c) \/ Interrupt(c)
      PROVE RefusesForgotten'
  <2>1. CASE Start(c) \/ StartTimeout(c)
    BY <2>1, KeepsRefused DEF Start, StartTimeout, spawned, gone, TypeOK
  <2>2. CASE addSandbox(c)
    <3>1. CASE UNCHANGED live
      BY <2>2, <3>1, KeepsRefused DEF addSandbox, TypeOK, RefusesForgotten, accepts
    <3> QED
      BY <2>2, <3>1 DEF addSandbox, TypeOK, RefusesForgotten, accepts
  <2>3. ASSUME NEW b \in Brokers, NEW id, answers(b), removed(b, id), UNCHANGED phase
        PROVE RefusesForgotten'
    <3>1. \A x \in Brokers : x # b => sandboxes[x] = {}
      BY <1>0, <2>3 DEF answers
    <3> QED
      BY <2>3, <3>1 DEF removed, TypeOK, RefusesForgotten, accepts
  <2>4. ASSUME NotRunning
        PROVE \A b \in Brokers : sandboxes[b] = {}
    BY <1>0, <2>4 DEF NotRunning, listens
  <2>5. CASE removeSandbox(c)
    <3>1. CASE NotRunning /\ UNCHANGED sandboxes
      BY <2>5, <3>1, <2>4 DEF RefusesForgotten, accepts
    <3> QED
      BY <2>5, <2>3, <3>1 DEF removeSandbox
  <2>6. CASE RemoveEach(c)
    <3>1. CASE UNCHANGED <<sandboxes, live>>
      BY <2>6, <3>1, KeepsRefused DEF RemoveEach
    <3> QED
      BY <2>6, <2>3, <3>1 DEF RemoveEach
  <2>7. CASE \/ \E id \in Ids : Register(c, id) \/ Forget(c, id)
             \/ ForgetAll(c) \/ Interrupt(c) \/ lockStart(c) \/ LockTimeout(c)
             \/ ensure(c) \/ Found(c) \/ NotAnswering(c) \/ Started(c)
             \/ StartFails(c) \/ Add(c) \/ AddBroken(c) \/ waitExit(c)
             \/ Status(c) \/ stopIfIdle(c)
    <3>1. UNCHANGED <<phase, sandboxes, live>>
      BY <2>7 DEF Register, Forget, ForgetAll, Interrupt, lockStart, LockTimeout,
           ensure, Found, NotAnswering, Started, StartFails, Add, AddBroken,
           waitExit, Status, stopIfIdle
    <3> QED
      BY <3>1, KeepsRefused
  <2> QED
    BY <1>2, <2>1, <2>2, <2>5, <2>6, <2>7 DEF ClientStep
<1> QED
  BY <1>1, <1>2 DEF Next

\* While no broker is sent a signal, a removal that returned without an error
\* means no broker serves the sandbox, for Forget and ForgetAll alike and also
\* when the removal found no broker to ask.  With a signal it does not hold:
\* see the run lifecycle_forget_signal.
THEOREM Revoked == Spec => []ForgottenRefused
<1> DEFINE Inv == "signals" \notin env => NoSignal /\ RefusesForgotten
<1>1. Init => Inv
  BY DEF Init, NoSignal, RefusesForgotten, accepts
<1>2. ASSUME TypeOK, ServingOwnsDir, RegisteredServed, Inv, [Next]_vars
      PROVE Inv'
  <2>1. CASE UNCHANGED vars
    BY <1>2, <2>1 DEF vars, brokerVars, NoSignal, RefusesForgotten, accepts
  <2>2. CASE Next
    <3>1. env' = env
      BY <2>2, EnvStays
    <3> QED
      BY <1>2, <2>2, <3>1, NoSignalStep, RefusedStep
  <2> QED
    BY <1>2, <2>1, <2>2
<1>3. Inv => ForgottenRefused
  BY DEF ForgottenRefused
<1> QED
  BY <1>1, <1>2, <1>3, TypeCorrect, OneBroker, Served, PTL DEF Spec
=============================================================================
