-------------------------- MODULE BrokerLifecycle --------------------------
(***************************************************************************)
(* The life of the credential broker of one directory.  Any number of brig *)
(* processes (Clients) find, start and stop it through                     *)
(* internal/injector/lifecycle.go; every process of the brig-broker binary *)
(* (Brokers) goes through newServer, serve and close of                    *)
(* cmd/brig-broker/server.go.  They share four files of the directory: the *)
(* start lock of the clients, the lock of the brokers, the control socket  *)
(* and the pid file.                                                       *)
(*                                                                         *)
(* A control call is one step, made on whichever broker listens on the     *)
(* socket at that moment; the registration is two, because the broker runs *)
(* aws and gcloud between accepting it and taking its mutex.  A pid file   *)
(* or a socket whose process died without removing it is Stale: the start  *)
(* time in the pid file tells a reused pid apart.                          *)
(***************************************************************************)
EXTENDS Naturals, FiniteSets

CONSTANTS Brokers,     \* the broker processes
          Clients,     \* the brig processes
          Ids,         \* the sandboxes
          Nobody,      \* no process: a free lock, a missing file
          Stale,       \* a file a dead process left behind
          Attempts,    \* the attempts of Register, 3 in the code
          Envs         \* what may befall the processes in a behaviour, see env

ASSUME LifecycleAssumption ==
    /\ Brokers \cap Clients = {}
    /\ Nobody \notin Brokers \cup Clients
    /\ Stale \notin Brokers \cup Clients \cup {Nobody}
    /\ Attempts \in Nat \ {0}
    /\ Envs \subseteq SUBSET {"signals", "handStarts", "interrupts"}

VARIABLES
    phase,      \* where each broker process is
    stop,       \* why a broker stops: "no", "asked" (POST /stop) or "signal"
    sandboxes,  \* the sandboxes each broker has registered
    lock,       \* the broker holding the broker lock
    sock,       \* the broker whose socket the control path names
    pidFile,    \* the broker the pid file names
    startLock,  \* the client holding the start lock
    pc,         \* where each client is
    op,         \* the arguments and locals of its call
    live,       \* the sandboxes registered and not forgotten since
    env         \* whether, in this behaviour, a broker may be sent SIGTERM or be
                \* started by hand, and a brig process may be killed

files == <<lock, sock, pidFile>>
brokerVars == <<phase, stop, sandboxes, files>>
clientVars == <<startLock, pc, op>>
vars == <<brokerVars, clientVars, live, env>>

(***************************************************************************)
(* A broker process is                                                     *)
(*   off        not running, or exited                                     *)
(*   spawned    running, before takeLock                                   *)
(*   lost       exited with "another broker is serving"                    *)
(*   locked     holding the lock, before it listens                        *)
(*   listening  on the control socket, before the pid file is written      *)
(*   serving    in serve                                                   *)
(*   draining   its control socket closed, its routes still open           *)
(*   drained    both closed, its files still there                         *)
(*   unfiled    its files removed, the lock still held                     *)
(***************************************************************************)
Phases == {"off", "spawned", "lost", "locked", "listening", "serving",
           "draining", "drained", "unfiled"}

\* The phases in which a broker holds the lock.
Holding == {"locked", "listening", "serving", "draining", "drained", "unfiled"}

\* The steps of a client: ensure, Add, the removals and stopIfIdle.
Labels == {"idle", "lock", "find", "answer", "start", "await", "add", "adding",
           "exit", "stop", "remove", "status", "removeAll"}

\* The steps of a call that names a sandbox.
Named == Labels \ {"idle", "stop", "status", "removeAll"}

NoOp == [id |-> Nobody, attempt |-> 0, started |-> FALSE, child |-> Nobody,
         todo |-> {}]

OpSet == [id : Ids \cup {Nobody}, attempt : 0..Attempts, started : BOOLEAN,
          child : Brokers \cup {Nobody}, todo : SUBSET Ids]

alive(b) == phase[b] \notin {"off", "lost"}

\* livePID: the process in the pid file is still the one recorded there.
livePID == pidFile \in Brokers /\ alive(pidFile)

\* A connect to the control socket is accepted.
listens(b) == sock = b /\ phase[b] \in {"listening", "serving"}
NotRunning == \A b \in Brokers : ~listens(b)

\* b answers the control call made now.
answers(b) == sock = b /\ phase[b] = "serving"

\* b serves the routes of sandbox id.
accepts(b, id) == phase[b] \in {"serving", "draining"} /\ id \in sandboxes[b]

Init ==
    /\ phase = [b \in Brokers |-> "off"]
    /\ stop = [b \in Brokers |-> "no"]
    /\ sandboxes = [b \in Brokers |-> {}]
    /\ lock = Nobody /\ sock = Nobody /\ pidFile = Nobody
    /\ startLock = Nobody
    /\ pc = [c \in Clients |-> "idle"]
    /\ op = [c \in Clients |-> NoOp]
    /\ live = {}
    /\ env \in Envs

-----------------------------------------------------------------------------
(* The broker process. *)

\* A free process slot: nobody waits for its exit.
free(b) == ~alive(b) /\ \A c \in Clients : op[c].child # b

spawned(b) ==
    /\ phase' = [phase EXCEPT ![b] = "spawned"]
    /\ stop' = [stop EXCEPT ![b] = "no"]
    /\ sandboxes' = [sandboxes EXCEPT ![b] = {}]

\* brig-broker --dir, run by hand.
HandStart(b) ==
    /\ "handStarts" \in env
    /\ free(b)
    /\ spawned(b)
    /\ UNCHANGED <<files, clientVars, live, env>>

\* Mutant: the loser's close removes the files without asking for the lock.
takeLockRemoves(b) ==
    /\ phase[b] = "spawned"
    /\ \/ /\ lock = Nobody
          /\ lock' = b
          /\ phase' = [phase EXCEPT ![b] = "locked"]
          /\ UNCHANGED <<sock, pidFile>>
       \/ /\ lock # Nobody
          /\ phase' = [phase EXCEPT ![b] = "lost"]
          /\ sock' = Nobody /\ pidFile' = Nobody
          /\ UNCHANGED lock
    /\ UNCHANGED <<stop, sandboxes, clientVars, live, env>>

\* takeLock: a flock that does not wait.  The loser's close removes nothing.
takeLock(b) ==
    /\ phase[b] = "spawned"
    /\ \/ /\ lock = Nobody
          /\ lock' = b
          /\ phase' = [phase EXCEPT ![b] = "locked"]
       \/ /\ lock # Nobody
          /\ phase' = [phase EXCEPT ![b] = "lost"]
          /\ UNCHANGED lock
    /\ UNCHANGED <<stop, sandboxes, sock, pidFile, clientVars, live, env>>

\* newServer after the lock: a socket left behind is removed, then bound.
Listen(b) ==
    /\ phase[b] = "locked"
    /\ sock' = b
    /\ phase' = [phase EXCEPT ![b] = "listening"]
    /\ UNCHANGED <<stop, sandboxes, lock, pidFile, clientVars, live, env>>

writePID(b) ==
    /\ phase[b] = "listening"
    /\ pidFile' = b
    /\ phase' = [phase EXCEPT ![b] = "serving"]
    /\ UNCHANGED <<stop, sandboxes, lock, sock, clientVars, live, env>>

\* newServer fails after the lock was taken: the recorded port is held by
\* another process, a key or the pid file cannot be written.
NewServerFails(b) ==
    /\ phase[b] \in {"locked", "listening"}
    /\ sock' = IF phase[b] = "listening" THEN Nobody ELSE sock
    /\ phase' = [phase EXCEPT ![b] = "drained"]
    /\ UNCHANGED <<stop, sandboxes, lock, pidFile, clientVars, live, env>>

\* SIGTERM or SIGINT ends the context serve waits on; so does a listener
\* that fails.
Signal(b) ==
    /\ "signals" \in env
    /\ phase[b] = "serving" /\ stop[b] = "no"
    /\ stop' = [stop EXCEPT ![b] = "signal"]
    /\ UNCHANGED <<phase, sandboxes, files, clientVars, live, env>>

\* serve wakes: control.Shutdown closes the control listener, which removes
\* its socket, before routes.Shutdown closes the routes.
ShutControl(b) ==
    /\ phase[b] = "serving" /\ stop[b] # "no"
    /\ phase' = [phase EXCEPT ![b] = "draining"]
    /\ sock' = Nobody
    /\ UNCHANGED <<stop, sandboxes, lock, pidFile, clientVars, live, env>>

ShutRoutes(b) ==
    /\ phase[b] = "draining"
    /\ phase' = [phase EXCEPT ![b] = "drained"]
    /\ UNCHANGED <<stop, sandboxes, files, clientVars, live, env>>

\* close removes the socket and the pid file only while it holds the lock,
\* then releases it.
RemoveFiles(b) ==
    /\ phase[b] = "drained"
    /\ sock' = Nobody /\ pidFile' = Nobody
    /\ phase' = [phase EXCEPT ![b] = "unfiled"]
    /\ UNCHANGED <<stop, sandboxes, lock, clientVars, live, env>>

\* The process is gone: the system drops its lock and closes its socket.
gone(b) ==
    /\ phase' = [phase EXCEPT ![b] = "off"]
    /\ stop' = [stop EXCEPT ![b] = "no"]
    /\ sandboxes' = [sandboxes EXCEPT ![b] = {}]
    /\ lock' = IF lock = b THEN Nobody ELSE lock
    /\ sock' = IF sock = b THEN Stale ELSE sock
    /\ pidFile' = IF pidFile = b THEN Stale ELSE pidFile

Exit(b) == phase[b] = "unfiled" /\ gone(b) /\ UNCHANGED <<clientVars, live, env>>

Crash(b) == alive(b) /\ gone(b) /\ UNCHANGED <<clientVars, live, env>>

-----------------------------------------------------------------------------
(* The calls of a client. *)

goto(c, label) == pc' = [pc EXCEPT ![c] = label]

\* The call returns, with an error or without.
return(c) == goto(c, "idle") /\ op' = [op EXCEPT ![c] = NoOp]

unlock == startLock' = Nobody

Register(c, id) ==
    /\ pc[c] = "idle"
    /\ goto(c, "lock")
    /\ op' = [op EXCEPT ![c] = [NoOp EXCEPT !.id = id, !.attempt = 1]]
    /\ UNCHANGED <<brokerVars, startLock, live, env>>

lockStart(c) ==
    /\ pc[c] = "lock" /\ startLock = Nobody
    /\ startLock' = c
    /\ goto(c, "find")
    /\ UNCHANGED <<brokerVars, op, live, env>>

\* The deadline of lockStart passes while another brig holds the lock.
LockTimeout(c) ==
    /\ pc[c] = "lock" /\ startLock # Nobody
    /\ return(c)
    /\ UNCHANGED <<brokerVars, startLock, live, env>>

\* ensure asks the pid file first.
ensure(c) ==
    /\ pc[c] = "find"
    /\ goto(c, IF livePID THEN "answer" ELSE "start")
    /\ UNCHANGED <<brokerVars, startLock, op, live, env>>

\* waitAnswer: a live broker answers.
Found(c) ==
    /\ pc[c] = "answer"
    /\ \E b \in Brokers : answers(b)
    /\ unlock
    /\ goto(c, "add")
    /\ UNCHANGED <<brokerVars, op, live, env>>

\* waitAnswer and waitExit end without an answer: the process is gone and is
\* replaced, or it outlived both deadlines and the run is refused.
NotAnswering(c) ==
    /\ pc[c] = "answer"
    /\ \A b \in Brokers : ~answers(b)
    /\ \/ ~livePID /\ goto(c, "start") /\ UNCHANGED <<startLock, op>>
       \/ livePID /\ unlock /\ return(c)
    /\ UNCHANGED <<brokerVars, live, env>>

\* start runs brig-broker in a session of its own.
Start(c) ==
    /\ pc[c] = "start"
    /\ \E b \in Brokers :
          /\ free(b)
          /\ spawned(b)
          /\ op' = [op EXCEPT ![c].child = b]
    /\ goto(c, "await")
    /\ UNCHANGED <<files, startLock, live, env>>

Started(c) ==
    /\ pc[c] = "await"
    /\ \E b \in Brokers : answers(b)
    /\ unlock
    /\ goto(c, "add")
    /\ op' = [op EXCEPT ![c].started = TRUE, ![c].child = Nobody]
    /\ UNCHANGED <<brokerVars, live, env>>

\* The child exited, and its last words are not that another broker serves.
StartFails(c) ==
    /\ pc[c] = "await"
    /\ \A b \in Brokers : ~answers(b)
    /\ phase[op[c].child] = "off"
    /\ unlock
    /\ return(c)
    /\ UNCHANGED <<brokerVars, live, env>>

\* Nothing answered within readyTimeout: a child still running is killed.
StartTimeout(c) ==
    /\ pc[c] = "await"
    /\ \A b \in Brokers : ~answers(b)
    /\ \/ phase[op[c].child] = "lost" /\ UNCHANGED brokerVars
       \/ alive(op[c].child) /\ gone(op[c].child)
    /\ unlock
    /\ return(c)
    /\ UNCHANGED <<live, env>>

\* Add reaches the broker that listens, or finds nobody there.
Add(c) ==
    /\ pc[c] = "add"
    /\ \/ \E b \in Brokers :
             /\ listens(b)
             /\ goto(c, "adding")
             /\ op' = [op EXCEPT ![c].child = b]
       \/ /\ NotRunning
          /\ goto(c, "exit")
          /\ UNCHANGED op
    /\ UNCHANGED <<brokerVars, startLock, live, env>>

\* The answer is an error that is neither 503 nor ErrNotRunning: a broker
\* this run started is stopped, unless another run registered with it.
refused(c) ==
    \/ /\ op[c].started
       /\ goto(c, "stop")
       /\ op' = [op EXCEPT ![c].child = Nobody]
    \/ ~op[c].started /\ return(c)

\* addSandbox takes the mutex of the broker that accepted the call.  It may
\* be stopping by now; it registers the sandbox, refuses it (a credential
\* check, a bad route), or drops it when its divert socket does not open.
addSandbox(c) ==
    LET b == op[c].child IN
    /\ pc[c] = "adding"
    /\ \/ /\ phase[b] \in {"serving", "draining", "drained", "unfiled"}
          /\ stop[b] # "no"
          /\ goto(c, "exit")
          /\ op' = [op EXCEPT ![c].child = Nobody]
          /\ UNCHANGED <<sandboxes, live>>
       \/ /\ phase[b] = "serving" /\ stop[b] = "no"
          /\ sandboxes' = [sandboxes EXCEPT ![b] = @ \cup {op[c].id}]
          /\ live' = live \cup {op[c].id}
          /\ return(c)
       \/ /\ phase[b] = "serving" /\ stop[b] = "no"
          /\ \/ UNCHANGED sandboxes
             \/ sandboxes' = [sandboxes EXCEPT ![b] = @ \ {op[c].id}]
          /\ refused(c)
          /\ UNCHANGED live
    /\ UNCHANGED <<phase, stop, files, startLock, env>>

\* The broker went away under the call.
AddBroken(c) ==
    /\ pc[c] = "adding"
    /\ ~alive(op[c].child)
    /\ refused(c)
    /\ UNCHANGED <<brokerVars, startLock, live, env>>

\* waitExit returns when the broker is gone, or after five seconds; then the
\* next attempt, or the last error.
waitExit(c) ==
    /\ pc[c] = "exit"
    /\ \/ /\ op[c].attempt < Attempts
          /\ goto(c, "lock")
          /\ op' = [op EXCEPT ![c].attempt = @ + 1, ![c].started = FALSE]
       \/ op[c].attempt >= Attempts /\ return(c)
    /\ UNCHANGED <<brokerVars, startLock, live, env>>

Forget(c, id) ==
    /\ pc[c] = "idle"
    /\ goto(c, "remove")
    /\ op' = [op EXCEPT ![c] = [NoOp EXCEPT !.id = id]]
    /\ UNCHANGED <<brokerVars, startLock, live, env>>

\* Mutant: the handler keeps the routes of the sandbox.
removedKeeps(b, id) == live' = live \ {id} /\ UNCHANGED sandboxes

\* removeSandbox, and the broker's word on how many are left.
removed(b, id) ==
    /\ sandboxes' = [sandboxes EXCEPT ![b] = @ \ {id}]
    /\ live' = live \ {id}

removeSandbox(c) ==
    /\ pc[c] = "remove"
    /\ \/ \E b \in Brokers :
             /\ answers(b)
             /\ removed(b, op[c].id)
             /\ \/ sandboxes[b] \subseteq {op[c].id} /\ goto(c, "stop") /\ UNCHANGED op
                \/ ~(sandboxes[b] \subseteq {op[c].id}) /\ return(c)
       \/ /\ NotRunning
          /\ live' = live \ {op[c].id}
          /\ return(c)
          /\ UNCHANGED sandboxes
    /\ UNCHANGED <<phase, stop, files, startLock, env>>

ForgetAll(c) ==
    /\ pc[c] = "idle"
    /\ goto(c, "status")
    /\ UNCHANGED <<brokerVars, startLock, op, live, env>>

\* The status names the sandboxes to remove.
Status(c) ==
    /\ pc[c] = "status"
    /\ \/ \E b \in Brokers :
             /\ answers(b)
             /\ goto(c, "removeAll")
             /\ op' = [op EXCEPT ![c].todo = sandboxes[b]]
       \/ NotRunning /\ return(c)
    /\ UNCHANGED <<brokerVars, startLock, live, env>>

RemoveEach(c) ==
    /\ pc[c] = "removeAll"
    /\ \/ \E b \in Brokers, id \in op[c].todo :
             /\ answers(b)
             /\ removed(b, id)
             /\ op' = [op EXCEPT ![c].todo = @ \ {id}]
             /\ UNCHANGED pc
       \/ /\ op[c].todo = {}
          /\ goto(c, "stop")
          /\ UNCHANGED <<sandboxes, op, live>>
       \/ /\ op[c].todo # {} /\ NotRunning
          /\ return(c)
          /\ UNCHANGED <<sandboxes, live>>
    /\ UNCHANGED <<phase, stop, files, startLock, env>>

\* Mutants: ifIdle is not looked at; it is looked at the wrong way around.
stopRequestAlways(b) ==
    IF stop[b] = "no" THEN stop' = [stop EXCEPT ![b] = "asked"] ELSE UNCHANGED stop

stopRequestBusy(b) ==
    IF sandboxes[b] # {} /\ stop[b] = "no"
    THEN stop' = [stop EXCEPT ![b] = "asked"]
    ELSE UNCHANGED stop

\* stopRequest with ifIdle set, on the broker that answers now.
stopRequest(b) ==
    IF sandboxes[b] = {} /\ stop[b] = "no"
    THEN stop' = [stop EXCEPT ![b] = "asked"]
    ELSE UNCHANGED stop

stopIfIdle(c) ==
    /\ pc[c] = "stop"
    /\ \/ \E b \in Brokers : answers(b) /\ stopRequest(b)
       \/ NotRunning /\ UNCHANGED stop
    /\ return(c)
    /\ UNCHANGED <<phase, sandboxes, files, startLock, live, env>>

\* The brig process dies: its start lock is dropped, its child runs on.
Interrupt(c) ==
    /\ "interrupts" \in env
    /\ pc[c] # "idle"
    /\ startLock' = IF startLock = c THEN Nobody ELSE startLock
    /\ return(c)
    /\ UNCHANGED <<brokerVars, live, env>>

-----------------------------------------------------------------------------
BrokerStep(b) ==
    \/ takeLock(b) \/ Listen(b) \/ writePID(b)
    \/ ShutControl(b) \/ ShutRoutes(b) \/ RemoveFiles(b) \/ Exit(b)

ClientStep(c) ==
    \/ lockStart(c) \/ LockTimeout(c) \/ ensure(c) \/ Found(c)
    \/ NotAnswering(c) \/ Start(c) \/ Started(c) \/ StartFails(c)
    \/ StartTimeout(c) \/ Add(c) \/ addSandbox(c) \/ AddBroken(c) \/ waitExit(c)
    \/ removeSandbox(c) \/ Status(c) \/ RemoveEach(c) \/ stopIfIdle(c)

Next ==
    \/ \E b \in Brokers : \/ HandStart(b) \/ BrokerStep(b) \/ NewServerFails(b)
                          \/ Signal(b) \/ Crash(b)
    \/ \E c \in Clients : \/ \E id \in Ids : Register(c, id) \/ Forget(c, id)
                          \/ ForgetAll(c) \/ ClientStep(c) \/ Interrupt(c)

Spec == Init /\ [][Next]_vars

\* A process that runs keeps running: every broker step, and every step of a
\* call already made, is taken eventually.  No call has to be made, and
\* nothing has to fail.
Fairness ==
    /\ \A b \in Brokers : WF_vars(BrokerStep(b))
    /\ \A c \in Clients : WF_vars(ClientStep(c))

FairSpec == Spec /\ Fairness

-----------------------------------------------------------------------------
\* Every variable keeps its type, and a call about a sandbox names one.
TypeOK ==
    /\ phase \in [Brokers -> Phases]
    /\ stop \in [Brokers -> {"no", "asked", "signal"}]
    /\ sandboxes \in [Brokers -> SUBSET Ids]
    /\ lock \in Brokers \cup {Nobody}
    /\ sock \in Brokers \cup {Nobody, Stale}
    /\ pidFile \in Brokers \cup {Nobody, Stale}
    /\ startLock \in Clients \cup {Nobody}
    /\ pc \in [Clients -> Labels]
    /\ op \in [Clients -> OpSet]
    /\ \A c \in Clients : pc[c] \in Named => op[c].id \in Ids
    /\ live \subseteq Ids
    /\ env \in Envs

\* A broker that serves owns the directory: it holds the lock from takeLock to
\* the end of close, the control path names it as long as it listens, and the
\* pid file as long as it serves, whatever losing, failing and dying brokers
\* did to those files meanwhile (close removes them only while it holds the
\* lock).  So no two brokers serve at once, and brig finds the one that does.
ServingOwnsDir ==
    \A b \in Brokers :
        /\ phase[b] \in Holding => lock = b
        /\ phase[b] \in {"listening", "serving"} => sock = b
        /\ phase[b] = "serving" => pidFile = b

\* A registered sandbox keeps being served: no idle stop, made by a run that
\* failed or by a removal that saw no sandbox left, ever takes a broker that
\* another run has registered with since (IfIdle), and no broker on its way
\* out takes a registration (refuseStopping).  A signal is the exception.
RegisteredServed ==
    \A b \in Brokers :
        sandboxes[b] # {} /\ stop[b] # "signal" =>
            phase[b] = "serving" /\ stop[b] = "no"

\* A broker refuses the tokens of a sandbox that was forgotten "from the next
\* request on" (Forget): no broker serves the sandbox's routes until it is
\* registered again.
RefusesForgotten ==
    \A b \in Brokers, id \in Ids : accepts(b, id) => id \in live

\* Without signals the promise holds: once Forget or ForgetAll removed a sandbox
\* without an error, no broker serves it, also when the removal found no broker
\* to ask ("only a socket nobody listens on means no broker").
ForgottenRefused == "signals" \notin env => RefusesForgotten

\* An idle broker does not outlive the calls that made it idle: it stops, or a
\* sandbox is registered.
IdleStops ==
    \A b \in Brokers :
        env = {} /\ phase[b] = "serving" ~> (phase[b] # "serving" \/ live # {})
=============================================================================
