------------------------------- MODULE Brigd -------------------------------
(***************************************************************************)
(* brigd (cmd/brigd/main.go): daemons that start and stop on one socket    *)
(* path, the flock beside it, connections handled at once, and the boot    *)
(* and teardown of a sandbox under the lock of its VM name.  The boot is   *)
(* wrap's EnsureRunning, by what it does to the sandbox: SandboxRun has    *)
(* its steps.                                                              *)
(***************************************************************************)
EXTENDS Naturals, FiniteSets

CONSTANTS
    Daemons,  \* brigd processes
    Conns,    \* client connections
    VMs       \* sandboxes

ASSUME BrigdAssumption == "nobody" \notin Daemons \cup Conns

VARIABLES
    dm,     \* a daemon: where it is, its inventory, daemon.mu and the mutex of each VM
    flock,  \* the daemon that holds the flock of the socket path, or "nobody"
    sock,   \* what the socket path names: nothing, a daemon's socket, or a dead one
    cn,     \* a connection: its daemon, its request and where that is
    vmup,   \* the sandboxes that run
    left    \* boots that a daemon left behind and that may still come up

brigdVars == <<dm, flock, sock, cn, vmup, left>>

NoDaemon == [pc |-> "off", inv |-> {}, mu |-> "nobody", vm |-> [v \in VMs |-> "nobody"]]
NoConn == [pc |-> "none", d |-> "none", op |-> "none", v |-> "none", ok |-> FALSE]

BrigdInit ==
    /\ dm = [d \in Daemons |-> NoDaemon]
    /\ flock = "nobody"
    /\ sock = "none"
    /\ cn = [c \in Conns |-> NoConn]
    /\ vmup = {} /\ left = {}

-----------------------------------------------------------------------------
\* serve: the lock, the socket, the signal.

DaemonOnly == UNCHANGED <<cn, vmup, left>>

\* lockSocket: without the flock the daemon gives up; a planted lock file is
\* refused (verifyLockFile) with the same outcome.
LockSocket(d) ==
    /\ dm[d].pc = "off"
    /\ flock = "nobody"
    /\ flock' = d
    /\ dm' = [dm EXCEPT ![d].pc = "locked"]
    /\ UNCHANGED sock /\ DaemonOnly

\* The stale socket goes, then the bind; a bind or a chmod that fails ends it.
RemoveStale(d) ==
    /\ dm[d].pc = "locked"
    /\ dm' = [dm EXCEPT ![d].pc = "bind"]
    /\ sock' = "none"
    /\ UNCHANGED flock /\ DaemonOnly

Listen(d) ==
    /\ dm[d].pc = "bind"
    /\ \/ sock = "none" /\ sock' = d /\ dm' = [dm EXCEPT ![d].pc = "serving"]
       \/ dm' = [dm EXCEPT ![d].pc = "closed"] /\ UNCHANGED sock
    /\ UNCHANGED flock /\ DaemonOnly

\* The signal: ln.Close unlinks the path and then closes the descriptor, which is
\* what makes Accept return.
CloseListener(d) ==
    /\ dm[d].pc = "serving"
    /\ sock' = "none"
    /\ dm' = [dm EXCEPT ![d].pc = "closed"]
    /\ UNCHANGED flock /\ DaemonOnly

\* serve returns and the deferred Close gives the flock back.
Release(d) ==
    /\ dm[d].pc = "closed"
    /\ flock' = "nobody"
    /\ dm' = [dm EXCEPT ![d].pc = "released"]
    /\ UNCHANGED sock /\ DaemonOnly

\* Changed form of PathAtEnd: the goroutine of the signal removes the path itself.
PathAtEnd_removed == "none"

\* What the path names when the process is gone: nobody touches it any more.
PathAtEnd == sock

\* A request that was in the middle of a boot leaves it to the runtime.
Booting(d) == {v \in VMs : \E c \in Conns : cn[c].d = d /\ cn[c].pc = "boot" /\ cn[c].v = v}

Gone(d) ==
    /\ dm' = [dm EXCEPT ![d] = NoDaemon]
    /\ cn' = [c \in Conns |-> IF cn[c].d = d THEN NoConn ELSE cn[c]]
    /\ left' = left \cup (Booting(d) \ vmup)
    /\ UNCHANGED vmup

\* main returns, with every goroutine of a connection.
Exit(d) ==
    /\ dm[d].pc = "released"
    /\ sock' = PathAtEnd
    /\ Gone(d)
    /\ UNCHANGED flock

\* A daemon that is killed leaves its socket behind.
Crash(d) ==
    /\ dm[d].pc \notin {"off", "released"}
    /\ sock' = IF sock = d THEN "dead" ELSE sock
    /\ flock' = "nobody"
    /\ Gone(d)

-----------------------------------------------------------------------------
\* Connections: accept and handle.

\* accept screens the peer's uid; a refused peer changes nothing.
Dial(c) ==
    /\ cn[c].pc = "none"
    /\ sock \in Daemons /\ dm[sock].pc = "serving"
    /\ cn' = [cn EXCEPT ![c] = [NoConn EXCEPT !.pc = "read", !.d = sock]]
    /\ UNCHANGED <<dm, flock, sock, vmup, left>>

\* handle: one request after the other; silence past the deadline, a line that is
\* too long or a reply that cannot be written ends the connection.
Hangup(c) ==
    /\ cn[c].pc \in {"read", "reply"}
    /\ cn' = [cn EXCEPT ![c] = NoConn]
    /\ UNCHANGED <<dm, flock, sock, vmup, left>>

\* serve and dispatch: a bad line, another protocol version, an unknown op or
\* version are answered at once; config, which may fail, precedes ensure and stop.
ReadRequest(c, op, v) ==
    /\ cn[c].pc = "read"
    /\ cn' = [cn EXCEPT ![c].op = op, ![c].v = v,
                        ![c].pc = IF op = "status" THEN "status" ELSE "lockfor"]
    /\ UNCHANGED <<dm, flock, sock, vmup, left>>

\* lockFor gives the mutex of v, under mu; the request waits for it.
Mu(c) == dm[cn[c].d].mu = "nobody"

\* Changed form of Held: every request gets a mutex of its own.
HeldNever(d, v) == FALSE

\* The mutex of v is held: there is one per VM name.
Held(d, v) == dm[d].vm[v] # "nobody"

LockFor(c) ==
    LET d == cn[c].d IN
    /\ cn[c].pc = "lockfor"
    /\ Mu(c) /\ ~Held(d, cn[c].v)
    /\ dm' = [dm EXCEPT ![d].vm[cn[c].v] = c]
    /\ cn' = [cn EXCEPT ![c].pc = cn[c].op]
    /\ UNCHANGED <<flock, sock, vmup, left>>

\* The deferred Unlock, then the answer, which lists the inventory.
Answers(c, ok) == cn' = [cn EXCEPT ![c].pc = "unlock", ![c].ok = ok]

\* EnsureRunning: BuildEnv or a refusal fails it; a sandbox that runs is kept or
\* stopped and removed first; one that does not is booted.
EnsureCheck(c) ==
    LET v == cn[c].v IN
    /\ cn[c].pc = "ensure"
    /\ \/ Answers(c, FALSE) /\ UNCHANGED vmup
       \/ v \in vmup /\ cn' = [cn EXCEPT ![c].pc = "remember"] /\ UNCHANGED vmup
       \/ cn' = [cn EXCEPT ![c].pc = "boot"] /\ vmup' = vmup \ {v}
    /\ UNCHANGED <<dm, flock, sock, left>>

\* Runtime.Run refuses a name that is taken; a guest that does not become ready
\* fails the request and leaves the sandbox up.
EnsureBoot(c) ==
    LET v == cn[c].v IN
    /\ cn[c].pc = "boot"
    /\ \/ /\ v \notin vmup /\ vmup' = vmup \cup {v}
          /\ \/ cn' = [cn EXCEPT ![c].pc = "remember"]
             \/ Answers(c, FALSE)
       \/ Answers(c, FALSE) /\ UNCHANGED vmup
    /\ UNCHANGED <<dm, flock, sock, left>>

Remember(c) ==
    LET d == cn[c].d IN
    /\ cn[c].pc = "remember"
    /\ Mu(c)
    /\ dm' = [dm EXCEPT ![d].inv = @ \cup {cn[c].v}]
    /\ Answers(c, TRUE)
    /\ UNCHANGED <<flock, sock, vmup, left>>

\* stop: an unknown sandbox that does not run, or of which that cannot be told, is
\* not found; Config.Stop fails when the sandbox goes on.
StopCheck(c) ==
    /\ cn[c].pc = "stop"
    /\ Mu(c)
    /\ \/ cn[c].v \notin dm[cn[c].d].inv /\ Answers(c, FALSE)
       \/ /\ cn[c].v \in dm[cn[c].d].inv \cup vmup
          /\ cn' = [cn EXCEPT ![c].pc = "halt"]
    /\ UNCHANGED <<dm, flock, sock, vmup, left>>

StopHalt(c) ==
    /\ cn[c].pc = "halt"
    /\ \/ vmup' = vmup \ {cn[c].v} /\ cn' = [cn EXCEPT ![c].pc = "forget"]
       \/ Answers(c, FALSE) /\ UNCHANGED vmup
    /\ UNCHANGED <<dm, flock, sock, left>>

Forget(c) ==
    LET d == cn[c].d IN
    /\ cn[c].pc = "forget"
    /\ Mu(c)
    /\ dm' = [dm EXCEPT ![d].inv = @ \ {cn[c].v}]
    /\ Answers(c, TRUE)
    /\ UNCHANGED <<flock, sock, vmup, left>>

\* status holds mu while it asks the runtime of every sandbox; a successful ensure
\* or stop ends with it, under the VM's mutex.
StatusLock(c) ==
    LET d == cn[c].d IN
    /\ cn[c].pc = "status" \/ (cn[c].pc = "unlock" /\ cn[c].ok)
    /\ Mu(c)
    /\ dm' = [dm EXCEPT ![d].mu = c]
    /\ cn' = [cn EXCEPT ![c].pc = "listing"]
    /\ UNCHANGED <<flock, sock, vmup, left>>

Unlocked(d, c) == [v \in VMs |-> IF dm[d].vm[v] = c THEN "nobody" ELSE dm[d].vm[v]]

StatusDone(c) ==
    LET d == cn[c].d IN
    /\ cn[c].pc = "listing" \/ (cn[c].pc = "unlock" /\ ~cn[c].ok)
    /\ dm' = [dm EXCEPT ![d].mu = IF @ = c THEN "nobody" ELSE @, ![d].vm = Unlocked(d, c)]
    /\ cn' = [cn EXCEPT ![c].pc = "reply"]
    /\ UNCHANGED <<flock, sock, vmup, left>>

Reply(c) ==
    /\ cn[c].pc = "reply"
    /\ cn' = [cn EXCEPT ![c] = [NoConn EXCEPT !.pc = "read", !.d = cn[c].d]]
    /\ UNCHANGED <<dm, flock, sock, vmup, left>>

-----------------------------------------------------------------------------
\* A guest that ends by itself, and a boot that was left behind and comes up.
VMEnds(v) ==
    /\ v \in vmup /\ vmup' = vmup \ {v}
    /\ UNCHANGED <<dm, flock, sock, cn, left>>

LeftComesUp(v) ==
    /\ v \in left /\ left' = left \ {v}
    /\ vmup' \in {vmup, vmup \cup {v}}
    /\ UNCHANGED <<dm, flock, sock, cn>>

BrigdNext ==
    \/ \E d \in Daemons : \/ LockSocket(d) \/ RemoveStale(d) \/ Listen(d) \/ CloseListener(d)
                          \/ Release(d) \/ Exit(d) \/ Crash(d)
    \/ \E c \in Conns, op \in {"ensure", "stop", "status"}, v \in VMs : ReadRequest(c, op, v)
    \/ \E c \in Conns : \/ Dial(c) \/ Hangup(c) \/ LockFor(c) \/ EnsureCheck(c) \/ EnsureBoot(c)
                        \/ Remember(c) \/ StopCheck(c) \/ StopHalt(c) \/ Forget(c)
                        \/ StatusLock(c) \/ StatusDone(c) \/ Reply(c)
    \/ \E v \in VMs : VMEnds(v) \/ LeftComesUp(v)

-----------------------------------------------------------------------------
\* Where a request owns its sandbox: from lockFor to the deferred Unlock.
Owns(c) ==
    \/ cn[c].pc \in {"ensure", "boot", "remember", "stop", "halt", "forget", "unlock"}
    \/ cn[c].pc = "listing" /\ cn[c].op # "status"

\* brigd keeps the promise of SandboxService: whatever clients ask at once, of
\* the daemon that holds the flock one request at a time boots, stops or
\* records a sandbox (main.go:383-398).  What the requests of a daemon that is
\* ending do is outside.
Svc == INSTANCE SandboxService WITH
    Requests <- Conns,
    running <- vmup,
    busy <- {<<c, cn[c].v>> : c \in {k \in Conns : Owns(k) /\ cn[k].d = flock}},
    stock <- IF flock = "nobody" THEN {} ELSE dm[flock].inv
OneOwner == Svc!Service

\* The daemon that serves is the one that the socket path names: neither the
\* removal of a stale socket nor the end of a daemon takes the path of its
\* successor (main.go:400-477).
SocketNamesServer == \A d \in Daemons : dm[d].pc = "serving" => sock = d
=============================================================================
