--------------------------- MODULE SharedNetwork ---------------------------
(***************************************************************************)
(* The shared network of the hull runtime: one gateway process every       *)
(* sandbox without a network of its own is behind, and one address per     *)
(* sandbox on it (gateway.go, gatewayip.go, netalloc.go, and Run, Remove   *)
(* and PruneSharedNetwork of hull.go).                                     *)
(*                                                                         *)
(* Procs are brig processes.  Each boots a sandbox, removes one, or prunes *)
(* the gateway (brig rm --all), and may be killed at any step.  They meet  *)
(* in files: the record of the addresses under its flock, the lock of the  *)
(* gateway, and one lease per boot, a locked file that says a boot is on   *)
(* the gateway before the process table does.                              *)
(***************************************************************************)
EXTENDS Naturals, FiniteSets

CONSTANTS Procs, Names,  \* brig processes, sandboxes
          last,          \* the addresses are 1 .. last
          Envs,          \* what may happen in a behaviour, see env
          None

ASSUME NetworkAssumption ==
    /\ last \in Nat \ {0}
    /\ Envs \subseteq SUBSET {"same", "damage"}
    /\ None \notin Procs \cup Names

VARIABLES
    assigned,    \* gateway-ips.json: the address of each sandbox, 0 for none
    allocLock,   \* who holds gateway-ips.json.lock
    gwLock,      \* who holds the gateway's lock
    leases,      \* whose boot holds a lease
    gateway,     \* what listens on the socket: nothing, a gateway, or one of a
                 \* brig from before --api
    starting,    \* who started a gateway that does not listen yet
    orphans,     \* the hull runs whose brig was killed
    instances,   \* the sandboxes hull has an instance of, running or stopped
    vm,          \* the address of each running guest, 0 when it does not run
    pc, op,      \* where each process is, and its locals
    env          \* whether, in this behaviour, several processes may work on one
                 \* sandbox at once, and the record may be damaged

fileVars == <<assigned, allocLock>>
gwVars == <<gwLock, leases, gateway, starting>>
guestVars == <<orphans, instances, vm>>
vars == <<fileVars, gwVars, guestVars, pc, op, env>>

Slots == 0..last
Assignments == [Names -> Slots]
NoAssignment == [n \in Names |-> 0]
Ops == [name : Names \cup {None}, boot : BOOLEAN, slot : Slots, copy : Assignments]
NoOp == [name |-> None, boot |-> FALSE, slot |-> 0, copy |-> NoAssignment]

\* A boot that found the gateway up, one that leased it, and a removal.
Behind == {"alloc", "pick", "args", "run"}
Leased == {"look", "stopOld", "killOld", "again", "spawn", "ready"} \cup Behind
Removing == {"rm", "release", "drop"}
Labels == Leased \cup Removing \cup {"idle", "lease", "prune", "killAny"}

Init ==
    /\ assigned = NoAssignment
    /\ allocLock = None
    /\ gwLock = None
    /\ leases = {}
    /\ gateway \in {"none", "old"}
    /\ starting = {}
    /\ orphans = {}
    /\ instances = {}
    /\ vm = NoAssignment
    /\ pc = [p \in Procs |-> "idle"]
    /\ op = [p \in Procs |-> NoOp]
    /\ env \in Envs

-----------------------------------------------------------------------------
goto(p, label) == pc' = [pc EXCEPT ![p] = label]

\* The process ends its operation.
return(p) == goto(p, "idle") /\ op' = [op EXCEPT ![p] = NoOp]

\* A boot ends with an error or with its guest up: its deferred release runs.
endBoot(p) == return(p) /\ leases' = leases \ {p}

busy(n) == \/ \E p \in Procs : op[p].name = n
           \/ \E o \in orphans : o.name = n

begin(p, label, o) ==
    /\ pc[p] = "idle"
    /\ goto(p, label)
    /\ op' = [op EXCEPT ![p] = o]
    /\ UNCHANGED <<fileVars, gwVars, guestVars, env>>

\* EnsureRunning finds the sandbox not running.  It removes a stopped instance
\* that holds the name, and boots.
EnsureRunning(p, n) ==
    /\ vm[n] = 0
    /\ "same" \in env \/ ~busy(n)
    /\ begin(p, "rm", [NoOp EXCEPT !.name = n, !.boot = TRUE])

Remove(p, n) ==
    /\ "same" \in env \/ ~busy(n)
    /\ begin(p, "rm", [NoOp EXCEPT !.name = n])

PruneSharedNetwork(p) == begin(p, "prune", NoOp)

-----------------------------------------------------------------------------
\* Mutant: the lease is taken whoever holds the gateway's lock.
leaseSharedGatewayAny(p) ==
    /\ pc[p] = "lease"
    /\ leases' = leases \cup {p}
    /\ goto(p, "look")
    /\ UNCHANGED <<fileVars, gwLock, gateway, starting, guestVars, op, env>>

\* The lease is created under the gateway's lock.
leaseSharedGateway(p) ==
    /\ pc[p] = "lease" /\ gwLock = None
    /\ leases' = leases \cup {p}
    /\ goto(p, "look")
    /\ UNCHANGED <<fileVars, gwLock, gateway, starting, guestVars, op, env>>

\* ensureGateway: nothing answers, the gateway answers with its API, or it
\* answers and its API does not, as it does of an old gateway and of one that
\* has just come up.
Look(p) ==
    /\ pc[p] = "look"
    /\ \/ gateway = "none" /\ goto(p, "spawn")
       \/ gateway = "api" /\ goto(p, "alloc")
       \/ gateway # "none" /\ goto(p, "stopOld")
    /\ UNCHANGED <<fileVars, gwVars, guestVars, op, env>>

\* A boot other than own holds a lease.  The lease of a dead process is not
\* locked, and holds nothing.
bootsInFlight(own) == leases \ own # {}

\* The processes that name the socket: the VMM of a guest, or its hull run.
members == \/ \E n \in Names : vm[n] # 0
           \/ \E p \in Procs : pc[p] = "run"
           \/ orphans # {}

\* stopOldGateway: only an old gateway nobody is on, and no other boot.  The
\* lock is held from the look to the end of the signals.
StopOldGateway(p) ==
    /\ pc[p] = "stopOld" /\ gwLock = None
    /\ \/ /\ ~bootsInFlight({p}) /\ ~members /\ gateway = "old"
          /\ gwLock' = p
          /\ goto(p, "killOld")
       \/ /\ bootsInFlight({p}) \/ members \/ gateway # "old"
          /\ goto(p, "alloc")
          /\ UNCHANGED gwLock
    /\ UNCHANGED <<fileVars, leases, gateway, starting, guestVars, op, env>>

\* signalGateway ends the old gateway, or gives up on it.
KillOld(p) ==
    /\ pc[p] = "killOld"
    /\ gwLock' = None
    /\ \/ gateway' = "none" /\ goto(p, "again")
       \/ goto(p, "alloc") /\ UNCHANGED gateway
    /\ UNCHANGED <<fileVars, leases, starting, guestVars, op, env>>

\* Another brig may have started a gateway in the meantime.
LookAgain(p) ==
    /\ pc[p] = "again"
    /\ \/ gateway # "none" /\ goto(p, "alloc")
       \/ gateway = "none" /\ goto(p, "spawn")
    /\ UNCHANGED <<fileVars, gwVars, guestVars, op, env>>

startGateway(p) ==
    /\ pc[p] = "spawn"
    /\ starting' = starting \cup {p}
    /\ goto(p, "ready")
    /\ UNCHANGED <<fileVars, gwLock, leases, gateway, guestVars, op, env>>

\* What counts is that a gateway answers, not that it is the one started here.
GatewayReady(p) ==
    /\ pc[p] = "ready" /\ gateway # "none"
    /\ goto(p, "alloc")
    /\ UNCHANGED <<fileVars, gwVars, guestVars, op, env>>

GatewayTimeout(p) ==
    /\ pc[p] = "ready" /\ gateway = "none"
    /\ endBoot(p)
    /\ UNCHANGED <<fileVars, gwLock, gateway, starting, guestVars, env>>

\* A started gateway claims the socket, or finds it in use and exits.
GatewayListens(p) ==
    /\ p \in starting
    /\ starting' = starting \ {p}
    /\ gateway' = IF gateway = "none" THEN "api" ELSE gateway
    /\ UNCHANGED <<fileVars, gwLock, leases, guestVars, pc, op, env>>

-----------------------------------------------------------------------------
\* netAlloc.lock and read.
lockAlloc(p, from, to) ==
    /\ pc[p] = from /\ allocLock = None
    /\ allocLock' = p
    /\ op' = [op EXCEPT ![p].copy = assigned]
    /\ goto(p, to)
    /\ UNCHANGED <<assigned, gwVars, guestVars, env>>

\* Mutant: the record is read and written back without its lock.
LockAllocAny(p) ==
    /\ pc[p] = "alloc"
    /\ op' = [op EXCEPT ![p].copy = assigned]
    /\ goto(p, "pick")
    /\ UNCHANGED <<fileVars, gwVars, guestVars, env>>

LockAlloc(p) == lockAlloc(p, "alloc", "pick")

LockRelease(p) == lockAlloc(p, "release", "drop")

\* lowestFree: s is the lowest address the record does not hold.
lowestFree(copy, s) ==
    /\ s \in 1..last
    /\ \A n \in Names : copy[n] # s
    /\ \A t \in 1..(s - 1) : \E n \in Names : copy[n] = t

hasSlot(p, s) ==
    /\ allocLock' = None
    /\ op' = [op EXCEPT ![p].slot = s, ![p].copy = NoAssignment]
    /\ goto(p, "args")
    /\ UNCHANGED <<leases, env>>

\* The rest of slot: the recorded address again, or the lowest free one,
\* recorded; an error when the network is full or the record is not written.
Slot(p) ==
    LET n == op[p].name
        copy == op[p].copy IN
    /\ pc[p] = "pick"
    /\ \/ copy[n] # 0 /\ hasSlot(p, copy[n]) /\ UNCHANGED assigned
       \/ /\ copy[n] = 0
          /\ \E s \in 1..(last + 1) :
                /\ lowestFree(copy, s)
                /\ assigned' = [copy EXCEPT ![n] = s]
                /\ hasSlot(p, s)
       \/ /\ copy[n] = 0
          /\ allocLock' = None
          /\ endBoot(p)
          /\ UNCHANGED assigned
    /\ UNCHANGED <<gwLock, gateway, starting, guestVars, env>>

\* The publications and the boot assets: the boot fails there, or hull run is
\* started and names the socket.
RunArgs(p) ==
    /\ pc[p] = "args"
    /\ \/ goto(p, "run") /\ UNCHANGED <<op, leases>>
       \/ endBoot(p)
    /\ UNCHANGED <<fileVars, gwLock, gateway, starting, guestVars, env>>

\* hull run brings the guest up on its address, or fails, as it does when an
\* instance has the name.
hullRun(n, s) ==
    \/ /\ n \notin instances
       /\ instances' = instances \cup {n}
       /\ vm' = [vm EXCEPT ![n] = s]
    \/ UNCHANGED <<instances, vm>>

HullRun(p) ==
    /\ pc[p] = "run"
    /\ hullRun(op[p].name, op[p].slot)
    /\ endBoot(p)
    /\ UNCHANGED <<fileVars, gwLock, gateway, starting, orphans, env>>

OrphanRun(o) ==
    /\ orphans' = orphans \ {o}
    /\ hullRun(o.name, o.slot)
    /\ UNCHANGED <<fileVars, gwVars, pc, op, env>>

-----------------------------------------------------------------------------
\* A removal ends, or the boot it was the first part of goes on.
removed(p) ==
    \/ ~op[p].boot /\ return(p)
    \/ op[p].boot /\ goto(p, "lease") /\ op' = [op EXCEPT ![p].copy = NoAssignment]

\* brig rm stops the guest first; a boot does not.
stopped(p) ==
    \/ ~op[p].boot /\ vm' = [vm EXCEPT ![op[p].name] = 0]
    \/ UNCHANGED vm

\* Mutant: the address is given back when hull rm failed too.
hullRemoveAny(p) ==
    /\ pc[p] = "rm"
    /\ stopped(p)
    /\ goto(p, "release")
    /\ UNCHANGED <<fileVars, gwVars, orphans, instances, op, env>>

\* hull rm takes the instance of a guest that does not run.  Only a removal
\* that succeeded gives the address back.
hullRemove(p) ==
    /\ pc[p] = "rm"
    /\ stopped(p)
    /\ \/ /\ op[p].name \in instances /\ vm'[op[p].name] = 0
          /\ instances' = instances \ {op[p].name}
          /\ goto(p, "release")
          /\ UNCHANGED op
       \/ removed(p) /\ UNCHANGED instances
    /\ UNCHANGED <<fileVars, gwVars, orphans, env>>

\* The rest of netAlloc.release.  Nobody hears of a record that is not written.
release(p) ==
    /\ pc[p] = "drop"
    /\ \/ assigned' = [op[p].copy EXCEPT ![op[p].name] = 0]
       \/ UNCHANGED assigned
    /\ allocLock' = None
    /\ removed(p)
    /\ UNCHANGED <<gwVars, orphans, instances, vm, env>>

\* brig stop, or the guest ends by itself: the sandbox keeps its address.
GuestEnds(n) ==
    /\ vm[n] # 0
    /\ vm' = [vm EXCEPT ![n] = 0]
    /\ UNCHANGED <<fileVars, gwVars, orphans, instances, pc, op, env>>

-----------------------------------------------------------------------------
\* PruneSharedNetwork: the lock is held from the look to the end of the signals.
Prune(p) ==
    /\ pc[p] = "prune" /\ gwLock = None
    /\ \/ /\ ~bootsInFlight({}) /\ ~members /\ gateway # "none"
          /\ gwLock' = p
          /\ goto(p, "killAny") /\ UNCHANGED op
       \/ /\ bootsInFlight({}) \/ members \/ gateway = "none"
          /\ return(p)
          /\ UNCHANGED gwLock
    /\ UNCHANGED <<fileVars, leases, gateway, starting, guestVars, env>>

KillAny(p) ==
    /\ pc[p] = "killAny"
    /\ gwLock' = None
    /\ gateway' = "none" \/ UNCHANGED gateway
    /\ return(p)
    /\ UNCHANGED <<fileVars, leases, starting, guestVars, env>>

\* brig is killed: its locks and its lease go with it, and a hull run it
\* started goes on or ends too.
Crash(p) ==
    /\ pc[p] # "idle"
    /\ endBoot(p)
    /\ allocLock' = IF allocLock = p THEN None ELSE allocLock
    /\ gwLock' = IF gwLock = p THEN None ELSE gwLock
    /\ \/ /\ pc[p] = "run"
          /\ orphans' = orphans \cup {[name |-> op[p].name, slot |-> op[p].slot]}
       \/ UNCHANGED orphans
    /\ UNCHANGED <<assigned, gateway, starting, instances, vm, env>>

\* The record is damaged: it reads as empty.
Corrupt ==
    /\ "damage" \in env
    /\ assigned # NoAssignment
    /\ assigned' = NoAssignment
    /\ UNCHANGED <<allocLock, gwVars, guestVars, pc, op, env>>

BootStep(p) ==
    \/ leaseSharedGateway(p) \/ Look(p) \/ StopOldGateway(p) \/ KillOld(p)
    \/ LookAgain(p) \/ startGateway(p) \/ GatewayReady(p) \/ GatewayTimeout(p)
    \/ LockAlloc(p) \/ Slot(p) \/ RunArgs(p) \/ HullRun(p)

OtherStep(p) ==
    \/ hullRemove(p) \/ LockRelease(p) \/ release(p)
    \/ Prune(p) \/ KillAny(p) \/ Crash(p) \/ GatewayListens(p)

Next ==
    \/ \E p \in Procs : \/ \E n \in Names : EnsureRunning(p, n) \/ Remove(p, n)
                        \/ PruneSharedNetwork(p) \/ BootStep(p) \/ OtherStep(p)
    \/ \E n \in Names : GuestEnds(n)
    \/ \E o \in orphans : OrphanRun(o)
    \/ Corrupt

Spec == Init /\ [][Next]_vars

-----------------------------------------------------------------------------
\* Every variable keeps its type: no process is given an address past the last.
TypeOK ==
    /\ assigned \in Assignments
    /\ allocLock \in Procs \cup {None}
    /\ gwLock \in Procs \cup {None}
    /\ leases \subseteq Procs
    /\ gateway \in {"none", "old", "api"}
    /\ starting \subseteq Procs
    /\ orphans \subseteq [name : Names, slot : Slots]
    /\ instances \subseteq Names
    /\ vm \in Assignments
    /\ pc \in [Procs -> Labels]
    /\ op \in [Procs -> Ops]
    /\ env \in Envs

\* "Two guests on one address, which is the failure the allocator exists to
\* prevent" (Remove) never run.
NoDuplicate ==
    \A m, n \in Names : vm[m] # 0 /\ vm[m] = vm[n] => m = n

\* Two running guests never have one address, however boots, removals, failures
\* and kills of several brig processes are ordered, as long as the record is not
\* damaged and no two of them work on one sandbox at once.
UniqueAddress == env = {} => NoDuplicate

\* Nobody takes the gateway away from a running guest, or from a boot that has
\* found it up and has not brought its guest up yet: what the lease is for.
GatewayKept ==
    (\E n \in Names : vm[n] # 0) \/ (\E p \in Procs : pc[p] \in Behind)
        => gateway # "none"

\* No write of another process loses the address of a sandbox: in a record that
\* is not damaged it changes only when a removal of the sandbox gives it back.
KeepsAddress ==
    [][\A n \in Names :
          "damage" \notin env /\ assigned[n] # 0 /\ assigned'[n] # assigned[n] =>
              \E p \in Procs : pc[p] = "drop" /\ op[p].name = n]_vars
=============================================================================
