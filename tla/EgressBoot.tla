----------------------------- MODULE EgressBoot -----------------------------
(***************************************************************************)
(* The egress filter of one sandbox around its boots and stops, on the     *)
(* nerdctl runtime (internal/runtime nerdctl.go, nerdctlegress.go): brig   *)
(* processes that run, stop, remove and prune a sandbox, the container,    *)
(* the resolver process, its table, its records, and the lock per sandbox. *)
(* What the resolver does while it runs is in EgressTable.                 *)
(***************************************************************************)
EXTENDS Naturals

CONSTANT Brigs  \* brig processes at once

ASSUME BootAssumption == "nobody" \notin Brigs

VARIABLES
    ctr,   \* the container: none, running, stopped, and whether it was booted under rules
    res,   \* the resolver process runs
    tab,   \* the table is installed
    recs,  \* its records: none, the log of one that failed to start, or pid and spec
    lck,   \* who holds the egress lock of the sandbox, or nobody
    brig,  \* the processes: what they do and where they are
    raced  \* an unmanaged boot took the rules of another boot: see BootStopOld

bootVars == <<ctr, res, tab, recs, lck, brig, raced>>

NoBrig == [op |-> "none", pc |-> "idle", table |-> FALSE]

BootInit ==
    /\ ctr = [state |-> "none", ruled |-> FALSE]
    /\ res = FALSE /\ tab = FALSE
    /\ recs = "none"
    /\ lck = "nobody"
    /\ brig = [p \in Brigs |-> NoBrig]
    /\ raced = FALSE

hasEgressFiles == recs # "none"
hasEgressRecord == recs = "pid"

\* p goes on at pc, and gives the lock back when it is done.
Goes(p, pc) ==
    /\ brig' = [brig EXCEPT ![p] = IF pc = "done" THEN NoBrig ELSE [@ EXCEPT !.pc = pc]]
    /\ lck' = IF pc = "done" /\ lck = p THEN "nobody" ELSE lck

\* stopEgress: the resolver that the records name is signalled; it may survive,
\* and keeps its records and table then.  Else the table goes when a resolver was
\* recorded (nft may fail), and then the records.
stopEgress(gone) ==
    \/ /\ ~gone
       /\ res /\ hasEgressRecord
       /\ UNCHANGED <<res, tab, recs>>
    \/ /\ gone
       /\ res' = (res /\ ~hasEgressRecord)
       /\ tab' \in IF hasEgressRecord THEN {FALSE, tab} ELSE {tab}
       /\ recs' = "none"

\* Changed form of Confirmed: the rules go with the stop, whatever became of it.
ConfirmedNot == TRUE

\* n.Running says, without an error, that the container does not run.
Confirmed == ctr.state # "running"

\* dropEgressLocked: only of a sandbox that is confirmed stopped; Running may fail.
dropEgressLocked ==
    \/ Confirmed /\ \E gone \in BOOLEAN : stopEgress(gone)
    \/ UNCHANGED <<res, tab, recs>>

Begin(p, op) ==
    /\ brig[p].pc = "idle"
    /\ brig' = [brig EXCEPT ![p] = [op |-> op, pc |-> op, table |-> FALSE]]
    /\ UNCHANGED <<ctr, res, tab, recs, lck, raced>>

-----------------------------------------------------------------------------
\* nerdctl.Run, of a sandbox with rules (run) or without (runopen).

Managed(p) == brig[p].op = "run"

\* The lock is for a boot with rules, and for one that finds files of an egress.
BootLook(p) ==
    /\ brig[p].pc \in {"run", "runopen"}
    /\ Goes(p, IF Managed(p) \/ hasEgressFiles THEN "lock" ELSE "stopold")
    /\ UNCHANGED <<ctr, res, tab, recs, raced>>

BootLock(p) ==
    /\ brig[p].pc = "lock"
    /\ lck = "nobody"
    /\ lck' = p
    /\ brig' = [brig EXCEPT ![p].pc = "check"]
    /\ UNCHANGED <<ctr, res, tab, recs, raced>>

\* Already running, or Running failed: the rules are left alone.
BootCheck(p) ==
    /\ brig[p].pc = "check"
    /\ \/ ctr.state # "running" /\ Goes(p, IF Managed(p) THEN "start" ELSE "stopold")
       \/ Goes(p, "done")
    /\ UNCHANGED <<ctr, res, tab, recs, raced>>

\* startEgress: the resolver of the boot before is stopped first.
BootStart(p) ==
    /\ brig[p].pc = "start"
    /\ \E gone \in BOOLEAN : stopEgress(gone) /\ Goes(p, IF gone THEN "starting" ELSE "done")
    /\ UNCHANGED <<ctr, raced>>

\* startResolver: it installs the table, binds and is recorded, or it fails, and
\* then the table is deleted unless nft fails too; its log stays.
BootStarted(p) ==
    /\ brig[p].pc = "starting"
    /\ \/ /\ ~res /\ res' = TRUE
          /\ tab' = TRUE
          /\ recs' = "pid"
          /\ Goes(p, "nerdctl")
       \/ /\ recs' = "log"
          /\ tab' \in BOOLEAN
          /\ Goes(p, "done")
          /\ UNCHANGED res
    /\ UNCHANGED <<ctr, raced>>

\* A boot without rules stops what the boot before left, with the lock or without
\* it.  Without it, another process may have booted the sandbox under rules since
\* BootLook.
BootStopOld(p) ==
    /\ brig[p].pc = "stopold"
    /\ \E gone \in BOOLEAN : stopEgress(gone) /\ Goes(p, IF gone THEN "nerdctl" ELSE "done")
    /\ raced' = (raced \/ (lck # p /\ hasEgressFiles))
    /\ UNCHANGED ctr

\* nerdctl run: it fails when the name is taken, and may fail otherwise; the rules
\* of a boot that failed go.
BootRun(p) ==
    /\ brig[p].pc = "nerdctl"
    /\ \/ /\ ctr.state = "none"
          /\ ctr' = [state |-> "running", ruled |-> Managed(p)]
          /\ Goes(p, IF Managed(p) THEN "up" ELSE "done")
          /\ UNCHANGED <<res, tab, recs>>
       \/ /\ IF Managed(p) THEN dropEgressLocked ELSE UNCHANGED <<res, tab, recs>>
          /\ Goes(p, "done")
          /\ UNCHANGED ctr
    /\ UNCHANGED raced

\* requireInterface: the bridge is where the rules are, or the container goes.
BootUp(p) ==
    /\ brig[p].pc = "up"
    /\ \/ Goes(p, "done") /\ UNCHANGED ctr
       \/ ctr' = [state |-> "none", ruled |-> FALSE] /\ Goes(p, "drop")
    /\ UNCHANGED <<res, tab, recs, raced>>

-----------------------------------------------------------------------------
\* Stop, Remove and the prune.

\* nerdctl stop, or nerdctl rm, which fails on one that runs; either may fail.
\* dropEgress takes the lock when there are files.
StopCtr(p) ==
    /\ brig[p].pc \in {"stop", "remove"}
    /\ \/ UNCHANGED ctr
       \/ brig[p].op = "stop" /\ ctr.state = "running" /\ ctr' = [ctr EXCEPT !.state = "stopped"]
       \/ brig[p].op = "remove" /\ ctr.state = "stopped" /\ ctr' = [state |-> "none", ruled |-> FALSE]
    /\ Goes(p, IF hasEgressFiles THEN "droplock" ELSE "done")
    /\ UNCHANGED <<res, tab, recs, raced>>

DropLock(p) ==
    /\ brig[p].pc = "droplock"
    /\ lck = "nobody"
    /\ lck' = p
    /\ brig' = [brig EXCEPT ![p].pc = "drop"]
    /\ UNCHANGED <<ctr, res, tab, recs, raced>>

Drop(p) ==
    /\ brig[p].pc = "drop" /\ brig[p].op # "prune"
    /\ dropEgressLocked
    /\ Goes(p, "done")
    /\ UNCHANGED <<ctr, raced>>

\* pruneEgress: the sandbox was not in the list that reset read before, and has
\* files, or a table that the listing shows.  It is looked at again under the lock.
PruneLook(p) ==
    /\ brig[p].pc = "prune"
    /\ \/ Goes(p, "done")
       \/ /\ hasEgressFiles \/ tab
          /\ brig' = [brig EXCEPT ![p] = [@ EXCEPT !.pc = "droplock", !.table = tab]]
          /\ UNCHANGED lck
    /\ UNCHANGED <<ctr, res, tab, recs, raced>>

PruneDrop(p) ==
    /\ brig[p].pc = "drop" /\ brig[p].op = "prune"
    /\ \/ /\ Confirmed
          /\ \E gone \in BOOLEAN : stopEgress(gone)
          /\ Goes(p, IF brig[p].table THEN "delete" ELSE "done")
       \/ Goes(p, "done") /\ UNCHANGED <<res, tab, recs>>
    /\ UNCHANGED <<ctr, raced>>

\* The table that the listing showed goes, whether or not it was recorded.
PruneDelete(p) ==
    /\ brig[p].pc = "delete"
    /\ tab' \in {FALSE, tab}
    /\ Goes(p, "done")
    /\ UNCHANGED <<ctr, res, recs, raced>>

-----------------------------------------------------------------------------
\* A container that ends by itself.
Exits ==
    /\ ctr.state = "running"
    /\ ctr' = [ctr EXCEPT !.state = "stopped"]
    /\ UNCHANGED <<res, tab, recs, lck, brig, raced>>

\* A resolver that is killed; its table stays and refuses new connections.
ResolverDies ==
    /\ res
    /\ res' = FALSE
    /\ UNCHANGED <<ctr, tab, recs, lck, brig, raced>>

BootNext ==
    \/ Exits \/ ResolverDies
    \/ \E p \in Brigs :
         \/ \E op \in {"run", "runopen", "stop", "remove", "prune"} : Begin(p, op)
         \/ BootLook(p) \/ BootLock(p) \/ BootCheck(p) \/ BootStart(p) \/ BootStarted(p)
         \/ BootStopOld(p) \/ BootRun(p) \/ BootUp(p)
         \/ StopCtr(p) \/ DropLock(p) \/ Drop(p) \/ PruneLook(p) \/ PruneDrop(p) \/ PruneDelete(p)

BootSpec == BootInit /\ [][BootNext]_bootVars

-----------------------------------------------------------------------------
\* While a sandbox that was booted under rules runs, its table is there: no
\* stop that failed, no prune with an old list and no second boot takes it
\* (nerdctlegress.go:45-50).  The one way that is left is a boot without rules
\* that looked for files before a boot with rules wrote any, and stops what it
\* finds without the lock (nerdctl.go:429-449).
RunningFiltered == ctr.state = "running" /\ ctr.ruled /\ ~raced => tab
=============================================================================
