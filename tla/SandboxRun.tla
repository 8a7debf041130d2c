----------------------------- MODULE SandboxRun -----------------------------
(***************************************************************************)
(* The commands on one sandbox, on the hull runtime (internal/wrap         *)
(* config.go, run.go, network.go, home.go; internal/runtime hull.go,       *)
(* posture.go, published.go): what a run loads, whether it keeps the       *)
(* sandbox that runs or boots one, and the records that the next command   *)
(* reads: the posture, the session entry and the publications.             *)
(*                                                                         *)
(* Commands follow one another: brigd holds the lock of the VM across each *)
(* of them, and a user at a terminal waits.  A command may be killed       *)
(* between any two steps, a policy may be attached or detached between     *)
(* commands, and the guest or another tool may end the sandbox.            *)
(***************************************************************************)
EXTENDS Naturals, FiniteSets

CONSTANTS
    Projects,  \* project directories
    Ports      \* publications: [host, guest]

VARIABLES
    sbx,   \* the sandbox: state, network, project, home, and whether it answers
    fwd,   \* the forwards that the gateway has for it
    rcd,   \* the records: posture, session entry, publications
    hom,   \* the temporary guest home: none, fresh, or used by a guest
    rules, \* a policy with egress rules or routes is bound
    cm,    \* the command
    torn   \* what the records do not tell of the sandbox that is there: its boot, when a
           \* run ended before its records or a removal failed; its ports, when a change
           \* of them was cut short

runVars == <<sbx, fwd, rcd, hom, rules, cm, torn>>

NoSandbox == [st |-> "none", net |-> "none", proj |-> "none", home |-> "none", ready |-> FALSE]
NoEntry == [on |-> FALSE, proj |-> "none", home |-> "none"]
NoRecord == [net |-> "none", entry |-> NoEntry, pubs |-> {}]
NoCmd == [op |-> "none", pc |-> "idle", net |-> "none", proj |-> "none", home |-> "none", pubs |-> {},
          recorded |-> "none", recovery |-> "no", asked |-> "none", eff |-> "none",
          kept |-> FALSE, creates |-> FALSE]

RunInit ==
    /\ sbx = NoSandbox /\ fwd = {} /\ rcd = NoRecord
    /\ hom = "none" /\ rules = FALSE
    /\ cm = NoCmd /\ torn = {}

\* The command goes on at pc, or ends.
At(pc) == cm.pc = pc
To(pc) == cm' = [cm EXCEPT !.pc = pc]
\* What was loaded and is not read any more is dropped.
Decided(pc) == cm' = [cm EXCEPT !.pc = pc, !.net = "none", !.recorded = "none", !.kept = FALSE,
                                !.recovery = IF pc = "clear" THEN "no" ELSE @]
Ends == cm' = NoCmd

-----------------------------------------------------------------------------
\* Load: what the command line, the records and the runtime say.

\* rememberedNetwork and the recovery of a posture that no record has: Exists and
\* SandboxNetwork may fail, and then the posture is unknown.
Recovered ==
    IF rcd.entry.on /\ rcd.net # "none" THEN {<<rcd.net, "no">>}
    ELSE IF sbx.st = "none" THEN {<<"none", "absent">>} \cup (IF rcd.entry.on THEN {<<"none", "unknown">>} ELSE {})
    ELSE {<<sbx.net, "recovered">>, <<"none", "unknown">>}

\* The posture: the line's, the recorded one, the default.
Asked(net, recorded) ==
    IF net # "none" THEN net ELSE IF recorded # "none" THEN recorded ELSE "isolated"

\* A policy with rules, or with routes, makes it isolated unless it is offline.
Narrowed(asked) == IF rules /\ asked # "offline" THEN "isolated" ELSE asked

\* mergePublications: a publication takes the place of one on its host port.
Merged(have, add) == {p \in have : \A q \in add : q.host # p.host} \cup add

\* The home: the line's, the remembered one, or the temporary one.
HomeOf(given) ==
    IF given # "none" THEN given ELSE IF rcd.entry.on THEN rcd.entry.home ELSE "temporary"

Load(net, proj, given, pubs) ==
    /\ cm = NoCmd
    /\ \E r \in Recovered :
         cm' = [NoCmd EXCEPT !.op = "run", !.pc = "refuse", !.net = net,
                  !.proj = IF proj # "none" THEN proj ELSE rcd.entry.proj,
                  !.home = HomeOf(given), !.pubs = pubs,
                  !.recorded = r[1], !.recovery = r[2], !.asked = Asked(net, r[1]),
                  !.eff = Narrowed(Asked(net, r[1])),
                  !.kept = given # "none" \/ rcd.entry.on]
    /\ UNCHANGED <<sbx, fwd, rcd, hom, rules, torn>>

-----------------------------------------------------------------------------
\* EnsureRunning.

\* sessionRefusal, with routeRefusal, and backendRefusal.
Refuse ==
    /\ At("refuse")
    /\ \/ ~(cm.recovery = "unknown" /\ cm.net = "none") /\ ~(rules /\ cm.eff = "offline") /\ To("home")
       \/ Ends
    /\ UNCHANGED <<sbx, fwd, rcd, hom, rules, torn>>

\* Changed form of Orphan: the runtime is not asked for the sandbox.
OrphanUnasked == hom # "none" /\ cm.home = "temporary" /\ ~cm.kept

\* reapOrphanHome: a temporary home that nobody remembers and no sandbox is on.
Orphan == hom # "none" /\ cm.home = "temporary" /\ ~cm.kept /\ sbx.st = "none"

\* Exists may fail, which keeps the home.  PrepareWorkspace then makes it.
PrepareHome ==
    /\ At("home")
    /\ \E reaped \in {FALSE, Orphan} :
         /\ cm' = [cm EXCEPT !.pc = "check",
                             !.creates = cm.home = "temporary" /\ ~cm.kept /\ (hom = "none" \/ reaped)]
         /\ hom' = IF cm.home = "temporary" /\ (hom = "none" \/ reaped) THEN "fresh" ELSE hom
    /\ UNCHANGED <<sbx, fwd, rcd, rules, torn>>

\* An error before the boot: the routes are forgotten (BrokerLifecycle) and a home
\* that this run made goes, when the index and the runtime know no owner.
Fails ==
    /\ hom' \in IF cm.creates /\ sbx.st = "none" /\ ~(rcd.entry.on /\ rcd.entry.home = "temporary")
                THEN {hom, "none"} ELSE {hom}
    /\ Ends

\* postureChanged and hull.NetworkStale, which looks at the gateway of an isolated
\* network and at nothing when the run is offline.
postureChanged ==
    IF cm.recovery = "unknown" THEN cm.net # "none" ELSE cm.recorded # "none" /\ cm.asked # cm.recorded
NetworkStale == cm.eff # "offline" /\ (sbx.net = "isolated") # (cm.eff = "isolated")

\* Changed form of Keeps: the project that the sandbox has is not compared.
KeepsAnyProject == ~postureChanged /\ ~NetworkStale /\ sbx.ready /\ sbx.home = cm.home

\* The sandbox that runs is kept: its posture, that it answers, the workspace that
\* it mounts (by its marker file) and the project that the index has for it.
Keeps ==
    /\ ~postureChanged /\ ~NetworkStale
    /\ sbx.ready /\ sbx.home = cm.home
    /\ (IF rcd.entry.on THEN rcd.entry.proj ELSE "none") = cm.proj

\* Running may fail, which ends the command.
Check ==
    /\ At("check")
    /\ \/ Fails /\ UNCHANGED <<sbx, fwd>>
       \/ /\ sbx.st = "running" /\ cm.recovery # "absent" /\ Keeps
          /\ Decided("keep") /\ UNCHANGED <<sbx, fwd, hom>>
       \* the restart: Stop and Remove, each of which may fail
       \/ /\ sbx.st = "running" /\ cm.recovery # "absent" /\ ~Keeps
          /\ ~(cm.recovery = "recovered" /\ cm.net = "none" /\ (postureChanged \/ NetworkStale))
          /\ \/ sbx' = NoSandbox /\ fwd' = {}
             \/ UNCHANGED <<sbx, fwd>>
          /\ Decided("clear") /\ UNCHANGED hom
       \/ sbx.st # "running" /\ Decided("clear") /\ UNCHANGED <<sbx, fwd, hom>>
    /\ UNCHANGED <<rcd, rules, torn>>

\* Runtime.Remove of what is there, and the routes of the boot before.  Then what
\* may refuse the boot: the image's signature, the boot assets, the routes.
Clear ==
    /\ At("clear")
    /\ sbx' \in IF sbx.st = "stopped" THEN {sbx, NoSandbox} ELSE {sbx}
    /\ fwd' = IF sbx' = NoSandbox THEN {} ELSE fwd
    /\ To("verify")
    /\ UNCHANGED <<rcd, hom, rules, torn>>

Verify ==
    /\ At("verify")
    /\ \/ To("forwards") /\ UNCHANGED hom
       \/ Fails
    /\ UNCHANGED <<sbx, fwd, rcd, rules, torn>>

\* hull.Run: the forwards are those of the record and of the line before the guest
\* starts; a boot that fails withdraws them, those of a sandbox that could not be
\* removed too.
Forwards ==
    /\ At("forwards")
    /\ \/ fwd' = (IF cm.eff = "offline" THEN {} ELSE Merged(rcd.pubs, cm.pubs)) /\ To("boot") /\ UNCHANGED hom
       \/ fwd' = {} /\ Fails
    /\ torn' = IF sbx.st = "none" THEN torn ELSE torn \cup {"ports"}
    /\ UNCHANGED <<sbx, rcd, rules>>

Boot ==
    /\ At("boot")
    /\ \/ /\ sbx.st = "none"
          /\ sbx' = [st |-> "running", net |-> cm.eff, proj |-> cm.proj, home |-> cm.home, ready |-> TRUE]
          /\ torn' = {"boot"}
          /\ hom' = IF cm.home = "temporary" THEN "used" ELSE hom
          /\ To("pubs") /\ UNCHANGED fwd
       \/ fwd' = {} /\ Fails /\ UNCHANGED <<sbx, torn>>
    /\ UNCHANGED <<rcd, rules>>

\* After the boot: recordPublications, whose failure ends the run, recordPosture,
\* which warns when it fails, rememberSession, which does too, and waitReady.
RecordPubs ==
    /\ At("pubs")
    /\ \/ rcd' = [rcd EXCEPT !.pubs = Merged(@, cm.pubs)] /\ To("posture")
       \/ cm.pubs # {} /\ Ends /\ UNCHANGED rcd
    /\ UNCHANGED <<sbx, fwd, hom, rules, torn>>

RecordPosture ==
    /\ At("posture")
    /\ \/ rcd' = [rcd EXCEPT !.net = cm.asked] /\ To("session")
       \/ To("unrecorded") /\ UNCHANGED rcd
    /\ UNCHANGED <<sbx, fwd, hom, rules, torn>>

Entry == [on |-> TRUE, proj |-> cm.proj, home |-> cm.home]

RememberSession ==
    /\ cm.pc \in {"session", "unrecorded"}
    /\ \/ rcd' = [rcd EXCEPT !.entry = Entry] /\ torn' = IF cm.pc = "unrecorded" THEN torn ELSE {}
       \/ rcd.entry # Entry /\ UNCHANGED <<rcd, torn>>
    /\ sbx' \in {sbx, [sbx EXCEPT !.ready = FALSE]}
    /\ Ends
    /\ UNCHANGED <<fwd, hom, rules>>

\* The sandbox is kept: rememberSession, the posture when it was recovered, and
\* publishLive of each port, which may fail (hull.Publish).
KeepRecord ==
    /\ At("keep")
    /\ rcd' = [rcd EXCEPT !.entry = Entry, !.net = IF cm.recovery = "recovered" THEN cm.asked ELSE @]
    /\ IF cm.pubs = {} THEN Ends ELSE To("publish")
    /\ UNCHANGED <<sbx, fwd, hom, rules, torn>>

-----------------------------------------------------------------------------
\* Ports, stop and removal.

\* hull.Publish: what is on the host port is withdrawn, then the forward is asked
\* for, then the record is written.
PublishForward ==
    /\ At("publish")
    /\ sbx.st = "running" /\ sbx.net # "offline"
    /\ \E p \in cm.pubs :
         LET rest == {q \in fwd : q.host # p.host \/ q = p} IN
         \/ fwd' = rest \cup {p} /\ UNCHANGED torn /\ To("published")
         \/ p \notin fwd /\ fwd' = rest /\ torn' = torn \cup {"ports"} /\ Ends
    /\ UNCHANGED <<sbx, rcd, hom, rules>>

PublishRefused ==
    /\ At("publish")
    /\ sbx.st # "running" \/ sbx.net = "offline"
    /\ Ends
    /\ UNCHANGED <<sbx, fwd, rcd, hom, rules, torn>>

PublishRecord ==
    /\ At("published")
    /\ \/ rcd' = [rcd EXCEPT !.pubs = Merged(@, cm.pubs)] /\ UNCHANGED torn
       \/ torn' = torn \cup {"ports"} /\ UNCHANGED rcd
    /\ Ends
    /\ UNCHANGED <<sbx, fwd, hom, rules>>

\* brig network publish: of a sandbox that does not run, only the record.
PublishPorts(p) ==
    /\ cm = NoCmd
    /\ \/ sbx.st = "running" /\ cm' = [NoCmd EXCEPT !.op = "publish", !.pc = "publish", !.pubs = {p}] /\ UNCHANGED rcd
       \/ sbx.st # "running" /\ rcd' = [rcd EXCEPT !.pubs = Merged(@, {p})] /\ UNCHANGED cm
    /\ UNCHANGED <<sbx, fwd, hom, rules, torn>>

\* hull.Unpublish: the record goes first, and even when the gateway cannot be told.
UnpublishPorts(p) ==
    /\ cm = NoCmd
    /\ p \in rcd.pubs
    /\ rcd' = [rcd EXCEPT !.pubs = @ \ {p}]
    /\ IF sbx.st = "running"
       THEN cm' = [NoCmd EXCEPT !.op = "unpublish", !.pc = "withdraw", !.pubs = {p}]
       ELSE UNCHANGED cm
    /\ UNCHANGED <<sbx, fwd, hom, rules, torn>>

Withdraw ==
    /\ At("withdraw")
    /\ \/ fwd' = fwd \ cm.pubs /\ UNCHANGED torn
       \/ torn' = torn \cup {"ports"} /\ UNCHANGED fwd
    /\ Ends
    /\ UNCHANGED <<sbx, rcd, hom, rules>>

\* Config.Stop: hull stop, and the forwards when it succeeds.
StopSandbox ==
    /\ cm = NoCmd
    /\ sbx.st = "running"
    /\ sbx' = [sbx EXCEPT !.st = "stopped", !.ready = FALSE] /\ fwd' = {}
    /\ UNCHANGED <<rcd, hom, rules, cm, torn>>

\* Config.Remove: Stop, Remove, the temporary home when that succeeded, and then
\* the session entry, the publications and the posture, whether or not it did.
RemoveBegin ==
    /\ cm = NoCmd
    /\ sbx.st # "none" \/ rcd # NoRecord
    /\ \/ sbx' = NoSandbox /\ fwd' = {} /\ cm' = [NoCmd EXCEPT !.op = "rm", !.pc = "rmhome"] /\ UNCHANGED torn
       \/ /\ sbx.st # "none"
          /\ cm' = [NoCmd EXCEPT !.op = "rm", !.pc = "rmentry"] /\ torn' = torn \cup {"boot"}
          /\ UNCHANGED <<sbx, fwd>>
    /\ UNCHANGED <<rcd, hom, rules>>

RemoveHome ==
    /\ At("rmhome")
    /\ hom' \in IF rcd.entry.on /\ rcd.entry.home = "temporary" THEN {hom, "none"} ELSE {hom}
    /\ To("rmentry")
    /\ UNCHANGED <<sbx, fwd, rcd, rules, torn>>

ForgetEntry ==
    /\ At("rmentry")
    /\ rcd' = [rcd EXCEPT !.entry = NoEntry] /\ To("rmpubs")
    /\ UNCHANGED <<sbx, fwd, hom, rules, torn>>

ForgetRest ==
    /\ At("rmpubs")
    /\ \/ rcd' = NoRecord
       \/ rcd' = [rcd EXCEPT !.pubs = {}]
    /\ Ends
    /\ UNCHANGED <<sbx, fwd, hom, rules, torn>>

-----------------------------------------------------------------------------
\* Others.

\* brig ls prunes the entry, the publications and the posture of a sandbox that
\* the runtime does not list (PruneSessions, PrunePublications, PruneBootedNets).
Prune ==
    /\ cm = NoCmd
    /\ sbx.st = "none" /\ rcd # NoRecord
    /\ rcd' = NoRecord
    /\ UNCHANGED <<sbx, fwd, hom, rules, cm, torn>>

\* The guest ends or stops answering, hull rm by hand, a policy attached or
\* detached, and a command that is killed.
GuestEnds ==
    /\ sbx.st = "running"
    /\ \/ sbx' = [sbx EXCEPT !.st = "stopped", !.ready = FALSE]
       \/ sbx.ready /\ sbx' = [sbx EXCEPT !.ready = FALSE]
    /\ UNCHANGED <<fwd, rcd, hom, rules, cm, torn>>

RemovedOutside ==
    /\ cm = NoCmd
    /\ sbx.st = "stopped" /\ sbx' = NoSandbox
    /\ UNCHANGED <<fwd, rcd, hom, rules, cm, torn>>

Attach ==
    /\ cm = NoCmd
    /\ rules' = ~rules
    /\ UNCHANGED <<sbx, fwd, rcd, hom, cm, torn>>

Killed ==
    /\ cm # NoCmd
    /\ torn' = IF cm.pc \in {"published", "withdraw"} THEN torn \cup {"ports"} ELSE torn
    /\ Ends
    /\ UNCHANGED <<sbx, fwd, rcd, hom, rules>>

RunNext ==
    \/ \E net \in {"none", "shared", "isolated", "offline"}, proj \in Projects \cup {"none"},
          given \in {"none", "given"}, pubs \in {{}} \cup {{p} : p \in Ports} :
            \* bound: one of a network, a home and a port per line
            /\ pubs # {} => net = "none" /\ given = "none"
            /\ given # "none" => net = "none"
            /\ Load(net, proj, given, pubs)
    \/ Refuse \/ PrepareHome \/ Check \/ Clear \/ Verify \/ Forwards \/ Boot
    \/ RecordPubs \/ RecordPosture \/ RememberSession \/ KeepRecord
    \/ PublishForward \/ PublishRefused \/ PublishRecord
    \/ \E p \in Ports : PublishPorts(p) \/ UnpublishPorts(p)
    \/ Withdraw \/ StopSandbox \/ RemoveBegin \/ RemoveHome \/ ForgetEntry \/ ForgetRest
    \/ Prune \/ GuestEnds \/ RemovedOutside \/ Attach \/ Killed

RunSpec == RunInit /\ [][RunNext]_runVars

-----------------------------------------------------------------------------
\* Properties.

\* A sandbox on a temporary home keeps that home: no run that reaps a home without an
\* owner, no run that failed and no removal that failed deletes the home of a
\* sandbox that exists, whichever records earlier commands left (home.go:145-205).
HomeKept == sbx.st # "none" /\ sbx.home = "temporary" => hom = "used"

\* A run that keeps the sandbox which is up hands its user what this run asked
\* for: the network, no wider than the policy bound now allows, the project and
\* the home; and between commands the gateway forwards the ports of the record,
\* each host port once.  A sandbox whose records were not all written, or were
\* dropped by a removal that failed, is excepted: what they say is then of the
\* boot before (run.go:241-313, hull.go:973-1072).
ReuseFits ==
    /\ cm.pc = "keep" /\ "boot" \notin torn =>
         /\ sbx.net = cm.eff
         /\ rules => sbx.net # "shared"
         /\ sbx.proj = cm.proj /\ sbx.home = cm.home
    /\ cm = NoCmd /\ sbx.st = "running" /\ sbx.net # "offline" /\ torn = {} =>
         /\ fwd = rcd.pubs
         /\ \A p, q \in fwd : p.host = q.host => p = q
=============================================================================
