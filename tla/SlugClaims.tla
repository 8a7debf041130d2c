----------------------------- MODULE SlugClaims -----------------------------
(***************************************************************************)
(* Which session name owns a sandbox (slugclaim.go), and the session index *)
(* beside it (index.go).                                                   *)
(*                                                                         *)
(* Two names can be sanitised to one sandbox, and a name has a sandbox for *)
(* each profile (or one, under BRIG_NAME).  The first name to take a       *)
(* sandbox writes a claim, a run under another name is refused, and a      *)
(* removal drops the claim.  A run without a name claims nothing and is    *)
(* never refused; its sandbox may be a named run's, as BRIG_NAME or a      *)
(* profile called like a session of another makes it.                      *)
(*                                                                         *)
(* Claims and session entries are two files, each read whole and replaced  *)
(* whole without a lock.  An older release kept its claims in the file of  *)
(* the session index, and the first read carries them across.              *)
(***************************************************************************)
EXTENDS FiniteSets, Naturals

CONSTANTS Procs,        \* brig processes
          Names, VMs,   \* session names, sandboxes
          lands,        \* the sandboxes each name becomes, in one profile or another
          Unnamed,      \* the names that stand for a run without one
          Envs,         \* what may happen in a behaviour, see env
          None, Absent

ASSUME SlugAssumption ==
    /\ lands \in [Names -> SUBSET VMs]
    /\ Unnamed \subseteq Names
    /\ Envs \subseteq SUBSET {"concurrent", "faults"}
    /\ None \notin Names \cup VMs
    /\ Absent \notin [VMs -> Names \cup {None}]

Claims == [VMs -> Names \cup {None}]
NoClaims == [v \in VMs |-> None]

VARIABLES
    claims,     \* slug-claims.json: the owner of each sandbox, or Absent
    sessions,   \* sessions.json: the claims of an older release, or the
                \* sandboxes the session index has an entry for
    live,       \* the sandboxes the runtime has
    users,      \* the names that were let into a sandbox since it was created
    pc, op,     \* where each process is, and its locals
    env         \* whether, in this behaviour, several brig processes run at once,
                \* and writes and the runtime's removals may fail

files == <<claims, sessions>>
guests == <<live, users>>
vars == <<files, guests, pc, op, env>>

Ops == [verb : {"none", "run", "rm", "forget", "ls"}, name : Names \cup {None},
        vm : VMs \cup {None}, claims : Claims, set : SUBSET VMs]
NoOp == [verb |-> "none", name |-> None, vm |-> None, claims |-> NoClaims, set |-> {}]

Labels == {"idle", "stat", "old", "carry", "removeOld", "read", "claim", "boot",
           "remember", "record", "rm", "forget", "drop", "unclaim", "list",
           "prune", "pruned"}

Sessions == [claims : Claims, entries : SUBSET VMs]

\* The host of an older release: sandboxes whose names claimed them, and its
\* claims in sessions.json.
Init ==
    /\ \E old \in {c \in Claims : \A v \in VMs : c[v] # None =>
                      c[v] \notin Unnamed /\ v \in lands[c[v]]} :
          /\ sessions = [claims |-> old, entries |-> {}]
          /\ live = {v \in VMs : old[v] # None}
          /\ users = [v \in VMs |-> {old[v]} \ {None}]
    /\ claims = Absent
    /\ pc = [p \in Procs |-> "idle"]
    /\ op = [p \in Procs |-> NoOp]
    /\ env \in Envs

-----------------------------------------------------------------------------
goto(p, label) == pc' = [pc EXCEPT ![p] = label]

return(p) == goto(p, "idle") /\ op' = [op EXCEPT ![p] = NoOp]

begin(p, label, o) ==
    /\ pc[p] = "idle"
    /\ "concurrent" \in env \/ \A q \in Procs : pc[q] = "idle"
    /\ goto(p, label)
    /\ op' = [op EXCEPT ![p] = o]
    /\ UNCHANGED <<files, guests, env>>

\* EnsureRunning asks claimSlug first.
EnsureRunning(p, n, v) ==
    begin(p, "stat", [NoOp EXCEPT !.verb = "run", !.name = n, !.vm = v])

\* brig rm of a sandbox the runtime has, and of one it does not.
Remove(p, v) ==
    \/ v \in live /\ begin(p, "rm", [NoOp EXCEPT !.verb = "rm", !.vm = v])
    \/ v \notin live /\ begin(p, "forget", [NoOp EXCEPT !.verb = "forget", !.vm = v])

List(p) == begin(p, "list", [NoOp EXCEPT !.verb = "ls"])

\* writeIndex replaces a file, or fails and leaves it as it was.
writeIndex(written, kept) == written \/ ("faults" \in env /\ kept)

-----------------------------------------------------------------------------
\* Mutant: an unnamed run claims nothing, and does not look.
StatNamed(p) ==
    /\ pc[p] = "stat"
    /\ \/ op[p].name \in Unnamed /\ goto(p, "boot")
       \/ op[p].name \notin Unnamed /\ goto(p, IF claims = Absent THEN "old" ELSE "read")
    /\ UNCHANGED <<files, guests, op, env>>

\* migrateSlugClaims, the stat: the file of the claims is there, or not.
Stat(p) ==
    /\ pc[p] = "stat"
    /\ goto(p, IF claims = Absent THEN "old" ELSE "read")
    /\ UNCHANGED <<files, guests, op, env>>

\* Mutant: whatever entries are in sessions.json are carried across.
ReadOldAny(p) ==
    /\ pc[p] = "old"
    /\ \/ /\ sessions.claims = NoClaims /\ sessions.entries = {}
          /\ goto(p, "read") /\ UNCHANGED op
       \/ /\ sessions.claims # NoClaims \/ sessions.entries # {}
          /\ goto(p, "carry")
          /\ op' = [op EXCEPT ![p].claims = sessions.claims]
    /\ UNCHANGED <<files, guests, env>>

\* Session entries do not parse as claims, and there is nothing to carry.
ReadOld(p) ==
    /\ pc[p] = "old"
    /\ \/ /\ sessions.claims = NoClaims
          /\ goto(p, "read") /\ UNCHANGED op
       \/ /\ sessions.claims # NoClaims
          /\ goto(p, "carry")
          /\ op' = [op EXCEPT ![p].claims = sessions.claims]
    /\ UNCHANGED <<files, guests, env>>

Carry(p) ==
    /\ pc[p] = "carry"
    /\ writeIndex(claims' = op[p].claims /\ goto(p, "removeOld"),
                  UNCHANGED claims /\ goto(p, "read"))
    /\ UNCHANGED <<sessions, guests, op, env>>

\* os.Remove of sessions.json, whatever is in it by now.
RemoveOld(p) ==
    /\ pc[p] = "removeOld"
    /\ writeIndex(sessions' = [claims |-> NoClaims, entries |-> {}], UNCHANGED sessions)
    /\ goto(p, "read")
    /\ UNCHANGED <<claims, guests, op, env>>

\* readIndex: a file that is not there reads as an empty map.
readClaims == IF claims = Absent THEN NoClaims ELSE claims

copies(p, c, label) == op' = [op EXCEPT ![p].claims = c] /\ goto(p, label)

\* Mutant: the claim of another name does not refuse the run.
ReadTakes(p) ==
    /\ pc[p] = "read"
    /\ \/ op[p].verb = "run" /\ op[p].name \in Unnamed /\ copies(p, NoClaims, "boot")
       \/ op[p].verb = "run" /\ op[p].name \notin Unnamed /\ copies(p, readClaims, "claim")
       \/ op[p].verb # "run" /\ copies(p, readClaims, "unclaim")
    /\ UNCHANGED <<files, guests, env>>

\* The read of claimSlug and of ForgetSlugClaim, and what follows from it: the
\* run goes on, claims the sandbox first, or is refused; the removal drops the
\* claim, or there is none.
Read(p) ==
    LET o == op[p]
        owner == readClaims[o.vm] IN
    /\ pc[p] = "read"
    /\ \/ /\ o.verb = "run" /\ (o.name \in Unnamed \/ owner = o.name)
          /\ copies(p, NoClaims, "boot")
       \/ /\ o.verb = "run" /\ o.name \notin Unnamed /\ owner = None
          /\ copies(p, readClaims, "claim")
       \/ /\ o.verb = "run" /\ o.name \notin Unnamed /\ owner \notin {None, o.name}
          /\ return(p)
       \/ /\ o.verb # "run" /\ owner # None
          /\ copies(p, readClaims, "unclaim")
       \/ /\ o.verb # "run" /\ owner = None
          /\ return(p)
    /\ UNCHANGED <<files, guests, env>>

\* The write of claimSlug.  A claim that is not written is a warning.
claimSlug(p) ==
    /\ pc[p] = "claim"
    /\ writeIndex(claims' = [op[p].claims EXCEPT ![op[p].vm] = op[p].name],
                  UNCHANGED claims)
    /\ copies(p, NoClaims, "boot")
    /\ UNCHANGED <<sessions, guests, env>>

ForgetSlugClaim(p) ==
    /\ pc[p] = "unclaim"
    /\ writeIndex(claims' = [op[p].claims EXCEPT ![op[p].vm] = None], UNCHANGED claims)
    /\ return(p)
    /\ UNCHANGED <<sessions, guests, env>>

-----------------------------------------------------------------------------
\* The rest of EnsureRunning: the run is refused or its boot fails, or the
\* sandbox is up and the name's agent in it.
Boot(p) ==
    /\ pc[p] = "boot"
    /\ \/ return(p) /\ UNCHANGED guests
       \/ /\ live' = live \cup {op[p].vm}
          /\ users' = [users EXCEPT ![op[p].vm] = @ \cup {op[p].name}]
          /\ goto(p, "remember") /\ UNCHANGED op
    /\ UNCHANGED <<files, env>>

\* rememberSession: an entry that is there is not written again.
Remember(p) ==
    /\ pc[p] = "remember"
    /\ \/ op[p].vm \in sessions.entries /\ return(p)
       \/ /\ op[p].vm \notin sessions.entries
          /\ op' = [op EXCEPT ![p].set = sessions.entries]
          /\ goto(p, "record")
    /\ UNCHANGED <<files, guests, env>>

\* Session entries replace whatever the file held.
writeEntries(set) == sessions' = [claims |-> NoClaims, entries |-> set]

Record(p) ==
    /\ pc[p] = "record"
    /\ writeIndex(writeEntries(op[p].set \cup {op[p].vm}), UNCHANGED sessions)
    /\ return(p)
    /\ UNCHANGED <<claims, guests, env>>

\* The runtime's removal.  The record and the claim go whether it failed or not.
RuntimeRemove(p) ==
    /\ pc[p] = "rm"
    /\ writeIndex(/\ live' = live \ {op[p].vm}
                  /\ users' = [users EXCEPT ![op[p].vm] = {}],
                  UNCHANGED guests)
    /\ goto(p, "forget")
    /\ UNCHANGED <<files, op, env>>

\* ForgetSandbox, the read.
Forget(p) ==
    /\ pc[p] = "forget"
    /\ \/ op[p].vm \notin sessions.entries /\ goto(p, "stat") /\ UNCHANGED op
       \/ /\ op[p].vm \in sessions.entries
          /\ op' = [op EXCEPT ![p].set = sessions.entries]
          /\ goto(p, "drop")
    /\ UNCHANGED <<files, guests, env>>

\* The write.  rm of a sandbox the runtime does not have stops when it fails.
ForgetSandbox(p) ==
    /\ pc[p] = "drop"
    /\ \/ writeEntries(op[p].set \ {op[p].vm}) /\ goto(p, "stat") /\ UNCHANGED op
       \/ "faults" \in env /\ op[p].verb = "rm" /\ goto(p, "stat") /\ UNCHANGED <<sessions, op>>
       \/ "faults" \in env /\ op[p].verb = "forget" /\ return(p) /\ UNCHANGED sessions
    /\ UNCHANGED <<claims, guests, env>>

-----------------------------------------------------------------------------
\* brig ls asks the runtime, and PruneSessions drops the entries of sandboxes
\* it did not list.
ListLive(p) ==
    /\ pc[p] = "list"
    /\ op' = [op EXCEPT ![p].set = live]
    /\ goto(p, "prune")
    /\ UNCHANGED <<files, guests, env>>

Prune(p) ==
    /\ pc[p] = "prune"
    /\ \/ sessions.entries \subseteq op[p].set /\ return(p)
       \/ /\ ~(sessions.entries \subseteq op[p].set)
          /\ op' = [op EXCEPT ![p].set = @ \cap sessions.entries]
          /\ goto(p, "pruned")
    /\ UNCHANGED <<files, guests, env>>

PruneSessions(p) ==
    /\ pc[p] = "pruned"
    /\ writeIndex(writeEntries(op[p].set), UNCHANGED sessions)
    /\ return(p)
    /\ UNCHANGED <<claims, guests, env>>

\* A sandbox is removed with the runtime's own CLI.
RuntimeLoses(v) ==
    /\ v \in live
    /\ live' = live \ {v}
    /\ users' = [users EXCEPT ![v] = {}]
    /\ UNCHANGED <<files, pc, op, env>>

\* brig is killed.
Crash(p) ==
    /\ pc[p] # "idle"
    /\ return(p)
    /\ UNCHANGED <<files, guests, env>>

Step(p) ==
    \/ \E n \in Names : \E v \in lands[n] : EnsureRunning(p, n, v)
    \/ \E v \in VMs : Remove(p, v)
    \/ List(p)
    \/ Stat(p) \/ ReadOld(p) \/ Carry(p) \/ RemoveOld(p) \/ Read(p)
    \/ claimSlug(p) \/ ForgetSlugClaim(p) \/ Boot(p) \/ Remember(p) \/ Record(p)
    \/ RuntimeRemove(p) \/ Forget(p) \/ ForgetSandbox(p)
    \/ ListLive(p) \/ Prune(p) \/ PruneSessions(p) \/ Crash(p)

Next ==
    \/ \E p \in Procs : Step(p)
    \/ \E v \in VMs : RuntimeLoses(v)

Spec == Init /\ [][Next]_vars

-----------------------------------------------------------------------------
\* Every variable keeps its type: a file that is not there is read as no claims.
TypeOK ==
    /\ claims \in Claims \cup {Absent}
    /\ sessions \in Sessions
    /\ live \subseteq VMs
    /\ users \in [VMs -> SUBSET Names]
    /\ pc \in [Procs -> Labels]
    /\ op \in [Procs -> Ops]
    /\ env \in Envs

\* No two session names are ever let into one sandbox: "a later run whose name
\* lands on the same sandbox but is not that name is refused" (slugclaim.go).
NeverShared == \A v \in VMs : Cardinality(users[v] \ Unnamed) <= 1

\* Commands that run one at a time and whose writes succeed let no two session
\* names into one sandbox ("Sharing it would put both agents in one home
\* directory with whichever credentials arrived last"), over what an older
\* release left, beside runs without a name in the same sandboxes, and wherever
\* a command is killed.
OneHome == env = {} => NeverShared

\* A name that owns a sandbox keeps it until a removal of the sandbox drops the
\* claim: no run of another name takes it over, with failed writes and kills.
KeepsClaim ==
    [][\A v \in VMs : "concurrent" \notin env /\ claims # Absent =>
          \/ claims[v] = None \/ claims'[v] = claims[v]
          \/ \E p \in Procs : pc[p] = "unclaim" /\ op[p].vm = v]_vars

\* The entry of a sandbox the runtime has goes only with a removal of it: not
\* with the prune of others, and not with the migration of the claims, which
\* "cannot delete a session entry".
KeepsEntry ==
    [][\A v \in sessions.entries \cap live :
          \/ "concurrent" \in env
          \/ v \in sessions'.entries
          \/ \E p \in Procs : pc[p] = "drop" /\ op[p].vm = v]_vars

\* What a command wrote down outlives the others: no step but a removal of the
\* sandbox takes its claim or its session entry, with kills anywhere.
KeepsSessions == KeepsClaim /\ KeepsEntry
=============================================================================
