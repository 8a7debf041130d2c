-------------------------- MODULE SlugClaimsProofs --------------------------
(***************************************************************************)
(* What TLAPS proves of SlugClaims, for any names and sandboxes: while     *)
(* brig commands run one at a time and their writes succeed, no two        *)
(* session names are let into one sandbox, over the claims of an older     *)
(* release and with commands killed at any step.                           *)
(* And, failed writes or not, nothing but a removal of the sandbox takes   *)
(* its claim or its session entry.                                         *)
(***************************************************************************)
EXTENDS SlugClaims, FiniteSetTheorems, TLAPS

\* What a process's locals hold at a label: whose run or removal it is.
Fits(l, o) ==
    /\ l \in {"claim", "boot", "remember", "record"} => o.verb = "run"
    /\ l \in {"rm", "forget", "drop", "unclaim"} => o.verb \in {"rm", "forget"}
    /\ l \in {"stat", "old", "carry", "removeOld", "read"} =>
          o.verb \in {"run", "rm", "forget"}
    /\ o.verb = "run" => o.name \in Names /\ o.vm \in VMs
    /\ o.verb \in {"rm", "forget"} => o.vm \in VMs

OpsOK ==
    /\ pc \in [Procs -> Labels]
    /\ op \in [Procs -> Ops]
    /\ \A p \in Procs : Fits(pc[p], op[p])

FilesOK ==
    /\ claims \in Claims \cup {Absent}
    /\ sessions \in Sessions
    /\ live \subseteq VMs
    /\ users \in [VMs -> SUBSET Names]

TypeInv == OpsOK /\ FilesOK /\ env \in Envs

\* Process p goes to label l with the locals o.
step(p, l, o) == pc' = [pc EXCEPT ![p] = l] /\ op' = [op EXCEPT ![p] = o]

LEMMA Empty == NoClaims \in Claims /\ NoOp \in Ops /\ None \notin Names
<1>1. NoClaims \in Claims /\ None \notin Names
  BY SlugAssumption DEF NoClaims, Claims
<1> QED
  BY <1>1 DEF NoOp, Ops

\* The locals keep their type and the operation they are about, whichever copy
\* of a file a step puts there.
LEMMA Locals ==
    ASSUME NEW o \in Ops
    PROVE /\ \A c \in Claims :
                /\ [o EXCEPT !.claims = c] \in Ops
                /\ [o EXCEPT !.claims = c].verb = o.verb
                /\ [o EXCEPT !.claims = c].name = o.name
                /\ [o EXCEPT !.claims = c].vm = o.vm
                /\ [o EXCEPT !.claims = c].claims = c
          /\ \A s \in SUBSET VMs :
                /\ [o EXCEPT !.set = s] \in Ops
                /\ [o EXCEPT !.set = s].verb = o.verb
                /\ [o EXCEPT !.set = s].name = o.name
                /\ [o EXCEPT !.set = s].vm = o.vm
BY DEF Ops

LEMMA StepOps ==
    ASSUME TypeInv, NEW p \in Procs, NEW l \in Labels, NEW o \in Ops,
           step(p, l, o), Fits(l, o)
    PROVE OpsOK'
BY DEF TypeInv, OpsOK, step

\* The operation of a process as it goes on, at a label of the same operation.
goesOn(p, l) ==
    \E o \in Ops : /\ step(p, l, o)
                   /\ o.verb = op[p].verb /\ o.name = op[p].name /\ o.vm = op[p].vm

LEMMA GoesOn ==
    ASSUME TypeInv, NEW p \in Procs, NEW l
    PROVE /\ goto(p, l) /\ UNCHANGED op => goesOn(p, l)
          /\ \A c \in Claims :
                goto(p, l) /\ op' = [op EXCEPT ![p].claims = c] =>
                    goesOn(p, l) /\ op'[p].claims = c
          /\ \A s \in SUBSET VMs :
                goto(p, l) /\ op' = [op EXCEPT ![p].set = s] => goesOn(p, l)
<1>1. op[p] \in Ops /\ op \in [Procs -> Ops]
  BY DEF TypeInv, OpsOK
<1>2. goto(p, l) /\ UNCHANGED op => goesOn(p, l)
  BY <1>1 DEF goto, goesOn, step
<1>3. ASSUME NEW c \in Claims, goto(p, l), op' = [op EXCEPT ![p].claims = c]
      PROVE goesOn(p, l) /\ op'[p].claims = c
  <2> DEFINE o == [op[p] EXCEPT !.claims = c]
  <2>1. /\ o \in Ops /\ o.claims = c
        /\ o.verb = op[p].verb /\ o.name = op[p].name /\ o.vm = op[p].vm
    BY <1>1, Locals
  <2>2. step(p, l, o)
    BY <1>3 DEF step, goto
  <2> HIDE DEF o
  <2> QED
    BY <1>1, <2>1, <2>2 DEF goesOn, step
<1>4. ASSUME NEW s \in SUBSET VMs, goto(p, l), op' = [op EXCEPT ![p].set = s]
      PROVE goesOn(p, l)
  <2> DEFINE o == [op[p] EXCEPT !.set = s]
  <2>1. o \in Ops /\ o.verb = op[p].verb /\ o.name = op[p].name /\ o.vm = op[p].vm
    BY <1>1, Locals
  <2>2. step(p, l, o)
    BY <1>4 DEF step, goto
  <2> HIDE DEF o
  <2> QED
    BY <2>1, <2>2 DEF goesOn
<1> QED
  BY <1>2, <1>3, <1>4

\* An operation that goes on keeps its locals fit.
LEMMA GoesOnOps ==
    ASSUME TypeInv, NEW p \in Procs, NEW l \in Labels, goesOn(p, l),
           Fits(l, op[p])
    PROVE OpsOK'
<1>1. PICK o \in Ops : /\ step(p, l, o)
                       /\ o.verb = op[p].verb /\ o.name = op[p].name /\ o.vm = op[p].vm
  BY DEF goesOn
<1>2. Fits(l, o)
  BY <1>1 DEF Fits
<1> QED
  BY <1>1, <1>2, StepOps

LEMMA ReturnOps ==
    ASSUME TypeInv, NEW p \in Procs, return(p)
    PROVE OpsOK' /\ step(p, "idle", NoOp)
<1>1. Fits("idle", NoOp) /\ "idle" \in Labels
  BY DEF Fits, NoOp, Labels
<1> QED
  BY <1>1, Empty, StepOps DEF return, goto, step

\* Where every step of an operation that is under way leads.
LEMMA Leads ==
    ASSUME TypeInv, NEW p \in Procs
    PROVE /\ Stat(p) => goesOn(p, "old") \/ goesOn(p, "read")
          /\ ReadOld(p) => goesOn(p, "read") \/ goesOn(p, "carry")
          /\ Carry(p) => goesOn(p, "removeOld") \/ goesOn(p, "read")
          /\ RemoveOld(p) => goesOn(p, "read")
          /\ Read(p) => \/ return(p)
                        \/ goesOn(p, "boot") /\ op[p].verb = "run"
                        \/ goesOn(p, "claim") /\ op[p].verb = "run"
                        \/ goesOn(p, "unclaim") /\ op[p].verb # "run"
          /\ claimSlug(p) => goesOn(p, "boot")
          /\ Boot(p) => return(p) \/ goesOn(p, "remember")
          /\ Remember(p) => return(p) \/ goesOn(p, "record")
          /\ RuntimeRemove(p) => goesOn(p, "forget")
          /\ Forget(p) => goesOn(p, "stat") \/ goesOn(p, "drop")
          /\ ForgetSandbox(p) => return(p) \/ goesOn(p, "stat")
          /\ ListLive(p) => goesOn(p, "prune")
          /\ Prune(p) => return(p) \/ goesOn(p, "pruned")
<1>1. /\ readClaims \in Claims /\ NoClaims \in Claims
      /\ sessions.claims \in Claims /\ sessions.entries \in SUBSET VMs
      /\ live \in SUBSET VMs /\ op[p].set \cap sessions.entries \in SUBSET VMs
  BY Empty DEF TypeInv, FilesOK, Sessions, readClaims
<1>2. op \in [Procs -> Ops]
  BY DEF TypeInv, OpsOK
<1>3. Stat(p) => goesOn(p, "old") \/ goesOn(p, "read")
  BY GoesOn DEF Stat
<1>4. ReadOld(p) => goesOn(p, "read") \/ goesOn(p, "carry")
  BY <1>1, GoesOn DEF ReadOld
<1>5. Carry(p) => goesOn(p, "removeOld") \/ goesOn(p, "read")
  BY GoesOn DEF Carry, writeIndex
<1>6. RemoveOld(p) => goesOn(p, "read")
  BY GoesOn DEF RemoveOld
<1>7. Read(p) => \/ return(p)
                 \/ goesOn(p, "boot") /\ op[p].verb = "run"
                 \/ goesOn(p, "claim") /\ op[p].verb = "run"
                 \/ goesOn(p, "unclaim") /\ op[p].verb # "run"
  BY <1>1, GoesOn DEF Read, copies
<1>8. claimSlug(p) => goesOn(p, "boot")
  BY <1>1, GoesOn DEF claimSlug, copies
<1>9. Boot(p) => return(p) \/ goesOn(p, "remember")
  BY GoesOn DEF Boot
<1>10. Remember(p) => return(p) \/ goesOn(p, "record")
  BY <1>1, GoesOn DEF Remember
<1>11. RuntimeRemove(p) => goesOn(p, "forget")
  BY GoesOn DEF RuntimeRemove
<1>12. Forget(p) => goesOn(p, "stat") \/ goesOn(p, "drop")
  BY <1>1, GoesOn DEF Forget
<1>13. ForgetSandbox(p) => return(p) \/ goesOn(p, "stat")
  BY GoesOn DEF ForgetSandbox
<1>14. ListLive(p) => goesOn(p, "prune")
  BY <1>1, GoesOn DEF ListLive
<1>15. Prune(p) => return(p) \/ goesOn(p, "pruned")
  <2>1. ASSUME op' = [op EXCEPT ![p].set = @ \cap sessions.entries], goto(p, "pruned")
        PROVE goesOn(p, "pruned")
    <3>1. op' = [op EXCEPT ![p].set = op[p].set \cap sessions.entries]
      BY <2>1
    <3> QED
      BY <1>1, <2>1, <3>1, GoesOn
  <2> QED
    BY <2>1 DEF Prune
<1> QED
  BY <1>3, <1>4, <1>5, <1>6, <1>7, <1>8, <1>9, <1>10, <1>11, <1>12, <1>13, <1>14, <1>15

\* What an operation begins with.
LEMMA Begins ==
    ASSUME TypeInv, NEW p \in Procs
    PROVE /\ \A n \in Names : \A v \in lands[n] : EnsureRunning(p, n, v) =>
                \E o \in Ops : /\ step(p, "stat", o) /\ Fits("stat", o)
                               /\ o.verb = "run"
          /\ \A v \in VMs : Remove(p, v) =>
                \E o \in Ops : /\ o.verb \in {"rm", "forget"} /\ o.vm = v
                               /\ \/ step(p, "rm", o) /\ Fits("rm", o)
                                  \/ /\ step(p, "forget", o) /\ Fits("forget", o)
                                     /\ v \notin live
          /\ List(p) => \E o \in Ops : /\ step(p, "list", o) /\ Fits("list", o)
                                       /\ o.verb = "ls"
<1>1. ASSUME NEW n \in Names, NEW v \in lands[n], EnsureRunning(p, n, v)
      PROVE \E o \in Ops : step(p, "stat", o) /\ Fits("stat", o) /\ o.verb = "run"
  <2> DEFINE o == [NoOp EXCEPT !.verb = "run", !.name = n, !.vm = v]
  <2>1. v \in VMs
    BY SlugAssumption
  <2>2. o \in Ops /\ o.verb = "run" /\ o.name = n /\ o.vm = v
    BY <2>1, Empty DEF NoOp, Ops
  <2>3. step(p, "stat", o)
    BY <1>1 DEF EnsureRunning, begin, goto, step
  <2> HIDE DEF o
  <2> QED
    BY <2>1, <2>2, <2>3 DEF Fits
<1>2. ASSUME NEW v \in VMs, Remove(p, v)
      PROVE \E o \in Ops : /\ o.verb \in {"rm", "forget"} /\ o.vm = v
                           /\ \/ step(p, "rm", o) /\ Fits("rm", o)
                              \/ /\ step(p, "forget", o) /\ Fits("forget", o)
                                 /\ v \notin live
  <2> DEFINE o == [NoOp EXCEPT !.verb = "rm", !.vm = v]
             r == [NoOp EXCEPT !.verb = "forget", !.vm = v]
  <2>1. /\ o \in Ops /\ o.verb = "rm" /\ o.vm = v
        /\ r \in Ops /\ r.verb = "forget" /\ r.vm = v
    BY Empty DEF NoOp, Ops
  <2>2. step(p, "rm", o) \/ (step(p, "forget", r) /\ v \notin live)
    BY <1>2 DEF Remove, begin, goto, step
  <2> HIDE DEF o, r
  <2> QED
    BY <2>1, <2>2 DEF Fits
<1>3. ASSUME List(p)
      PROVE \E o \in Ops : step(p, "list", o) /\ Fits("list", o) /\ o.verb = "ls"
  <2> DEFINE o == [NoOp EXCEPT !.verb = "ls"]
  <2>1. o \in Ops /\ o.verb = "ls"
    BY Empty DEF NoOp, Ops
  <2>2. step(p, "list", o)
    BY <1>3 DEF List, begin, goto, step
  <2> HIDE DEF o
  <2> QED
    BY <2>1, <2>2 DEF Fits
<1> QED
  BY <1>1, <1>2, <1>3

\* The operation a step belongs to, and so what its next label may be.
LEMMA StepOpsOK ==
    ASSUME TypeInv, NEW p \in Procs, Step(p)
    PROVE OpsOK'
<1>f. Fits(pc[p], op[p])
  BY DEF TypeInv, OpsOK
<1>l. {"idle", "stat", "old", "carry", "removeOld", "read", "claim", "boot", "remember",
       "record", "rm", "forget", "drop", "unclaim", "list", "prune", "pruned"} = Labels
  BY DEF Labels
<1>r. return(p) => OpsOK'
  BY ReturnOps
<1>1. (\E n \in Names : \E v \in lands[n] : EnsureRunning(p, n, v)) \/ (\E v \in VMs : Remove(p, v)) \/ List(p)
         => OpsOK'
  BY Begins, StepOps, <1>l
<1>2. Stat(p) \/ ReadOld(p) \/ Carry(p) \/ RemoveOld(p) => OpsOK'
  BY <1>f, <1>l, Leads, GoesOnOps DEF Stat, ReadOld, Carry, RemoveOld, Fits
<1>3. Read(p) => OpsOK'
  BY <1>f, <1>l, <1>r, Leads, GoesOnOps DEF Read, Fits
<1>4. claimSlug(p) \/ Boot(p) \/ Remember(p) => OpsOK'
  BY <1>f, <1>l, <1>r, Leads, GoesOnOps DEF claimSlug, Boot, Remember, Fits
<1>5. RuntimeRemove(p) \/ Forget(p) \/ ForgetSandbox(p) => OpsOK'
  BY <1>f, <1>l, <1>r, Leads, GoesOnOps DEF RuntimeRemove, Forget, ForgetSandbox, Fits
<1>6. ListLive(p) \/ Prune(p) => OpsOK'
  BY <1>f, <1>l, <1>r, Leads, GoesOnOps DEF ListLive, Prune, Fits
<1>7. ForgetSlugClaim(p) \/ Record(p) \/ PruneSessions(p) \/ Crash(p) => OpsOK'
  BY <1>r DEF ForgetSlugClaim, Record, PruneSessions, Crash
<1> QED
  BY <1>1, <1>2, <1>3, <1>4, <1>5, <1>6, <1>7 DEF Step

\* What every step writes to the files, and does to the sandboxes, has its type.
LEMMA StepFilesOK ==
    ASSUME TypeInv, NEW p \in Procs, Step(p)
    PROVE FilesOK'
<1> USE DEF files, guests
<1>1. /\ FilesOK /\ op[p] \in Ops /\ Fits(pc[p], op[p])
      /\ op[p].claims \in Claims /\ op[p].set \subseteq VMs
  BY DEF TypeInv, OpsOK, Ops
<1>2. /\ \A s \in SUBSET VMs : [claims |-> NoClaims, entries |-> s] \in Sessions
      /\ \A v, x : x \in Names \cup {None} => [op[p].claims EXCEPT ![v] = x] \in Claims
  BY <1>1, Empty DEF Sessions, Claims
<1>3. (\E n \in Names : \E v \in lands[n] : EnsureRunning(p, n, v)) \/ (\E v \in VMs : Remove(p, v)) \/ List(p)
         => FilesOK'
  BY <1>1 DEF EnsureRunning, Remove, List, begin, FilesOK
<1>4. Stat(p) \/ ReadOld(p) \/ Read(p) \/ Remember(p) \/ Forget(p) \/ ListLive(p)
         \/ Prune(p) \/ Crash(p) => FilesOK'
  BY <1>1 DEF Stat, ReadOld, Read, Remember, Forget, ListLive, Prune, Crash, FilesOK
<1>5. Carry(p) => FilesOK'
  BY <1>1 DEF Carry, writeIndex, FilesOK
<1>6. claimSlug(p) => FilesOK'
  <2>1. claimSlug(p) => op[p].name \in Names
    BY <1>1 DEF claimSlug, Fits
  <2>2. claimSlug(p) => [op[p].claims EXCEPT ![op[p].vm] = op[p].name] \in Claims
    BY <1>2, <2>1
  <2> QED
    BY <1>1, <2>2 DEF claimSlug, writeIndex, FilesOK
<1>7. ForgetSlugClaim(p) => FilesOK'
  <2>1. ForgetSlugClaim(p) => [op[p].claims EXCEPT ![op[p].vm] = None] \in Claims
    BY <1>2
  <2>2. ForgetSlugClaim(p) => claims' \in Claims \cup {Absent}
    BY <1>1, <2>1 DEF ForgetSlugClaim, writeIndex, FilesOK
  <2> QED
    BY <1>1, <2>2 DEF ForgetSlugClaim, FilesOK
<1>8. RemoveOld(p) => FilesOK'
  BY <1>1, <1>2 DEF RemoveOld, writeIndex, FilesOK
<1>9. PruneSessions(p) => FilesOK'
  BY <1>1, <1>2 DEF PruneSessions, writeIndex, writeEntries, FilesOK
<1>10. Record(p) => FilesOK'
  <2>1. Record(p) => op[p].vm \in VMs
    BY <1>1 DEF Record, Fits
  <2> QED
    BY <1>1, <1>2, <2>1 DEF Record, writeIndex, writeEntries, FilesOK
<1>11. ForgetSandbox(p) => FilesOK'
  <2>1. CASE UNCHANGED sessions
    BY <1>1, <2>1 DEF ForgetSandbox, FilesOK
  <2>2. CASE writeEntries(op[p].set \ {op[p].vm})
    BY <1>1, <1>2, <2>2 DEF ForgetSandbox, writeEntries, FilesOK
  <2> QED
    BY <2>1, <2>2 DEF ForgetSandbox
<1>12. RuntimeRemove(p) => FilesOK'
  BY <1>1 DEF RuntimeRemove, writeIndex, FilesOK
<1>13. Boot(p) => FilesOK'
  <2>1. Boot(p) => op[p].vm \in VMs /\ op[p].name \in Names
    BY <1>1 DEF Boot, Fits
  <2>2. Boot(p) => users[op[p].vm] \cup {op[p].name} \in SUBSET Names
    BY <1>1, <2>1 DEF FilesOK
  <2>3. Boot(p) => users' \in [VMs -> SUBSET Names]
    BY <1>1, <2>1, <2>2 DEF Boot, FilesOK
  <2> QED
    BY <1>1, <2>1, <2>3 DEF Boot, FilesOK
<1> QED
  BY <1>3, <1>4, <1>5, <1>6, <1>7, <1>8, <1>9, <1>10, <1>11, <1>12, <1>13 DEF Step

\* No step changes what may happen in the behaviour.
LEMMA EnvStays == [Next]_vars => env' = env
<1> SUFFICES ASSUME [Next]_vars PROVE env' = env
  OBVIOUS
<1>1. ASSUME NEW p \in Procs, Step(p)
      PROVE env' = env
  BY <1>1 DEF Step, EnsureRunning, Remove, List, begin, Stat, ReadOld, Carry, RemoveOld,
     Read, claimSlug, ForgetSlugClaim, Boot, Remember, Record, RuntimeRemove, Forget,
     ForgetSandbox, ListLive, Prune, PruneSessions, Crash
<1> QED
  BY <1>1 DEF Next, vars, RuntimeLoses

LEMMA StepTypes == TypeInv /\ [Next]_vars => TypeInv'
<1> SUFFICES ASSUME TypeInv, [Next]_vars PROVE TypeInv'
  OBVIOUS
<1>0. env' = env
  BY EnvStays
<1>1. ASSUME NEW v \in VMs, RuntimeLoses(v) PROVE TypeInv'
  BY <1>0, <1>1 DEF RuntimeLoses, TypeInv, OpsOK, FilesOK, Fits, files
<1>2. CASE UNCHANGED vars
  BY <1>2 DEF vars, files, guests, TypeInv, OpsOK, FilesOK, Fits
<1> QED
  BY <1>0, <1>1, <1>2, StepOpsOK, StepFilesOK DEF Next, TypeInv

LEMMA InitTypes == Init => TypeInv
<1> SUFFICES ASSUME Init PROVE TypeInv
  OBVIOUS
<1>1. OpsOK
  BY Empty DEF Init, OpsOK, Labels, Fits, NoOp
<1>2. PICK old \in Claims :
         /\ sessions = [claims |-> old, entries |-> {}]
         /\ live = {v \in VMs : old[v] # None}
         /\ users = [v \in VMs |-> {old[v]} \ {None}]
  BY DEF Init
<1>3. FilesOK
  BY <1>2 DEF Init, FilesOK, Sessions, Claims
<1> QED
  BY <1>1, <1>3 DEF TypeInv, Init

\* Both files, and the copies of them every process holds between its read and
\* its write, keep their types, with failed writes and concurrent commands too.
THEOREM TypeCorrect == Spec => []TypeOK
<1>1. TypeInv => TypeOK
  BY DEF TypeInv, OpsOK, FilesOK, TypeOK
<1> QED
  BY <1>1, InitTypes, StepTypes, PTL DEF Spec

-----------------------------------------------------------------------------
\* Why one name is let in.  Every session name in a sandbox owns it, in whichever file
\* the claims are; a claim is dropped only when nobody is in the sandbox; and no
\* step replaces a file whose claims are not in the other.
owner(v) == IF claims = Absent THEN sessions.claims[v] ELSE claims[v]

\* No claims are left in sessions.json that slug-claims.json does not have.
Carried == claims = Absent => sessions.claims = NoClaims

Alone == \A p, q \in Procs : pc[p] # "idle" /\ pc[q] # "idle" => p = q
LiveInv == \A v \in VMs : users[v] # {} => v \in live
OwnerInv ==
    \A v \in VMs : \A n \in users[v] \ Unnamed : owner(v) = n
FileInv == sessions.entries # {} => sessions.claims = NoClaims

\* What process p knows at its label.
At(p) ==
    /\ pc[p] \in {"old", "carry"} => claims = Absent
    /\ pc[p] = "carry" => op[p].claims = sessions.claims
    /\ pc[p] = "removeOld" => claims # Absent
    /\ pc[p] \in {"read", "claim", "unclaim", "boot", "remember", "record"} => Carried
    /\ pc[p] \in {"claim", "unclaim"} => op[p].claims = readClaims
    /\ pc[p] = "claim" => op[p].name \notin Unnamed /\ readClaims[op[p].vm] = None
    /\ pc[p] = "boot" => op[p].name \in Unnamed \/ owner(op[p].vm) = op[p].name
    /\ pc[p] \in {"drop", "pruned"} => sessions.claims = NoClaims
    /\ pc[p] \notin {"idle", "rm"} /\ op[p].verb \in {"rm", "forget"} =>
          users[op[p].vm] = {}

HomeInv ==
    /\ Alone /\ LiveInv /\ OwnerInv /\ FileInv
    /\ \A p \in Procs : At(p)

\* While p is the only process under way, nothing is asked of the others.
LEMMA OneAlone ==
    ASSUME TypeInv, NEW p \in Procs, NEW l, NEW o,
           \A q \in Procs \ {p} : pc[q] = "idle",
           step(p, l, o)
    PROVE /\ Alone'
          /\ \A q \in Procs \ {p} : At(q)'
          /\ pc'[p] = l /\ op'[p] = o
<1>1. /\ pc'[p] = l /\ op'[p] = o
      /\ \A q \in Procs \ {p} : pc'[q] = "idle"
  BY DEF TypeInv, OpsOK, step
<1> QED
  BY <1>1 DEF Alone, At

\* The same for an operation that goes on, and for one that ends.
LEMMA OneGoesOn ==
    ASSUME TypeInv, NEW p \in Procs, NEW l,
           \A q \in Procs \ {p} : pc[q] = "idle",
           goesOn(p, l)
    PROVE /\ Alone'
          /\ \A q \in Procs \ {p} : At(q)'
          /\ pc'[p] = l
          /\ op'[p].verb = op[p].verb /\ op'[p].name = op[p].name /\ op'[p].vm = op[p].vm
BY OneAlone DEF goesOn

LEMMA OneEnds ==
    ASSUME TypeInv, NEW p \in Procs,
           \A q \in Procs \ {p} : pc[q] = "idle",
           return(p)
    PROVE Alone' /\ \A q \in Procs : At(q)'
<1>1. /\ Alone'
      /\ \A q \in Procs \ {p} : At(q)'
      /\ pc'[p] = "idle"
  BY ReturnOps, OneAlone
<1>2. At(p)'
  BY <1>1 DEF At
<1> QED
  BY <1>1, <1>2

\* A step that leaves files and sandboxes alone leaves what is known of them.
LEMMA SameFiles ==
    ASSUME HomeInv, UNCHANGED <<files, guests>>
    PROVE /\ LiveInv' /\ OwnerInv' /\ FileInv'
          /\ readClaims' = readClaims
          /\ Carried' = Carried
          /\ \A v : owner(v)' = owner(v)
BY DEF HomeInv, LiveInv, OwnerInv, FileInv, readClaims, owner, Carried, files, guests

\* The steps that read: the migration's and the claims'.
LEMMA HomeReads ==
    ASSUME TypeInv, HomeInv, NEW p \in Procs,
           Stat(p) \/ ReadOld(p) \/ Read(p)
    PROVE HomeInv'
<1>1. /\ At(p) /\ UNCHANGED <<files, guests>>
      /\ \A q \in Procs \ {p} : pc[q] = "idle"
      /\ Fits(pc[p], op[p])
  BY DEF Stat, ReadOld, Read, HomeInv, Alone, TypeInv, OpsOK
<1>s. /\ LiveInv' /\ OwnerInv' /\ FileInv'
      /\ readClaims' = readClaims
      /\ Carried' = Carried
      /\ \A v : owner(v)' = owner(v)
      /\ UNCHANGED <<claims, sessions, users>>
  BY <1>1, SameFiles DEF files, guests
<1>e. return(p) => HomeInv'
  BY <1>1, <1>s, OneEnds DEF HomeInv
<1>g. ASSUME NEW l, goesOn(p, l), At(p)' PROVE HomeInv'
  BY <1>g, <1>1, <1>s, OneGoesOn DEF HomeInv
<1>c. readClaims \in Claims /\ sessions.claims \in Claims /\ NoClaims \in Claims
  BY Empty DEF TypeInv, FilesOK, Sessions, readClaims
<1>2. CASE Stat(p)
  <2>1. CASE claims = Absent
    <3>1. goesOn(p, "old")
      BY <1>1, <2>1, <1>2, GoesOn DEF Stat
    <3>2. At(p)'
      BY <1>1, <1>2, <1>s, <2>1, <3>1, OneGoesOn DEF At, Stat
    <3> QED
      BY <3>1, <3>2, <1>g
  <2>2. CASE claims # Absent
    <3>1. goesOn(p, "read")
      BY <1>1, <2>2, <1>2, GoesOn DEF Stat
    <3>2. At(p)'
      BY <1>1, <1>2, <1>s, <2>2, <3>1, OneGoesOn DEF At, Stat, Carried
    <3> QED
      BY <3>1, <3>2, <1>g
  <2> QED
    BY <2>1, <2>2
<1>3. CASE ReadOld(p)
  <2>1. CASE sessions.claims = NoClaims
    <3>1. goesOn(p, "read")
      BY <2>1, <1>3, GoesOn DEF ReadOld
    <3>2. At(p)'
      BY <1>1, <1>3, <1>s, <2>1, <3>1, OneGoesOn DEF At, ReadOld, Carried
    <3> QED
      BY <3>1, <3>2, <1>g
  <2>2. CASE sessions.claims # NoClaims
    <3>1. goesOn(p, "carry") /\ op'[p].claims = sessions.claims
      BY <2>2, <1>3, <1>c, GoesOn DEF ReadOld
    <3>2. At(p)'
      BY <1>1, <1>3, <1>s, <2>2, <3>1, OneGoesOn DEF At, ReadOld
    <3> QED
      BY <3>1, <3>2, <1>g
  <2> QED
    BY <2>1, <2>2
<1>4. CASE Read(p)
  <2>1. pc[p] = "read" /\ Carried /\ \A v \in VMs : owner(v) = readClaims[v]
    BY <1>1, <1>4 DEF Read, At, Carried, owner, readClaims
  <2>2. op[p].verb = "run" => op[p].vm \in VMs
    BY <1>1 DEF Fits
  <2>3. CASE op[p].verb = "run" /\ copies(p, NoClaims, "boot")
             /\ (op[p].name \in Unnamed \/ readClaims[op[p].vm] = op[p].name)
    <3>1. goesOn(p, "boot")
      BY <2>3, <1>c, GoesOn DEF copies
    <3>2. At(p)'
      BY <1>1, <1>s, <2>1, <2>2, <2>3, <3>1, OneGoesOn DEF At
    <3> QED
      BY <3>1, <3>2, <1>g
  <2>4. CASE op[p].verb = "run" /\ op[p].name \notin Unnamed
             /\ readClaims[op[p].vm] = None /\ copies(p, readClaims, "claim")
    <3>1. goesOn(p, "claim") /\ op'[p].claims = readClaims
      BY <2>4, <1>c, GoesOn DEF copies
    <3>2. At(p)'
      BY <1>1, <1>s, <2>1, <2>4, <3>1, OneGoesOn DEF At
    <3> QED
      BY <3>1, <3>2, <1>g
  <2>5. CASE op[p].verb # "run" /\ copies(p, readClaims, "unclaim")
    <3>1. goesOn(p, "unclaim") /\ op'[p].claims = readClaims
      BY <2>5, <1>c, GoesOn DEF copies
    <3>2. At(p)'
      BY <1>1, <1>s, <2>1, <2>5, <3>1, OneGoesOn DEF At
    <3> QED
      BY <3>1, <3>2, <1>g
  <2> QED
    BY <1>4, <1>e, <2>3, <2>4, <2>5 DEF Read
<1> QED
  BY <1>2, <1>3, <1>4

\* The steps that write a file: what they replace is in the other file, or
\* nobody's.
LEMMA HomeWrites ==
    ASSUME "faults" \notin env, TypeInv, HomeInv, NEW p \in Procs,
           \/ Carry(p) \/ RemoveOld(p) \/ claimSlug(p) \/ ForgetSlugClaim(p)
           \/ Record(p) \/ ForgetSandbox(p) \/ PruneSessions(p)
    PROVE HomeInv'
<1> USE DEF files, guests
<1>1. /\ At(p) /\ UNCHANGED <<live, users>>
      /\ \A q \in Procs \ {p} : pc[q] = "idle"
      /\ Fits(pc[p], op[p]) /\ op[p] \in Ops
  BY DEF Carry, RemoveOld, claimSlug, ForgetSlugClaim, Record, ForgetSandbox,
         PruneSessions, HomeInv, Alone, TypeInv, OpsOK
<1>2. LiveInv'
  BY <1>1 DEF HomeInv, LiveInv
<1>c. /\ op[p].claims \in Claims /\ sessions.claims \in Claims /\ NoClaims \in Claims
      /\ Absent \notin Claims
      /\ users \in [VMs -> SUBSET Names]
      /\ None \notin Names
  BY <1>1, Empty, SlugAssumption DEF TypeInv, FilesOK, Sessions, Ops, Claims
<1>o. ASSUME \A v \in VMs : owner(v)' = owner(v) PROVE OwnerInv'
  BY <1>o, <1>1 DEF HomeInv, OwnerInv
<1>3. CASE Carry(p)
  <2>1. /\ pc[p] = "carry" /\ claims = Absent /\ claims' = sessions.claims
        /\ sessions' = sessions
    BY <1>1, <1>3 DEF Carry, writeIndex, At
  <2>2. OwnerInv' /\ FileInv' /\ claims' # Absent
    BY <1>c, <2>1, <1>o DEF owner, HomeInv, FileInv
  <2>3. goesOn(p, "removeOld")
    BY <1>3, GoesOn DEF Carry, writeIndex
  <2>4. At(p)'
    BY <1>1, <2>1, <2>2, <2>3, OneGoesOn DEF At
  <2> QED
    BY <1>1, <1>2, <2>2, <2>3, <2>4, OneGoesOn DEF HomeInv
<1>4. CASE RemoveOld(p)
  <2>1. /\ pc[p] = "removeOld" /\ claims # Absent /\ claims' = claims
        /\ sessions' = [claims |-> NoClaims, entries |-> {}]
    BY <1>1, <1>4 DEF RemoveOld, writeIndex, At
  <2>2. OwnerInv' /\ FileInv' /\ Carried'
    BY <2>1, <1>o DEF owner, FileInv, Carried
  <2>3. goesOn(p, "read")
    BY <1>4, GoesOn DEF RemoveOld
  <2>4. At(p)'
    BY <1>1, <2>1, <2>2, <2>3, OneGoesOn DEF At
  <2> QED
    BY <1>1, <1>2, <2>2, <2>3, <2>4, OneGoesOn DEF HomeInv
<1>5. CASE claimSlug(p)
  <2>1. /\ pc[p] = "claim" /\ Carried /\ op[p].claims = readClaims
        /\ op[p].name \notin Unnamed /\ readClaims[op[p].vm] = None
        /\ claims' = [readClaims EXCEPT ![op[p].vm] = op[p].name]
        /\ sessions' = sessions
    BY <1>1, <1>5 DEF claimSlug, writeIndex, At
  <2>2. op[p].verb = "run" /\ op[p].name \in Names /\ op[p].vm \in VMs
    BY <1>1, <2>1 DEF Fits
  <2>3. claims' \in Claims
    BY <1>c, <2>1, <2>2 DEF Claims
  <2>4. /\ \A v \in VMs : owner(v) = readClaims[v]
        /\ \A v \in VMs : owner(v)' = claims'[v]
    BY <2>1, <2>3, <1>c DEF owner, readClaims, Carried
  <2>5. /\ claims'[op[p].vm] = op[p].name
        /\ \A v \in VMs : v # op[p].vm => owner(v)' = owner(v)
    <3>1. readClaims \in Claims
      BY <1>c, <2>1
    <3> QED
      BY <2>1, <2>2, <2>4, <3>1 DEF Claims
  <2>6. \A n \in users[op[p].vm] : n \in Unnamed
    BY <1>c, <2>1, <2>2, <2>4 DEF HomeInv, OwnerInv
  <2>7. OwnerInv'
    BY <1>1, <2>5, <2>6 DEF HomeInv, OwnerInv
  <2>8. FileInv' /\ Carried'
    BY <1>c, <2>1, <2>3 DEF HomeInv, FileInv, Carried
  <2>9. goesOn(p, "boot")
    BY <1>5, <1>c, GoesOn DEF claimSlug, copies
  <2>10. At(p)'
    <3>1. /\ pc'[p] = "boot" /\ op'[p].verb = "run"
          /\ op'[p].vm = op[p].vm /\ op'[p].name = op[p].name
      BY <1>1, <2>2, <2>9, OneGoesOn
    <3>2. claims' # Absent
      BY <1>c, <2>3
    <3> QED
      BY <2>5, <2>8, <3>1, <3>2 DEF At, owner
  <2> QED
    BY <1>1, <1>2, <2>7, <2>8, <2>9, <2>10, OneGoesOn DEF HomeInv
<1>6. CASE ForgetSlugClaim(p)
  <2>1. /\ pc[p] = "unclaim" /\ Carried /\ op[p].claims = readClaims
        /\ claims' = [readClaims EXCEPT ![op[p].vm] = None]
        /\ sessions' = sessions
    BY <1>1, <1>6 DEF ForgetSlugClaim, writeIndex, At
  <2>2. op[p].vm \in VMs /\ users[op[p].vm] = {}
    BY <1>1, <2>1 DEF Fits, At
  <2>3. claims' \in Claims
    BY <1>c, <2>1 DEF Claims
  <2>4. \A v \in VMs : v # op[p].vm => owner(v)' = owner(v)
    BY <1>c, <2>1, <2>2, <2>3 DEF owner, readClaims, Carried, Claims
  <2>5. OwnerInv' /\ FileInv'
    BY <1>1, <2>1, <2>2, <2>4 DEF HomeInv, OwnerInv, FileInv
  <2> QED
    BY <1>1, <1>2, <1>6, <2>5, OneEnds DEF HomeInv, ForgetSlugClaim
<1>w. ASSUME NEW s, writeEntries(s), claims' = claims, Carried \/ sessions.claims = NoClaims
      PROVE OwnerInv' /\ FileInv'
  BY <1>w, <1>o DEF writeEntries, owner, Carried, FileInv
<1>7. CASE Record(p)
  <2>1. Carried /\ claims' = claims /\ writeEntries(op[p].set \cup {op[p].vm})
    BY <1>1, <1>7 DEF Record, writeIndex, At
  <2> QED
    BY <1>1, <1>2, <1>7, <2>1, <1>w, OneEnds DEF HomeInv, Record
<1>8. CASE PruneSessions(p)
  <2>1. sessions.claims = NoClaims /\ claims' = claims /\ writeEntries(op[p].set)
    BY <1>1, <1>8 DEF PruneSessions, writeIndex, At
  <2> QED
    BY <1>1, <1>2, <1>8, <2>1, <1>w, OneEnds DEF HomeInv, PruneSessions
<1>9. CASE ForgetSandbox(p)
  <2>1. /\ sessions.claims = NoClaims /\ claims' = claims
        /\ writeEntries(op[p].set \ {op[p].vm}) /\ pc[p] = "drop"
    BY <1>1, <1>9 DEF ForgetSandbox, At
  <2>2. OwnerInv' /\ FileInv'
    BY <2>1, <1>w
  <2>3. goesOn(p, "stat")
    BY <1>9, GoesOn DEF ForgetSandbox
  <2>4. At(p)'
    BY <1>1, <2>1, <2>3, OneGoesOn DEF At, Fits
  <2> QED
    BY <1>1, <1>2, <2>2, <2>3, <2>4, OneGoesOn DEF HomeInv
<1> QED
  BY <1>3, <1>4, <1>5, <1>6, <1>7, <1>8, <1>9

\* An operation begins, and only when no other is under way.
LEMMA HomeBegins ==
    ASSUME "concurrent" \notin env, TypeInv, HomeInv, NEW p \in Procs,
           \/ \E n \in Names : \E v \in lands[n] : EnsureRunning(p, n, v)
           \/ \E v \in VMs : Remove(p, v)
           \/ List(p)
    PROVE HomeInv'
<1>1. /\ \A q \in Procs \ {p} : pc[q] = "idle"
      /\ UNCHANGED <<files, guests>>
  BY DEF EnsureRunning, Remove, List, begin
<1>2. LiveInv' /\ OwnerInv' /\ FileInv' /\ UNCHANGED users
  BY <1>1, SameFiles DEF guests
<1>3. PICK o \in Ops :
         \/ step(p, "stat", o) /\ o.verb = "run"
         \/ step(p, "rm", o)
         \/ step(p, "forget", o) /\ o.vm \in VMs \ live
         \/ step(p, "list", o) /\ o.verb = "ls"
  BY Begins
<1>4. Alone' /\ \A q \in Procs \ {p} : At(q)'
  BY <1>1, <1>3, OneAlone
<1>5. o.vm \in VMs \ live => users[o.vm] = {}
  BY DEF HomeInv, LiveInv
<1>6. At(p)'
  BY <1>1, <1>2, <1>3, <1>5, OneAlone DEF At
<1> QED
  BY <1>2, <1>4, <1>6 DEF HomeInv

\* The steps of a boot, a removal and a listing that touch no file.
LEMMA HomeOthers ==
    ASSUME "faults" \notin env, TypeInv, HomeInv, NEW p \in Procs,
           \/ Boot(p) \/ Remember(p) \/ RuntimeRemove(p) \/ Forget(p)
           \/ ListLive(p) \/ Prune(p) \/ Crash(p)
    PROVE HomeInv'
<1> USE DEF files, guests
<1>1. /\ At(p) /\ UNCHANGED <<claims, sessions>>
      /\ \A q \in Procs \ {p} : pc[q] = "idle"
      /\ Fits(pc[p], op[p])
  BY DEF Boot, Remember, RuntimeRemove, Forget, ListLive, Prune, Crash, HomeInv, Alone,
         TypeInv, OpsOK
<1>t. users \in [VMs -> SUBSET Names]
  BY DEF TypeInv, FilesOK
<1>2. FileInv' /\ Carried' = Carried /\ \A v : owner(v)' = owner(v)
  BY <1>1 DEF HomeInv, FileInv, Carried, owner
<1>u. UNCHANGED <<live, users>> => LiveInv' /\ OwnerInv'
  BY <1>2 DEF HomeInv, LiveInv, OwnerInv
<1>e. return(p) /\ UNCHANGED <<live, users>> => HomeInv'
  BY <1>1, <1>2, <1>u, OneEnds DEF HomeInv
<1>3. CASE Boot(p)
  <2>1. CASE /\ live' = live \cup {op[p].vm}
             /\ users' = [users EXCEPT ![op[p].vm] = @ \cup {op[p].name}]
             /\ goto(p, "remember") /\ UNCHANGED op
    <3>1. /\ pc[p] = "boot" /\ op[p].verb = "run"
          /\ op[p].name \in Names /\ op[p].vm \in VMs
          /\ op[p].name \in Unnamed \/ owner(op[p].vm) = op[p].name
          /\ Carried
      BY <1>1, <1>3 DEF Boot, Fits, At
    <3>2. /\ users'[op[p].vm] = users[op[p].vm] \cup {op[p].name}
          /\ \A v \in VMs : v # op[p].vm => users'[v] = users[v]
      BY <2>1, <3>1, <1>t
    <3>3. LiveInv'
      BY <2>1, <3>1, <3>2 DEF HomeInv, LiveInv
    <3>4. OwnerInv'
      BY <1>2, <3>1, <3>2 DEF HomeInv, OwnerInv
    <3>5. goesOn(p, "remember")
      BY <2>1, GoesOn
    <3>6. At(p)'
      BY <1>1, <1>2, <3>1, <3>5, OneGoesOn DEF At
    <3> QED
      BY <1>1, <1>2, <3>3, <3>4, <3>5, <3>6, OneGoesOn DEF HomeInv
  <2> QED
    BY <1>3, <2>1, <1>e DEF Boot
<1>4. CASE Remember(p)
  <2>1. /\ pc[p] = "remember" /\ op[p].verb = "run" /\ Carried
        /\ UNCHANGED <<live, users>>
    BY <1>1, <1>4 DEF Remember, Fits, At
  <2>2. CASE goesOn(p, "record")
    <3>1. At(p)'
      BY <1>1, <1>2, <2>1, <2>2, OneGoesOn DEF At
    <3> QED
      BY <1>1, <1>2, <1>u, <2>1, <2>2, <3>1, OneGoesOn DEF HomeInv
  <2> QED
    BY <1>4, <2>1, <2>2, <1>e, Leads
<1>5. CASE RuntimeRemove(p)
  <2>1. /\ pc[p] = "rm" /\ op[p].verb \in {"rm", "forget"} /\ op[p].vm \in VMs
        /\ live' = live \ {op[p].vm}
        /\ users' = [users EXCEPT ![op[p].vm] = {}]
    BY <1>1, <1>5 DEF RuntimeRemove, writeIndex, Fits
  <2>2. /\ users'[op[p].vm] = {}
        /\ \A v \in VMs : v # op[p].vm => users'[v] = users[v]
    BY <2>1, <1>t
  <2>3. LiveInv' /\ OwnerInv'
    BY <1>2, <2>1, <2>2 DEF HomeInv, LiveInv, OwnerInv
  <2>4. goesOn(p, "forget")
    BY <1>5, Leads
  <2>5. At(p)'
    BY <1>1, <2>1, <2>2, <2>4, OneGoesOn DEF At
  <2> QED
    BY <1>1, <1>2, <2>3, <2>4, <2>5, OneGoesOn DEF HomeInv
<1>6. CASE Forget(p)
  <2>1. /\ pc[p] = "forget" /\ op[p].verb \in {"rm", "forget"}
        /\ users[op[p].vm] = {} /\ UNCHANGED <<live, users>>
    BY <1>1, <1>6 DEF Forget, Fits, At
  <2>2. goesOn(p, "stat") \/ (goesOn(p, "drop") /\ sessions.claims = NoClaims)
    <3>1. CASE goto(p, "stat") /\ UNCHANGED op
      BY <3>1, GoesOn
    <3>2. CASE op[p].vm \in sessions.entries /\ goto(p, "drop")
      <4>1. sessions.claims = NoClaims
        BY <3>2 DEF HomeInv, FileInv
      <4>2. goesOn(p, "drop") \/ goesOn(p, "stat")
        BY <1>6, Leads
      <4> QED
        BY <4>1, <4>2
    <3> QED
      BY <1>6, <3>1, <3>2 DEF Forget
  <2>3. At(p)'
    BY <1>1, <2>1, <2>2, OneGoesOn DEF At
  <2> QED
    BY <1>1, <1>2, <1>u, <2>1, <2>2, <2>3, OneGoesOn DEF HomeInv
<1>7. CASE ListLive(p)
  <2>1. goesOn(p, "prune") /\ pc[p] = "list" /\ UNCHANGED <<live, users>>
    BY <1>7, Leads DEF ListLive
  <2>2. At(p)'
    BY <1>1, <2>1, OneGoesOn DEF At
  <2> QED
    BY <1>1, <1>2, <1>u, <2>1, <2>2, OneGoesOn DEF HomeInv
<1>8. CASE Prune(p)
  <2>1. pc[p] = "prune" /\ UNCHANGED <<live, users>>
    BY <1>8 DEF Prune
  <2>2. CASE ~(sessions.entries \subseteq op[p].set) /\ goesOn(p, "pruned")
    <3>1. sessions.claims = NoClaims
      BY <2>2 DEF HomeInv, FileInv
    <3>2. At(p)'
      BY <1>1, <2>1, <2>2, <3>1, OneGoesOn DEF At
    <3> QED
      BY <1>1, <1>2, <1>u, <2>1, <2>2, <3>2, OneGoesOn DEF HomeInv
  <2>3. CASE return(p)
    BY <2>1, <2>3, <1>e
  <2> QED
    BY <1>8, <2>2, <2>3, Leads DEF Prune
<1>9. CASE Crash(p)
  BY <1>9, <1>e DEF Crash
<1> QED
  BY <1>3, <1>4, <1>5, <1>6, <1>7, <1>8, <1>9

LEMMA StepHome ==
    ASSUME env = {}, TypeInv, HomeInv, [Next]_vars
    PROVE HomeInv'
<1>1. ASSUME NEW v \in VMs, RuntimeLoses(v) PROVE HomeInv'
  <2>1. /\ UNCHANGED <<claims, sessions, pc, op>>
        /\ live' = live \ {v}
        /\ users'[v] = {}
        /\ \A w \in VMs : w # v => users'[w] = users[w]
    BY <1>1 DEF RuntimeLoses, files, TypeInv, FilesOK
  <2>2. Alone' /\ LiveInv' /\ OwnerInv' /\ FileInv'
    BY <2>1 DEF HomeInv, Alone, LiveInv, OwnerInv, FileInv, owner
  <2>3. ASSUME NEW p \in Procs PROVE At(p)'
    <3>1. At(p) /\ Fits(pc[p], op[p])
      BY DEF HomeInv, TypeInv, OpsOK
    <3>2. op[p].verb \in {"rm", "forget"} /\ users[op[p].vm] = {} => users'[op[p].vm] = {}
      BY <2>1, <3>1 DEF Fits
    <3> QED
      BY <2>1, <3>1, <3>2 DEF At, Carried, readClaims, owner
  <2> QED
    BY <2>2, <2>3 DEF HomeInv
<1>2. CASE UNCHANGED vars
  BY <1>2 DEF vars, files, guests, HomeInv, Alone, LiveInv, OwnerInv, FileInv, At, Carried,
              readClaims, owner
<1> QED
  BY <1>1, <1>2, HomeBegins, HomeReads, HomeWrites, HomeOthers DEF Next, Step

LEMMA InitHome == Init => HomeInv
<1> SUFFICES ASSUME Init PROVE HomeInv
  OBVIOUS
<1>1. PICK old \in {c \in Claims : \A v \in VMs : c[v] # None =>
                       c[v] \notin Unnamed /\ v \in lands[c[v]]} :
         /\ sessions = [claims |-> old, entries |-> {}]
         /\ live = {v \in VMs : old[v] # None}
         /\ users = [v \in VMs |-> {old[v]} \ {None}]
  BY DEF Init
<1>2. claims = Absent /\ \A p \in Procs : pc[p] = "idle"
  BY DEF Init
<1>3. LiveInv /\ OwnerInv /\ FileInv
  BY <1>1, <1>2 DEF LiveInv, OwnerInv, FileInv, owner
<1>4. Alone /\ \A p \in Procs : At(p)
  BY <1>2 DEF Alone, At
<1> QED
  BY <1>3, <1>4 DEF HomeInv

\* With brig commands one at a time and no failed write, no two session names are
\* ever let into one sandbox (claimSlug), however many names and runs without a
\* name become it, whatever an older release left, and wherever a command is
\* killed.
THEOREM OneName == Spec => []OneHome
<1> DEFINE Inv == env = {} => HomeInv
<1>1. ASSUME TypeInv, Inv PROVE OneHome
  <2> SUFFICES ASSUME env = {}, NEW v \in VMs
               PROVE Cardinality(users[v] \ Unnamed) <= 1
    BY DEF OneHome, NeverShared
  <2> DEFINE named == users[v] \ Unnamed
  <2>2. ASSUME NEW m \in named, NEW n \in named PROVE m = n
    BY <1>1, <2>2 DEF HomeInv, OwnerInv
  <2>3. CASE named = {}
    BY <2>3, FS_EmptySet
  <2>4. CASE named # {}
    <3>1. PICK n : named = {n}
      BY <2>2, <2>4
    <3>2. Cardinality({n}) = 1
      BY FS_Singleton
    <3> QED
      BY <3>1, <3>2
  <2> QED
    BY <2>3, <2>4
<1>2. ASSUME TypeInv, Inv, [Next]_vars PROVE Inv'
  <2>1. env' = env
    BY <1>2, EnvStays
  <2> QED
    BY <1>2, <2>1, StepHome
<1>3. Init => Inv
  BY InitHome
<1> HIDE DEF Inv
<1>4. /\ TypeInv /\ Inv => OneHome
      /\ TypeInv /\ Inv /\ [Next]_vars => Inv'
  BY <1>1, <1>2
<1> QED
  BY <1>3, <1>4, InitTypes, StepTypes, PTL DEF Spec

-----------------------------------------------------------------------------
\* Why nobody's record is lost while commands run one at a time, failed writes and
\* kills included: the copy of a file that a command is about to write back is the
\* file, up to the sandboxes that are gone, and the migration removes sessions.json
\* only while there is nothing but old claims in it.

\* What a process with the locals o knows at the label l.
Copied(l, o) ==
    /\ l \in {"old", "carry"} => claims = Absent
    /\ l \in {"carry", "removeOld"} => sessions.claims # NoClaims
    /\ l \in {"claim", "unclaim"} => o.claims = readClaims
    /\ l = "claim" => readClaims[o.vm] = None
    /\ l \in {"record", "drop"} => o.set = sessions.entries
    /\ l = "prune" => live \subseteq o.set
    /\ l = "pruned" => sessions.entries \cap live \subseteq o.set

KeepInv == Alone /\ FileInv /\ \A p \in Procs : Copied(pc[p], op[p])

\* The labels at which nothing is held that another step could make stale.
Free == {"idle", "stat", "read", "boot", "remember", "rm", "forget", "list"}

LEMMA KeepOne ==
    ASSUME TypeInv, NEW p \in Procs, \A q \in Procs \ {p} : pc[q] = "idle",
           NEW l, NEW o, step(p, l, o), FileInv', Copied(l, o)'
    PROVE KeepInv'
<1>1. /\ pc'[p] = l /\ op'[p] = o
      /\ \A q \in Procs \ {p} : pc'[q] = "idle"
  BY DEF TypeInv, OpsOK, step
<1>2. Alone'
  BY <1>1 DEF Alone
<1>3. ASSUME NEW q \in Procs PROVE Copied(pc[q], op[q])'
  <2>1. CASE q = p
    BY <1>1, <2>1 DEF Copied, readClaims
  <2>2. CASE q # p
    BY <1>1, <2>2 DEF Copied
  <2> QED
    BY <2>1, <2>2
<1> QED
  BY <1>2, <1>3 DEF KeepInv

\* A step to one of the free labels asks for nothing more.
LEMMA KeepFree ==
    ASSUME TypeInv, NEW p \in Procs, \A q \in Procs \ {p} : pc[q] = "idle", FileInv'
    PROVE /\ return(p) => KeepInv'
          /\ \A l \in Free : goesOn(p, l) => KeepInv'
<1>1. \A l \in Free : \A o : Copied(l, o)'
  BY DEF Free, Copied
<1>2. ASSUME return(p) PROVE KeepInv'
  <2>1. step(p, "idle", NoOp) /\ "idle" \in Free
    BY <1>2, ReturnOps DEF Free
  <2> QED
    BY <1>1, <2>1, KeepOne
<1>3. ASSUME NEW l \in Free, goesOn(p, l) PROVE KeepInv'
  <2>1. PICK o \in Ops : step(p, l, o)
    BY <1>3 DEF goesOn
  <2> QED
    BY <1>1, <2>1, KeepOne
<1> QED
  BY <1>2, <1>3

\* The steps after which a process holds a copy, or has seen the old claims.
LEMMA KeepReads ==
    ASSUME TypeInv, KeepInv, NEW p \in Procs,
           \/ Stat(p) \/ ReadOld(p) \/ Read(p) \/ Remember(p) \/ Forget(p)
           \/ ListLive(p) \/ Prune(p)
    PROVE KeepInv'
<1>1. /\ UNCHANGED <<claims, sessions, live>> /\ Copied(pc[p], op[p])
      /\ \A q \in Procs \ {p} : pc[q] = "idle"
      /\ op \in [Procs -> Ops] /\ op[p] \in Ops
  BY DEF Stat, ReadOld, Read, Remember, Forget, ListLive, Prune, files, guests, KeepInv, Alone,
         TypeInv, OpsOK
<1>2. FileInv' /\ readClaims' = readClaims
  BY <1>1 DEF KeepInv, FileInv, readClaims
<1>3. /\ readClaims \in Claims /\ sessions.claims \in Claims /\ sessions.entries \in SUBSET VMs
      /\ live \in SUBSET VMs
  BY Empty DEF TypeInv, FilesOK, Sessions, readClaims
<1>f. /\ return(p) => KeepInv'
      /\ \A l \in Free : goesOn(p, l) => KeepInv'
  BY <1>1, <1>2, KeepFree
<1>l. "read" \in Free /\ "boot" \in Free /\ "stat" \in Free
  BY DEF Free
<1>k. ASSUME NEW l, NEW o \in Ops, step(p, l, o), Copied(l, o) PROVE KeepInv'
  <2>1. Copied(l, o)'
    BY <1>1, <1>2, <1>k DEF Copied
  <2> QED
    BY <1>1, <1>2, <1>k, <2>1, KeepOne
\* The locals with another copy of the claims, or of the entries.
<1>c. ASSUME NEW l, NEW c \in Claims, goto(p, l), op' = [op EXCEPT ![p].claims = c]
      PROVE \E o \in Ops : step(p, l, o) /\ o.claims = c /\ o.vm = op[p].vm
  <2> DEFINE o == [op[p] EXCEPT !.claims = c]
  <2>1. o \in Ops /\ o.claims = c /\ o.vm = op[p].vm
    BY <1>1, Locals
  <2>2. step(p, l, o)
    BY <1>c DEF step, goto
  <2> HIDE DEF o
  <2> QED
    BY <2>1, <2>2
<1>s. ASSUME NEW l, NEW s \in SUBSET VMs, goto(p, l), op' = [op EXCEPT ![p].set = s]
      PROVE \E o \in Ops : step(p, l, o) /\ o.set = s
  <2> DEFINE o == [op[p] EXCEPT !.set = s]
  <2>1. o \in Ops /\ o.set = s
    BY <1>1 DEF Ops
  <2>2. step(p, l, o)
    BY <1>s DEF step, goto
  <2> HIDE DEF o
  <2> QED
    BY <2>1, <2>2
<1>4. CASE Stat(p)
  <2>1. CASE claims = Absent
    <3>1. step(p, "old", op[p])
      BY <1>1, <1>4, <2>1 DEF Stat, goto, step
    <3>2. PICK o \in Ops : o = op[p]
      BY <1>1
    <3>3. Copied("old", o)
      BY <2>1 DEF Copied
    <3> QED
      BY <1>k, <3>1, <3>2, <3>3
  <2>2. CASE claims # Absent
    BY <1>4, <1>f, <1>l, <2>2, GoesOn DEF Stat
  <2> QED
    BY <2>1, <2>2
<1>5. CASE ReadOld(p)
  <2>1. CASE sessions.claims = NoClaims
    BY <1>5, <1>f, <1>l, <2>1, GoesOn DEF ReadOld
  <2>2. CASE sessions.claims # NoClaims
    <3>1. PICK o \in Ops : step(p, "carry", o)
      BY <1>5, <1>3, <1>c, <2>2 DEF ReadOld
    <3>2. Copied("carry", o)
      BY <1>1, <1>5, <2>2 DEF Copied, ReadOld
    <3> QED
      BY <1>k, <3>1, <3>2
  <2> QED
    BY <2>1, <2>2
<1>6. CASE Read(p)
  <2>1. CASE copies(p, NoClaims, "boot")
    BY <1>f, <1>l, <2>1, Empty, GoesOn DEF copies
  <2>2. CASE readClaims[op[p].vm] = None /\ copies(p, readClaims, "claim")
    <3>1. PICK o \in Ops : step(p, "claim", o) /\ o.claims = readClaims /\ o.vm = op[p].vm
      BY <1>3, <1>c, <2>2 DEF copies
    <3>2. Copied("claim", o)
      BY <2>2, <3>1 DEF Copied
    <3> QED
      BY <1>k, <3>1, <3>2
  <2>3. CASE copies(p, readClaims, "unclaim")
    <3>1. PICK o \in Ops : step(p, "unclaim", o) /\ o.claims = readClaims
      BY <1>3, <1>c, <2>3 DEF copies
    <3>2. Copied("unclaim", o)
      BY <3>1 DEF Copied
    <3> QED
      BY <1>k, <3>1, <3>2
  <2> QED
    BY <1>6, <1>f, <2>1, <2>2, <2>3 DEF Read
<1>7. CASE Remember(p)
  <2>1. CASE op' = [op EXCEPT ![p].set = sessions.entries] /\ goto(p, "record")
    <3>1. PICK o \in Ops : step(p, "record", o) /\ o.set = sessions.entries
      BY <1>3, <1>s, <2>1
    <3>2. Copied("record", o)
      BY <3>1 DEF Copied
    <3> QED
      BY <1>k, <3>1, <3>2
  <2> QED
    BY <1>7, <1>f, <2>1 DEF Remember
<1>8. CASE Forget(p)
  <2>1. CASE op' = [op EXCEPT ![p].set = sessions.entries] /\ goto(p, "drop")
    <3>1. PICK o \in Ops : step(p, "drop", o) /\ o.set = sessions.entries
      BY <1>3, <1>s, <2>1
    <3>2. Copied("drop", o)
      BY <3>1 DEF Copied
    <3> QED
      BY <1>k, <3>1, <3>2
  <2>2. CASE goto(p, "stat") /\ UNCHANGED op
    BY <1>f, <1>l, <2>2, GoesOn
  <2> QED
    BY <1>8, <2>1, <2>2 DEF Forget
<1>9. CASE ListLive(p)
  <2>1. PICK o \in Ops : step(p, "prune", o) /\ o.set = live
    BY <1>3, <1>9, <1>s DEF ListLive
  <2>2. Copied("prune", o)
    BY <2>1 DEF Copied
  <2> QED
    BY <1>k, <2>1, <2>2
<1>10. CASE Prune(p)
  <2>1. CASE op' = [op EXCEPT ![p].set = @ \cap sessions.entries] /\ goto(p, "pruned")
    <3> DEFINE s == op[p].set \cap sessions.entries
    <3>1. s \in SUBSET VMs /\ op' = [op EXCEPT ![p].set = s]
      BY <1>3, <2>1
    <3>2. live \subseteq op[p].set
      BY <1>1, <1>10 DEF Prune, Copied
    <3>3. sessions.entries \cap live \subseteq s
      BY <3>2
    <3> HIDE DEF s
    <3>4. PICK o \in Ops : step(p, "pruned", o) /\ o.set = s
      BY <1>s, <2>1, <3>1
    <3>5. Copied("pruned", o)
      BY <3>3, <3>4 DEF Copied
    <3> QED
      BY <1>k, <3>4, <3>5
  <2> QED
    BY <1>10, <1>f, <2>1 DEF Prune
<1> QED
  BY <1>4, <1>5, <1>6, <1>7, <1>8, <1>9, <1>10

\* The other steps of an operation: it begins, writes, boots, removes or is killed.
LEMMA KeepOthers ==
    ASSUME "concurrent" \notin env, TypeInv, KeepInv, NEW p \in Procs, Step(p),
           ~(\/ Stat(p) \/ ReadOld(p) \/ Read(p) \/ Remember(p) \/ Forget(p)
             \/ ListLive(p) \/ Prune(p))
    PROVE KeepInv'
<1>1. Copied(pc[p], op[p]) /\ \A q \in Procs \ {p} : pc[q] = "idle"
  BY DEF Step, EnsureRunning, Remove, List, begin, Carry, RemoveOld, claimSlug, ForgetSlugClaim,
         Boot, Record, RuntimeRemove, ForgetSandbox, PruneSessions, Crash, KeepInv, Alone,
         Stat, ReadOld, Read, Remember, Forget, ListLive, Prune
<1>2. FileInv'
  <2>1. \/ UNCHANGED sessions
        \/ sessions' = [claims |-> NoClaims, entries |-> {}]
        \/ \E set : writeEntries(set)
    BY DEF Step, EnsureRunning, Remove, List, begin, Carry, RemoveOld, claimSlug, ForgetSlugClaim,
           Boot, Record, RuntimeRemove, ForgetSandbox, PruneSessions, Crash, files, writeIndex,
           Stat, ReadOld, Read, Remember, Forget, ListLive, Prune
  <2> QED
    BY <2>1 DEF FileInv, writeEntries, KeepInv
<1>f. /\ return(p) => KeepInv'
      /\ \A l \in Free : goesOn(p, l) => KeepInv'
  BY <1>1, <1>2, KeepFree
<1>l. Free = {"idle", "stat", "read", "boot", "remember", "rm", "forget", "list"}
  BY DEF Free
<1>k. ASSUME NEW l \in Free, NEW o \in Ops, step(p, l, o) PROVE KeepInv'
  <2>1. Copied(l, o)'
    BY DEF Free, Copied
  <2> QED
    BY <1>1, <1>2, <1>k, <2>1, KeepOne
<1>3. CASE \/ \E n \in Names : \E v \in lands[n] : EnsureRunning(p, n, v)
           \/ \E v \in VMs : Remove(p, v)
           \/ List(p)
  BY <1>3, <1>k, <1>l, Begins
<1>4. CASE Carry(p)
  <2>1. CASE goto(p, "removeOld")
    <3>1. op[p] \in Ops /\ step(p, "removeOld", op[p]) /\ UNCHANGED sessions
      BY <1>4, <2>1 DEF Carry, goto, step, TypeInv, OpsOK
    <3>2. PICK o \in Ops : o = op[p]
      BY <3>1
    <3>3. sessions.claims # NoClaims
      BY <1>1, <1>4 DEF Carry, Copied
    <3>4. Copied("removeOld", o)'
      BY <3>1, <3>3 DEF Copied
    <3> QED
      BY <1>1, <1>2, <3>1, <3>2, <3>4, KeepOne
  <2>2. CASE goto(p, "read")
    BY <1>4, <1>f, <1>l, <2>2, GoesOn DEF Carry
  <2> QED
    BY <1>4, <2>1, <2>2 DEF Carry, writeIndex
<1>5. CASE RemoveOld(p) \/ claimSlug(p) \/ Boot(p) \/ RuntimeRemove(p) \/ ForgetSandbox(p)
  BY <1>5, <1>f, <1>l, Leads
<1>6. CASE ForgetSlugClaim(p) \/ Record(p) \/ PruneSessions(p) \/ Crash(p)
  BY <1>6, <1>f DEF ForgetSlugClaim, Record, PruneSessions, Crash
<1> QED
  BY <1>3, <1>4, <1>5, <1>6 DEF Step

LEMMA StepKeep ==
    ASSUME "concurrent" \notin env, TypeInv, KeepInv, [Next]_vars
    PROVE KeepInv'
<1>1. ASSUME NEW v \in VMs, RuntimeLoses(v) PROVE KeepInv'
  <2>1. UNCHANGED <<claims, sessions, pc, op>> /\ live' = live \ {v}
    BY <1>1 DEF RuntimeLoses, files
  <2>2. Alone' /\ FileInv'
    BY <2>1 DEF KeepInv, Alone, FileInv
  <2>3. ASSUME NEW p \in Procs PROVE Copied(pc[p], op[p])'
    <3>1. Copied(pc[p], op[p])
      BY DEF KeepInv
    <3> QED
      BY <2>1, <3>1 DEF Copied, readClaims
  <2> QED
    BY <2>2, <2>3 DEF KeepInv
<1>2. CASE UNCHANGED vars
  BY <1>2 DEF vars, files, guests, KeepInv, Alone, FileInv, Copied, readClaims
<1> QED
  BY <1>1, <1>2, KeepReads, KeepOthers DEF Next

LEMMA InitKeep == Init => KeepInv
<1> SUFFICES ASSUME Init PROVE KeepInv
  OBVIOUS
<1>1. sessions.entries = {} /\ \A p \in Procs : pc[p] = "idle"
  BY DEF Init
<1> QED
  BY <1>1 DEF KeepInv, Alone, FileInv, Copied

\* A step takes no claim but in ForgetSlugClaim.
LEMMA ClaimStays ==
    ASSUME TypeInv, KeepInv, "concurrent" \notin env, claims # Absent, Next, NEW v \in VMs
    PROVE \/ claims[v] = None \/ claims'[v] = claims[v]
          \/ \E p \in Procs : pc[p] = "unclaim" /\ op[p].vm = v
<1>0. claims \in Claims /\ readClaims = claims
  BY DEF TypeInv, FilesOK, readClaims
<1>1. \/ UNCHANGED claims
      \/ \E p \in Procs : Carry(p) \/ claimSlug(p) \/ ForgetSlugClaim(p)
  BY DEF Next, RuntimeLoses, files, Step, EnsureRunning, Remove, List, begin, RemoveOld,
         Boot, Record, RuntimeRemove, ForgetSandbox, PruneSessions, Crash,
         Stat, ReadOld, Read, Remember, Forget, ListLive, Prune
<1>2. ASSUME NEW p \in Procs, Carry(p) PROVE FALSE
  BY <1>2 DEF Carry, KeepInv, Copied
<1>3. ASSUME NEW p \in Procs, claimSlug(p) PROVE claims[v] = None \/ claims'[v] = claims[v]
  <2>1. /\ op[p].claims = claims /\ claims[op[p].vm] = None
        /\ claims' = [op[p].claims EXCEPT ![op[p].vm] = op[p].name] \/ UNCHANGED claims
    BY <1>0, <1>3 DEF claimSlug, writeIndex, KeepInv, Copied
  <2> QED
    BY <1>0, <2>1 DEF Claims
<1>4. ASSUME NEW p \in Procs, ForgetSlugClaim(p)
      PROVE claims'[v] = claims[v] \/ (pc[p] = "unclaim" /\ op[p].vm = v)
  <2>1. /\ op[p].claims = claims /\ pc[p] = "unclaim"
        /\ claims' = [op[p].claims EXCEPT ![op[p].vm] = None] \/ UNCHANGED claims
    BY <1>0, <1>4 DEF ForgetSlugClaim, writeIndex, KeepInv, Copied
  <2> QED
    BY <1>0, <2>1 DEF Claims
<1> QED
  BY <1>1, <1>2, <1>3, <1>4

\* A step takes no entry of a sandbox that the runtime has but in ForgetSandbox.
LEMMA EntryStays ==
    ASSUME TypeInv, KeepInv, "concurrent" \notin env, Next, NEW v \in sessions.entries \cap live
    PROVE \/ v \in sessions'.entries
          \/ \E p \in Procs : pc[p] = "drop" /\ op[p].vm = v
<1>1. \/ UNCHANGED sessions
      \/ \E p \in Procs : RemoveOld(p) \/ Record(p) \/ ForgetSandbox(p) \/ PruneSessions(p)
  BY DEF Next, RuntimeLoses, files, Step, EnsureRunning, Remove, List, begin, Carry, claimSlug,
         ForgetSlugClaim, Boot, RuntimeRemove, Crash,
         Stat, ReadOld, Read, Remember, Forget, ListLive, Prune
<1>2. ASSUME NEW p \in Procs, RemoveOld(p) PROVE FALSE
  BY <1>2 DEF RemoveOld, KeepInv, Copied, FileInv
<1>3. ASSUME NEW p \in Procs, Record(p) \/ PruneSessions(p) PROVE v \in sessions'.entries
  BY <1>3 DEF Record, PruneSessions, writeIndex, writeEntries, KeepInv, Copied
<1>4. ASSUME NEW p \in Procs, ForgetSandbox(p)
      PROVE v \in sessions'.entries \/ (pc[p] = "drop" /\ op[p].vm = v)
  BY <1>4 DEF ForgetSandbox, writeEntries, KeepInv, Copied
<1> QED
  BY <1>1, <1>2, <1>3, <1>4

\* What a command wrote down outlives the other commands: while they run one at a
\* time, no step but a removal of the sandbox takes its claim or its session
\* entry, with failed writes, the migration of an older release's file and kills
\* at any step (claimSlug, ForgetSlugClaim, rememberSession, PruneSessions).
THEOREM NothingIsLost == Spec => KeepsSessions
<1> DEFINE Inv == "concurrent" \notin env => KeepInv
           ClaimStep == \A v \in VMs : "concurrent" \notin env /\ claims # Absent =>
                          \/ claims[v] = None \/ claims'[v] = claims[v]
                          \/ \E p \in Procs : pc[p] = "unclaim" /\ op[p].vm = v
           EntryStep == \A v \in sessions.entries \cap live :
                          \/ "concurrent" \in env
                          \/ v \in sessions'.entries
                          \/ \E p \in Procs : pc[p] = "drop" /\ op[p].vm = v
<1>1. ASSUME TypeInv, Inv, [Next]_vars PROVE Inv'
  <2>1. env' = env
    BY <1>1, EnvStays
  <2> QED
    BY <1>1, <2>1, StepKeep
<1>2. Init => Inv
  BY InitKeep
<1>3. ASSUME TypeInv, Inv, [Next]_vars PROVE [ClaimStep]_vars /\ [EntryStep]_vars
  BY <1>3, ClaimStays, EntryStays
<1>4. KeepsSessions <=> [][ClaimStep]_vars /\ [][EntryStep]_vars
  BY PTL DEF KeepsSessions, KeepsClaim, KeepsEntry
<1> HIDE DEF Inv, ClaimStep, EntryStep
<1>5. /\ TypeInv /\ Inv /\ [Next]_vars => Inv'
      /\ TypeInv /\ Inv /\ [Next]_vars => [ClaimStep]_vars /\ [EntryStep]_vars
  BY <1>1, <1>3
<1> QED
  BY <1>2, <1>4, <1>5, InitTypes, StepTypes, PTL DEF Spec
=============================================================================
