------------------------ MODULE SharedNetworkProofs ------------------------
(***************************************************************************)
(* What TLAPS proves of SharedNetwork, for any number of brig processes,   *)
(* sandboxes and addresses: nobody takes the gateway away from a guest; no *)
(* write to a record that is whole loses an address; and, while no two     *)
(* processes work on one sandbox too, no two guests have one address.      *)
(***************************************************************************)
EXTENDS SharedNetwork, TLAPS

\* The labels of an operation on a sandbox: its locals name it.
Named == Leased \cup Removing \cup {"lease"}
NamesOK == \A p \in Procs : pc[p] \in Named => op[p].name \in Names
TypeInv == TypeOK /\ NamesOK

\* The part of the invariant that is about the operations.
OpsOK ==
    /\ pc \in [Procs -> Labels]
    /\ op \in [Procs -> Ops]
    /\ NamesOK

LEMMA NoOpType == NoOp \in Ops
BY NetworkAssumption DEF NoOp, Ops, Slots, Assignments, NoAssignment

\* The locals of an operation keep their type, whichever field a step sets.
LEMMA OpFields ==
    ASSUME NEW o \in Ops
    PROVE /\ \A n \in Names, b \in BOOLEAN : [o EXCEPT !.name = n, !.boot = b] \in Ops
          /\ \A n \in Names : [o EXCEPT !.name = n] \in Ops
          /\ \A c \in Assignments : [o EXCEPT !.copy = c] \in Ops
          /\ \A s \in Slots, c \in Assignments : [o EXCEPT !.slot = s, !.copy = c] \in Ops
BY DEF Ops

LEMMA NoAssignmentType == NoAssignment \in Assignments
BY NetworkAssumption DEF NoAssignment, Assignments, Slots

\* A step of process p that goes to a label with well-typed locals o.
LEMMA OpsStep ==
    ASSUME TypeInv, NEW p \in Procs, NEW l \in Labels, NEW o \in Ops,
           l \in Named => o.name \in Names,
           pc' = [pc EXCEPT ![p] = l], op' = [op EXCEPT ![p] = o]
    PROVE OpsOK'
BY DEF TypeInv, TypeOK, NamesOK, OpsOK

LEMMA ReturnOps ==
    ASSUME TypeInv, NEW p \in Procs, return(p)
    PROVE OpsOK'
<1>1. "idle" \in Labels /\ "idle" \notin Named
  BY DEF Labels, Named, Leased, Behind, Removing
<1> QED
  BY <1>1, NoOpType, OpsStep DEF return, goto

\* A step that keeps the locals.
LEMMA MoveOps ==
    ASSUME TypeInv, NEW p \in Procs, NEW l \in Labels,
           l \in Named => pc[p] \in Named,
           goto(p, l), UNCHANGED op
    PROVE OpsOK'
BY DEF TypeInv, TypeOK, NamesOK, OpsOK, goto

\* Where the steps of a boot, a removal and a prune go.
LEMMA Label ==
    /\ {"rm", "lease", "look", "stopOld", "killOld", "again", "spawn", "ready",
        "alloc", "pick", "args", "run", "release", "drop"} = Named
    /\ Labels = Named \cup {"idle", "prune", "killAny"}
BY DEF Named, Labels, Leased, Behind, Removing

\* The variables besides the operations.
RestOK ==
    /\ assigned \in Assignments
    /\ allocLock \in Procs \cup {None}
    /\ gwLock \in Procs \cup {None}
    /\ leases \subseteq Procs
    /\ gateway \in {"none", "old", "api"}
    /\ starting \subseteq Procs
    /\ orphans \subseteq [name : Names, slot : Slots]
    /\ instances \subseteq Names
    /\ vm \in Assignments
    /\ env \in Envs

LEMMA Parts == TypeInv <=> OpsOK /\ RestOK
BY DEF TypeInv, TypeOK, OpsOK, RestOK, NamesOK

\* Setting one entry of an assignment.
LEMMA AssignType ==
    ASSUME NEW f \in Assignments, NEW n, NEW s \in Slots
    PROVE [f EXCEPT ![n] = s] \in Assignments
BY DEF Assignments

LEMMA Zero == 0 \in Slots
BY NetworkAssumption DEF Slots

\* What hull run does to the guests keeps their types.
LEMMA HullRunType ==
    ASSUME TypeInv, NEW n \in Names, NEW s \in Slots, hullRun(n, s)
    PROVE /\ instances' \subseteq Names
          /\ vm' \in Assignments
<1>1. [vm EXCEPT ![n] = s] \in Assignments
  BY AssignType DEF TypeInv, TypeOK
<1> QED
  BY <1>1 DEF hullRun, TypeInv, TypeOK

\* Every step of a boot keeps the types.
LEMMA BootType ==
    ASSUME TypeInv, NEW p \in Procs, BootStep(p), UNCHANGED env
    PROVE TypeInv'
<1> USE DEF fileVars, gwVars, guestVars
<1>r. OpsOK /\ RestOK
  BY Parts
<1>o. op[p] \in Ops
  BY <1>r DEF OpsOK
<1>n. pc[p] \in Named => op[p].name \in Names
  BY <1>r DEF OpsOK, NamesOK
<1>e. ASSUME endBoot(p) PROVE OpsOK' /\ leases' \subseteq Procs
  BY <1>e, <1>r, ReturnOps DEF endBoot, RestOK
<1> SUFFICES OpsOK' /\ RestOK'
  BY Parts DEF TypeInv, TypeOK, OpsOK, RestOK, NamesOK
<1>1. CASE \/ leaseSharedGateway(p) \/ Look(p) \/ StopOldGateway(p)
           \/ KillOld(p) \/ LookAgain(p) \/ startGateway(p) \/ GatewayReady(p)
  <2>1. OpsOK'
    BY <1>1, MoveOps, Label
       DEF leaseSharedGateway, Look, StopOldGateway, KillOld, LookAgain,
           startGateway, GatewayReady
  <2> QED
    BY <1>1, <2>1, <1>r
       DEF leaseSharedGateway, Look, StopOldGateway, KillOld, LookAgain,
           startGateway, GatewayReady, RestOK
<1>2. CASE GatewayTimeout(p)
  BY <1>2, <1>e, <1>r DEF GatewayTimeout, RestOK
<1>3. CASE LockAlloc(p)
  <2> DEFINE o == [op[p] EXCEPT !.copy = assigned]
  <2>1. o \in Ops /\ o.name = op[p].name
    BY <1>o, <1>r, OpFields DEF RestOK, Ops
  <2>2. op' = [op EXCEPT ![p] = o] /\ pc' = [pc EXCEPT ![p] = "pick"] /\ pc[p] = "alloc"
    BY <1>3, <1>r DEF LockAlloc, lockAlloc, goto, OpsOK
  <2> HIDE DEF o
  <2>3. OpsOK'
    BY <2>1, <2>2, <1>n, OpsStep, Label
  <2> QED
    BY <1>3, <2>3, <1>r DEF LockAlloc, lockAlloc, RestOK
<1>4. CASE Slot(p)
  <2>1. pc[p] \in Named /\ op[p].name \in Names /\ op[p].copy \in Assignments
    BY <1>4, <1>n, <1>o, Label DEF Slot, Ops
  <2>2. ASSUME NEW s \in Slots, hasSlot(p, s)
        PROVE OpsOK' /\ leases' = leases /\ allocLock' = None
    <3> DEFINE o == [op[p] EXCEPT !.slot = s, !.copy = NoAssignment]
    <3>1. o \in Ops /\ o.name = op[p].name
      BY <1>o, NoAssignmentType, OpFields DEF Ops
    <3>2. op' = [op EXCEPT ![p] = o] /\ pc' = [pc EXCEPT ![p] = "args"]
      BY <2>2, <1>r DEF hasSlot, goto, OpsOK
    <3> HIDE DEF o
    <3> QED
      BY <2>2, <3>1, <3>2, <2>1, OpsStep, Label DEF hasSlot
  <2>3. CASE hasSlot(p, op[p].copy[op[p].name]) /\ UNCHANGED assigned
    <3>1. op[p].copy[op[p].name] \in Slots
      BY <2>1 DEF Assignments
    <3> QED
      BY <1>4, <2>3, <3>1, <2>2, <1>r DEF Slot, RestOK
  <2>4. ASSUME NEW s \in 1..(last + 1), lowestFree(op[p].copy, s),
               assigned' = [op[p].copy EXCEPT ![op[p].name] = s], hasSlot(p, s)
        PROVE OpsOK' /\ RestOK'
    <3>1. s \in Slots
      BY <2>4, NetworkAssumption DEF lowestFree, Slots
    <3>2. assigned' \in Assignments
      BY <2>4, <3>1, <2>1, AssignType
    <3> QED
      BY <1>4, <2>4, <3>1, <3>2, <2>2, <1>r DEF Slot, RestOK
  <2>5. CASE allocLock' = None /\ endBoot(p) /\ UNCHANGED assigned
    BY <1>4, <2>5, <1>e, <1>r DEF Slot, RestOK
  <2> QED
    BY <1>4, <2>3, <2>4, <2>5 DEF Slot
<1>5. CASE RunArgs(p)
  <2>1. CASE goto(p, "run") /\ UNCHANGED <<op, leases>>
    <3>1. OpsOK'
      BY <1>5, <2>1, MoveOps, Label DEF RunArgs
    <3> QED
      BY <1>5, <2>1, <3>1, <1>r DEF RunArgs, RestOK
  <2>2. CASE endBoot(p)
    BY <1>5, <2>2, <1>e, <1>r DEF RunArgs, RestOK
  <2> QED
    BY <1>5, <2>1, <2>2 DEF RunArgs
<1>6. CASE HullRun(p)
  <2>1. op[p].name \in Names /\ op[p].slot \in Slots
    BY <1>6, <1>n, <1>o, Label DEF HullRun, Ops
  <2>2. /\ instances' \subseteq Names
        /\ vm' \in Assignments
    BY <1>6, <2>1, HullRunType DEF HullRun
  <2> QED
    BY <1>6, <2>2, <1>e, <1>r DEF HullRun, RestOK
<1> QED
  BY <1>1, <1>2, <1>3, <1>4, <1>5, <1>6 DEF BootStep

\* Every other step of a process keeps the types.
LEMMA OtherType ==
    ASSUME TypeInv, NEW p \in Procs, OtherStep(p), UNCHANGED env
    PROVE TypeInv'
<1> USE DEF fileVars, gwVars, guestVars
<1>r. OpsOK /\ RestOK
  BY Parts
<1>o. op[p] \in Ops
  BY <1>r DEF OpsOK
<1>n. pc[p] \in Named => op[p].name \in Names
  BY <1>r DEF OpsOK, NamesOK
<1>d. ASSUME pc[p] \in Named, removed(p) PROVE OpsOK'
  <2>1. CASE return(p)
    BY <2>1, ReturnOps
  <2>2. CASE goto(p, "lease") /\ op' = [op EXCEPT ![p].copy = NoAssignment]
    <3> DEFINE o == [op[p] EXCEPT !.copy = NoAssignment]
    <3>1. o \in Ops /\ o.name = op[p].name
      BY <1>o, NoAssignmentType, OpFields DEF Ops
    <3>2. op' = [op EXCEPT ![p] = o] /\ pc' = [pc EXCEPT ![p] = "lease"]
      BY <2>2, <1>r DEF goto, OpsOK
    <3> HIDE DEF o
    <3> QED
      BY <3>1, <3>2, <1>d, <1>n, OpsStep, Label
  <2> QED
    BY <1>d, <2>1, <2>2 DEF removed
<1>s. ASSUME stopped(p) PROVE vm' \in Assignments
  <2>1. vm \in Assignments
    BY <1>r DEF RestOK
  <2>2. [vm EXCEPT ![op[p].name] = 0] \in Assignments
    BY <2>1, Zero, AssignType
  <2> QED
    BY <1>s, <2>1, <2>2 DEF stopped
<1> SUFFICES OpsOK' /\ RestOK'
  BY Parts DEF TypeInv, TypeOK, OpsOK, RestOK, NamesOK
<1>1. CASE hullRemove(p)
  <2>1. OpsOK'
    BY <1>1, <1>d, MoveOps, Label DEF hullRemove
  <2> QED
    BY <1>1, <2>1, <1>s, <1>r DEF hullRemove, RestOK
<1>2. CASE LockRelease(p)
  <2> DEFINE o == [op[p] EXCEPT !.copy = assigned]
  <2>1. o \in Ops /\ o.name = op[p].name
    BY <1>o, <1>r, OpFields DEF RestOK, Ops
  <2>2. op' = [op EXCEPT ![p] = o] /\ pc' = [pc EXCEPT ![p] = "drop"] /\ pc[p] = "release"
    BY <1>2, <1>r DEF LockRelease, lockAlloc, goto, OpsOK
  <2> HIDE DEF o
  <2>3. OpsOK'
    BY <2>1, <2>2, <1>n, OpsStep, Label
  <2> QED
    BY <1>2, <2>3, <1>r DEF LockRelease, lockAlloc, RestOK
<1>3. CASE release(p)
  <2>1. OpsOK'
    BY <1>3, <1>d, Label DEF release
  <2>2. [op[p].copy EXCEPT ![op[p].name] = 0] \in Assignments
    BY <1>o, Zero, AssignType DEF Ops
  <2> QED
    BY <1>3, <2>1, <2>2, <1>r DEF release, RestOK
<1>4. CASE Prune(p)
  <2>1. OpsOK'
    BY <1>4, ReturnOps, MoveOps, Label DEF Prune
  <2> QED
    BY <1>4, <2>1, <1>r DEF Prune, RestOK
<1>5. CASE KillAny(p)
  BY <1>5, ReturnOps, <1>r DEF KillAny, RestOK
<1>6. CASE Crash(p)
  <2>1. OpsOK' /\ leases' \subseteq Procs
    BY <1>6, ReturnOps, <1>r DEF Crash, endBoot, RestOK
  <2>2. orphans' \subseteq [name : Names, slot : Slots]
    <3>1. pc[p] = "run" => op[p].name \in Names /\ op[p].slot \in Slots
      BY <1>n, <1>o, Label DEF Ops
    <3> QED
      BY <1>6, <3>1, <1>r DEF Crash, RestOK
  <2> QED
    BY <1>6, <2>1, <2>2, <1>r DEF Crash, RestOK
<1>7. CASE GatewayListens(p)
  BY <1>7, <1>r DEF GatewayListens, RestOK, OpsOK, NamesOK
<1> QED
  BY <1>1, <1>2, <1>3, <1>4, <1>5, <1>6, <1>7 DEF OtherStep

LEMMA InitType == Init => TypeInv
<1> SUFFICES ASSUME Init PROVE TypeInv
  OBVIOUS
<1>1. pc \in [Procs -> Labels] /\ op \in [Procs -> Ops] /\ NamesOK
  BY NoOpType, Label DEF Init, NamesOK, Named, Leased, Behind, Removing
<1> QED
  BY <1>1, NoAssignmentType DEF Init, TypeInv, TypeOK

\* No step changes what may happen in the behaviour.
LEMMA EnvStays == [Next]_vars => env' = env
<1> SUFFICES ASSUME [Next]_vars PROVE env' = env
  OBVIOUS
<1>1. ASSUME NEW p \in Procs, BootStep(p)
      PROVE env' = env
  BY <1>1 DEF BootStep, leaseSharedGateway, Look, StopOldGateway, KillOld, LookAgain,
     startGateway, GatewayReady, GatewayTimeout, LockAlloc, lockAlloc, Slot, RunArgs,
     HullRun
<1>2. ASSUME NEW p \in Procs, OtherStep(p)
      PROVE env' = env
  BY <1>2 DEF OtherStep, hullRemove, LockRelease, lockAlloc, release, Prune, KillAny,
     Crash, GatewayListens
<1>3. ASSUME NEW p \in Procs,
             \/ \E n \in Names : EnsureRunning(p, n) \/ Remove(p, n)
             \/ PruneSharedNetwork(p)
      PROVE env' = env
  BY <1>3 DEF EnsureRunning, Remove, PruneSharedNetwork, begin
<1> QED
  BY <1>1, <1>2, <1>3 DEF Next, vars, GuestEnds, OrphanRun, Corrupt

\* Every step keeps the types.
LEMMA StepType == TypeInv /\ [Next]_vars => TypeInv'
<1> SUFFICES ASSUME TypeInv, [Next]_vars PROVE TypeInv'
  OBVIOUS
<1> USE DEF fileVars, gwVars, guestVars
<1>r. OpsOK /\ RestOK /\ env' = env
  BY Parts, EnvStays
<1>1. ASSUME NEW p \in Procs, NEW n \in Names, EnsureRunning(p, n) \/ Remove(p, n)
      PROVE TypeInv'
  <2>1. /\ [NoOp EXCEPT !.name = n, !.boot = TRUE] \in Ops
        /\ [NoOp EXCEPT !.name = n, !.boot = TRUE].name \in Names
        /\ [NoOp EXCEPT !.name = n] \in Ops
        /\ [NoOp EXCEPT !.name = n].name \in Names
    BY NoOpType, OpFields DEF NoOp
  <2>2. OpsOK'
    BY <1>1, <2>1, OpsStep, Label DEF EnsureRunning, Remove, begin, goto
  <2> QED
    BY <1>1, <2>2, <1>r DEF EnsureRunning, Remove, begin, RestOK, TypeInv, TypeOK, OpsOK
<1>2. ASSUME NEW p \in Procs, PruneSharedNetwork(p)
      PROVE TypeInv'
  <2>1. OpsOK'
    BY <1>2, NoOpType, OpsStep, Label DEF PruneSharedNetwork, begin, goto
  <2> QED
    BY <1>2, <2>1, <1>r DEF PruneSharedNetwork, begin, RestOK, TypeInv, TypeOK, OpsOK
<1>3. ASSUME NEW n \in Names, GuestEnds(n)
      PROVE TypeInv'
  <2>1. vm' \in Assignments
    BY <1>3, <1>r, Zero, AssignType DEF GuestEnds, RestOK
  <2> QED
    BY <1>3, <2>1, <1>r DEF GuestEnds, RestOK, OpsOK, NamesOK, TypeInv, TypeOK
<1>4. ASSUME NEW o \in orphans, OrphanRun(o)
      PROVE TypeInv'
  <2>1. o.name \in Names /\ o.slot \in Slots
    BY <1>r DEF RestOK
  <2>2. /\ instances' \subseteq Names
        /\ vm' \in Assignments
    BY <1>4, <2>1, HullRunType DEF OrphanRun
  <2> QED
    BY <1>4, <2>2, <1>r DEF OrphanRun, RestOK, OpsOK, NamesOK, TypeInv, TypeOK
<1>5. CASE Corrupt
  BY <1>5, <1>r, NoAssignmentType DEF Corrupt, RestOK, OpsOK, NamesOK, TypeInv, TypeOK
<1>6. CASE UNCHANGED vars
  BY <1>6 DEF vars, TypeInv, TypeOK, NamesOK
<1> QED
  BY <1>r, <1>1, <1>2, <1>3, <1>4, <1>5, <1>6, BootType, OtherType DEF Next

\* The types of the record, of the locks and leases and of every process's
\* locals hold in every reachable state.
THEOREM TypeCorrect == Spec => []TypeOK
<1>1. TypeInv => TypeOK
  BY DEF TypeInv
<1> QED
  BY <1>1, InitType, StepType, PTL DEF Spec

-----------------------------------------------------------------------------
\* Why the gateway stays.  A process about to stop it holds the gateway's lock,
\* under which no boot can lease it; it found no other lease and no process on
\* the gateway; and a boot that is past its lease holds it to its end.
Killing(p) == pc[p] \in {"killOld", "killAny"}
GatewayInv ==
    /\ \A p \in Procs : Killing(p) => gwLock = p
    /\ \A p \in Procs : pc[p] \in Leased => p \in leases
    /\ \A p \in Procs : Killing(p) => leases \subseteq {p} /\ ~members
    /\ GatewayKept
    /\ \A p \in Procs : pc[p] \in {"stopOld", "killOld"} => gateway # "none"
    /\ orphans # {} => gateway # "none"

\* The labels a step moves between, as far as the gateway is concerned.
LEMMA GwLabels ==
    /\ Leased = {"look", "stopOld", "killOld", "again", "spawn", "ready",
                 "alloc", "pick", "args", "run"}
    /\ Behind = {"alloc", "pick", "args", "run"}
BY DEF Leased, Behind

\* A step of p that ends its operation, takes nothing but its lease and lock
\* away and leaves gateway and guests alone.
LEMMA EndGw ==
    ASSUME TypeInv, GatewayInv, NEW p \in Procs, return(p),
           leases' = leases \ {p} \/ (leases' = leases /\ pc[p] \notin Leased),
           gwLock' = gwLock \/ (gwLock = p /\ gwLock' = None),
           UNCHANGED <<gateway, orphans, vm>>
    PROVE GatewayInv'
<1>1. pc'[p] = "idle" /\ \A q \in Procs \ {p} : pc'[q] = pc[q]
  BY DEF return, goto, TypeInv, TypeOK
<1> QED
  BY <1>1, GwLabels DEF GatewayInv, GatewayKept, Killing, members

\* Every step of a boot keeps the gateway where it is needed.
LEMMA BootGw ==
    ASSUME TypeInv, GatewayInv, NEW p \in Procs, BootStep(p)
    PROVE GatewayInv'
<1> USE DEF fileVars, gwVars, guestVars
<1>t. pc \in [Procs -> Labels] /\ None \notin Procs
  BY NetworkAssumption DEF TypeInv, TypeOK
<1>g. ASSUME NEW l, goto(p, l)
      PROVE pc'[p] = l /\ \A q \in Procs \ {p} : pc'[q] = pc[q]
  BY <1>g, <1>t DEF goto
<1>a. ASSUME NEW q \in Procs, Killing(q), pc[p] \in Leased PROVE q = p
  BY <1>a DEF GatewayInv
<1>1. CASE leaseSharedGateway(p)
  <2>1. \A q \in Procs : ~Killing(q)
    BY <1>1, <1>t DEF leaseSharedGateway, GatewayInv
  <2> QED
    BY <1>1, <2>1, <1>g, GwLabels
       DEF leaseSharedGateway, GatewayInv, GatewayKept, Killing, members
<1>2. CASE Look(p) \/ LookAgain(p) \/ GatewayReady(p)
  <2>1. PICK l \in {"spawn", "alloc", "stopOld"} :
           goto(p, l) /\ (l # "spawn" => gateway # "none")
    BY <1>2 DEF Look, LookAgain, GatewayReady
  <2>2. pc[p] \in {"look", "again", "ready"}
    BY <1>2 DEF Look, LookAgain, GatewayReady
  <2>3. UNCHANGED <<gwLock, leases, gateway, orphans, vm>>
    BY <1>2 DEF Look, LookAgain, GatewayReady
  <2> QED
    BY <2>1, <2>2, <2>3, <1>g, GwLabels
       DEF GatewayInv, GatewayKept, Killing, members
<1>3. CASE StopOldGateway(p)
  <2>1. CASE gwLock' = p
    <3>1. /\ goto(p, "killOld") /\ gwLock = None /\ leases \subseteq {p} /\ ~members
          /\ pc[p] = "stopOld" /\ UNCHANGED <<leases, gateway, orphans, vm>>
      BY <1>3, <2>1, <1>t DEF StopOldGateway, bootsInFlight
    <3>2. \A q \in Procs : ~Killing(q)
      BY <3>1, <1>t DEF GatewayInv
    <3> QED
      BY <2>1, <3>1, <3>2, <1>g, GwLabels
         DEF GatewayInv, GatewayKept, Killing, members
  <2>2. CASE gwLock' # p
    <3>1. /\ goto(p, "alloc") /\ gwLock' = gwLock /\ pc[p] = "stopOld"
          /\ UNCHANGED <<leases, gateway, orphans, vm>>
          /\ bootsInFlight({p}) \/ members \/ gateway # "old"
      BY <1>3, <2>2 DEF StopOldGateway
    <3>2. gateway # "none"
      BY <3>1 DEF GatewayInv
    <3> QED
      BY <3>1, <3>2, <1>g, GwLabels
         DEF GatewayInv, GatewayKept, Killing, members
  <2> QED
    BY <2>1, <2>2
<1>4. CASE KillOld(p)
  <2>1. \A q \in Procs \ {p} : ~Killing(q) /\ pc[q] \notin Leased
    BY <1>4, <1>t DEF KillOld, GatewayInv, Killing
  <2>2. ~members /\ orphans = {} /\ \A n \in Names : vm[n] = 0
    BY <1>4 DEF KillOld, GatewayInv, Killing, members
  <2>3. PICK l \in {"again", "alloc"} : goto(p, l) /\ (l = "alloc" => gateway' # "none")
    BY <1>4 DEF KillOld, GatewayInv
  <2>4. /\ leases' = leases /\ p \in leases
        /\ UNCHANGED <<orphans, vm>>
    BY <1>4, GwLabels DEF KillOld, GatewayInv
  <2>5. pc'[p] = l /\ \A q \in Procs \ {p} : pc'[q] = pc[q]
    BY <2>3, <1>g
  <2>6. /\ \A q \in Procs : ~Killing(q)'
        /\ \A q \in Procs : pc'[q] \in Leased => q \in leases'
        /\ \A q \in Procs : pc'[q] \notin {"stopOld", "killOld"}
    BY <2>1, <2>4, <2>5, GwLabels DEF Killing
  <2>7. GatewayKept'
    BY <2>1, <2>2, <2>3, <2>4, <2>5, GwLabels DEF GatewayKept
  <2> QED
    BY <2>2, <2>4, <2>6, <2>7 DEF GatewayInv
<1>5. CASE startGateway(p) \/ LockAlloc(p)
  <2>1. PICK l \in {"ready", "pick"} :
           goto(p, l) /\ (l = "pick" => pc[p] = "alloc")
    BY <1>5 DEF startGateway, LockAlloc, lockAlloc
  <2>2. pc[p] \in {"spawn", "alloc"} /\ UNCHANGED <<gwLock, leases, gateway, orphans, vm>>
    BY <1>5 DEF startGateway, LockAlloc, lockAlloc
  <2> QED
    BY <2>1, <2>2, <1>g, GwLabels DEF GatewayInv, GatewayKept, Killing, members
<1>6. CASE GatewayTimeout(p)
  BY <1>6, EndGw DEF GatewayTimeout, endBoot
<1>7. CASE Slot(p)
  <2>1. pc[p] = "pick" /\ UNCHANGED <<gwLock, gateway, orphans, vm>>
    BY <1>7 DEF Slot
  <2>2. CASE goto(p, "args") /\ UNCHANGED leases
    BY <2>1, <2>2, <1>g, GwLabels DEF GatewayInv, GatewayKept, Killing, members
  <2>3. CASE endBoot(p)
    BY <2>1, <2>3, EndGw DEF endBoot
  <2> QED
    BY <1>7, <2>2, <2>3 DEF Slot, hasSlot
<1>8. CASE RunArgs(p)
  <2>1. pc[p] = "args" /\ UNCHANGED <<gwLock, gateway, orphans, vm>>
    BY <1>8 DEF RunArgs
  <2>2. CASE goto(p, "run") /\ UNCHANGED leases
    <3>1. \A q \in Procs : ~Killing(q)
      BY <2>1, <1>a, GwLabels DEF Killing
    <3> QED
      BY <2>1, <2>2, <3>1, <1>g, GwLabels DEF GatewayInv, GatewayKept, Killing, members
  <2>3. CASE endBoot(p)
    BY <2>1, <2>3, EndGw DEF endBoot
  <2> QED
    BY <1>8, <2>2, <2>3 DEF RunArgs
<1>9. CASE HullRun(p)
  <2>1. /\ pc[p] = "run" /\ UNCHANGED <<gwLock, gateway, orphans>>
        /\ goto(p, "idle") /\ leases' = leases \ {p}
    BY <1>9 DEF HullRun, endBoot, return
  <2>2. \A q \in Procs : ~Killing(q)
    BY <2>1, <1>a, GwLabels DEF Killing
  <2>3. gateway # "none"
    BY <2>1, GwLabels DEF GatewayInv, GatewayKept
  <2> QED
    BY <2>1, <2>2, <2>3, <1>g, GwLabels DEF GatewayInv, GatewayKept, Killing
<1> QED
  BY <1>1, <1>2, <1>3, <1>4, <1>5, <1>6, <1>7, <1>8, <1>9 DEF BootStep

\* Every other step of a process does too.
LEMMA OtherGw ==
    ASSUME TypeInv, GatewayInv, NEW p \in Procs, OtherStep(p)
    PROVE GatewayInv'
<1> USE DEF fileVars, gwVars, guestVars
<1>t. pc \in [Procs -> Labels] /\ vm \in [Names -> Slots] /\ None \notin Procs
  BY NetworkAssumption DEF TypeInv, TypeOK, Assignments
<1>g. ASSUME NEW l, goto(p, l)
      PROVE pc'[p] = l /\ \A q \in Procs \ {p} : pc'[q] = pc[q]
  BY <1>g, <1>t DEF goto
<1>m. ASSUME NEW l \in {"idle", "lease", "release", "drop"}, goto(p, l),
             pc[p] \in Removing, UNCHANGED <<gwLock, leases, gateway, orphans>>,
             \A n \in Names : vm'[n] = vm[n] \/ vm'[n] = 0
      PROVE GatewayInv'
  BY <1>m, <1>g, GwLabels DEF GatewayInv, GatewayKept, Killing, members, Removing
<1>1. CASE hullRemove(p)
  <2>1. \A n \in Names : vm'[n] = vm[n] \/ vm'[n] = 0
    BY <1>1, <1>t DEF hullRemove, stopped
  <2>2. PICK l \in {"idle", "lease", "release"} : goto(p, l)
    BY <1>1 DEF hullRemove, removed, return
  <2>3. pc[p] \in Removing /\ UNCHANGED <<gwLock, leases, gateway, orphans>>
    BY <1>1 DEF hullRemove, Removing
  <2> QED
    BY <2>1, <2>2, <2>3, <1>m
<1>2. CASE LockRelease(p)
  <2>1. /\ goto(p, "drop") /\ pc[p] \in Removing
        /\ UNCHANGED <<gwLock, leases, gateway, orphans, vm>>
    BY <1>2 DEF LockRelease, lockAlloc, Removing
  <2> QED
    BY <2>1, <1>m
<1>3. CASE release(p)
  <2>1. PICK l \in {"idle", "lease"} : goto(p, l)
    BY <1>3 DEF release, removed, return
  <2>2. pc[p] \in Removing /\ UNCHANGED <<gwLock, leases, gateway, orphans, vm>>
    BY <1>3 DEF release, Removing
  <2> QED
    BY <2>1, <2>2, <1>m
<1>4. CASE Prune(p)
  <2>1. pc[p] = "prune" /\ gwLock = None /\ UNCHANGED <<leases, gateway, orphans, vm>>
    BY <1>4 DEF Prune
  <2>2. \A q \in Procs : ~Killing(q)
    BY <2>1, <1>t DEF GatewayInv
  <2>3. CASE gwLock' = p /\ goto(p, "killAny")
    <3>1. leases = {} /\ ~members
      BY <1>4, <2>3, <1>t DEF Prune, bootsInFlight, return, goto
    <3> QED
      BY <2>1, <2>2, <2>3, <3>1, <1>g, GwLabels
         DEF GatewayInv, GatewayKept, Killing, members
  <2>4. CASE return(p) /\ UNCHANGED gwLock
    BY <2>1, <2>4, EndGw, GwLabels
  <2> QED
    BY <1>4, <2>3, <2>4 DEF Prune
<1>5. CASE KillAny(p)
  <2>1. /\ pc[p] = "killAny" /\ goto(p, "idle")
        /\ UNCHANGED <<leases, orphans, vm>>
    BY <1>5 DEF KillAny, return
  <2>2. \A q \in Procs \ {p} : ~Killing(q) /\ pc[q] \notin Leased
    BY <2>1, <1>t DEF GatewayInv, Killing
  <2>3. orphans = {} /\ \A n \in Names : vm[n] = 0
    BY <2>1 DEF GatewayInv, Killing, members
  <2>4. pc'[p] = "idle" /\ \A q \in Procs \ {p} : pc'[q] = pc[q]
    BY <2>1, <1>g
  <2> QED
    BY <2>1, <2>2, <2>3, <2>4, GwLabels DEF GatewayInv, GatewayKept, Killing
<1>6. CASE Crash(p)
  <2>1. /\ return(p) /\ leases' = leases \ {p} /\ UNCHANGED <<gateway, vm>>
        /\ gwLock' = gwLock \/ (gwLock = p /\ gwLock' = None)
    BY <1>6 DEF Crash, endBoot
  <2>2. CASE UNCHANGED orphans
    BY <2>1, <2>2, EndGw
  <2>3. CASE pc[p] = "run"
    <3>1. \A q \in Procs : ~Killing(q)
      BY <2>3, GwLabels DEF GatewayInv, Killing
    <3>2. gateway # "none"
      BY <2>3, GwLabels DEF GatewayInv, GatewayKept
    <3>3. pc'[p] = "idle" /\ \A q \in Procs \ {p} : pc'[q] = pc[q]
      BY <2>1, <1>g DEF return
    <3> QED
      BY <2>1, <3>1, <3>2, <3>3, GwLabels DEF GatewayInv, GatewayKept, Killing
  <2> QED
    BY <1>6, <2>2, <2>3 DEF Crash
<1>7. CASE GatewayListens(p)
  BY <1>7 DEF GatewayListens, GatewayInv, GatewayKept, Killing, members
<1> QED
  BY <1>1, <1>2, <1>3, <1>4, <1>5, <1>6, <1>7 DEF OtherStep

LEMMA StepGw == TypeInv /\ GatewayInv /\ [Next]_vars => GatewayInv'
<1> SUFFICES ASSUME TypeInv, GatewayInv, [Next]_vars PROVE GatewayInv'
  OBVIOUS
<1> USE DEF fileVars, gwVars, guestVars
<1>t. /\ pc \in [Procs -> Labels] /\ vm \in [Names -> Slots] /\ None \notin Procs
      /\ orphans \subseteq [name : Names, slot : Slots]
  BY NetworkAssumption DEF TypeInv, TypeOK, Assignments
<1>1. ASSUME NEW p \in Procs, NEW l \in {"rm", "prune"}, NEW o, begin(p, l, o)
      PROVE GatewayInv'
  <2>1. pc'[p] = l /\ \A q \in Procs \ {p} : pc'[q] = pc[q]
    BY <1>1, <1>t DEF begin, goto
  <2> QED
    BY <1>1, <2>1, GwLabels DEF begin, GatewayInv, GatewayKept, Killing, members
<1>2. ASSUME NEW n \in Names, GuestEnds(n)
      PROVE GatewayInv'
  <2>1. \A m \in Names : vm'[m] = vm[m] \/ vm'[m] = 0
    BY <1>2, <1>t DEF GuestEnds
  <2> QED
    BY <1>2, <2>1 DEF GuestEnds, GatewayInv, GatewayKept, Killing, members
<1>3. ASSUME NEW o \in orphans, OrphanRun(o)
      PROVE GatewayInv'
  <2>1. gateway # "none" /\ \A p \in Procs : ~Killing(p)
    BY DEF GatewayInv, members
  <2> QED
    BY <1>3, <2>1 DEF OrphanRun, GatewayInv, GatewayKept, Killing
<1>4. CASE Corrupt \/ UNCHANGED vars
  BY <1>4 DEF Corrupt, vars, GatewayInv, GatewayKept, Killing, members
<1> QED
  BY <1>1, <1>2, <1>3, <1>4, BootGw, OtherGw
     DEF Next, EnsureRunning, Remove, PruneSharedNetwork

LEMMA InitGw == Init => GatewayInv
BY NetworkAssumption, GwLabels
   DEF Init, GatewayInv, GatewayKept, Killing, members, NoAssignment

\* Nobody takes the gateway away from a guest, or from a boot that found it up,
\* whatever the processes do, on one sandbox too, and wherever they are killed.
THEOREM GatewayStays == Spec => []GatewayKept
<1>1. GatewayInv => GatewayKept
  BY DEF GatewayInv
<1> QED
  BY <1>1, InitType, StepType, InitGw, StepGw, PTL DEF Spec

-----------------------------------------------------------------------------
\* Why addresses are unique.  The process between reading and writing the record
\* holds its lock, and what it read is the record.
RecordInv ==
    \A p \in Procs : pc[p] \in {"pick", "drop"} =>
        allocLock = p /\ op[p].copy = assigned

\* Only process p moves, to label l, and only its locals change.
only(p, l) ==
    /\ pc'[p] = l
    /\ \A q \in Procs \ {p} : pc'[q] = pc[q] /\ op'[q] = op[q]

LEMMA OnlyGoto ==
    ASSUME TypeInv, NEW p \in Procs, NEW l, goto(p, l),
           \/ UNCHANGED op
           \/ \E o : op' = [op EXCEPT ![p] = o]
    PROVE only(p, l)
BY DEF TypeInv, TypeOK, goto, only

LEMMA OnlyReturn ==
    ASSUME TypeInv, NEW p \in Procs, return(p)
    PROVE only(p, "idle") /\ op'[p] = NoOp
<1>1. only(p, "idle")
  BY OnlyGoto DEF return
<1> QED
  BY <1>1 DEF return, TypeInv, TypeOK

\* A removal that is over ends, or goes on to boot the same sandbox.
LEMMA OnlyRemoved ==
    ASSUME TypeInv, NEW p \in Procs, removed(p)
    PROVE \/ only(p, "idle") /\ op'[p] = NoOp
          \/ only(p, "lease") /\ op'[p].name = op[p].name
<1>1. CASE return(p)
  BY <1>1, OnlyReturn
<1>2. CASE goto(p, "lease") /\ op' = [op EXCEPT ![p].copy = NoAssignment]
  <2>1. op' = [op EXCEPT ![p] = [op[p] EXCEPT !.copy = NoAssignment]]
    BY <1>2
  <2>2. only(p, "lease")
    BY <1>2, <2>1, OnlyGoto
  <2>3. op[p] \in Ops /\ op'[p] = [op[p] EXCEPT !.copy = NoAssignment]
    BY <2>1 DEF TypeInv, TypeOK
  <2>4. op'[p].name = op[p].name
    BY <2>3 DEF Ops
  <2> QED
    BY <2>2, <2>4
<1> QED
  BY <1>1, <1>2 DEF removed

\* A step after which p is not between a read and a write of the record, and
\* which writes it and frees its lock only if p was.
LEMMA RecordMove ==
    ASSUME TypeInv, RecordInv, NEW p \in Procs, NEW l, only(p, l),
           l \notin {"pick", "drop"},
           \/ pc[p] \in {"pick", "drop"}
           \/ /\ assigned' = assigned
              /\ allocLock' = allocLock \/ allocLock = p
    PROVE RecordInv'
BY DEF RecordInv, only

\* The process that locks the record reads it.
LEMMA RecordLock ==
    ASSUME TypeInv, RecordInv, NEW p \in Procs, NEW from, NEW l, lockAlloc(p, from, l)
    PROVE /\ RecordInv'
          /\ only(p, l) /\ pc[p] = from
          /\ op'[p].name = op[p].name
          /\ UNCHANGED <<assigned, vm, orphans>>
<1> DEFINE o == [op[p] EXCEPT !.copy = assigned]
<1>1. op[p] \in Ops /\ None \notin Procs
  BY NetworkAssumption DEF TypeInv, TypeOK
<1>2. o.copy = assigned /\ o.name = op[p].name
  BY <1>1 DEF Ops
<1>3. op' = [op EXCEPT ![p] = o] /\ goto(p, l) /\ pc[p] = from
  BY DEF lockAlloc
<1>4. op'[p] = o
  BY <1>3 DEF TypeInv, TypeOK
<1> HIDE DEF o
<1>5. only(p, l)
  BY <1>3, OnlyGoto
<1>6. /\ allocLock = None /\ allocLock' = p
      /\ UNCHANGED <<assigned, vm, orphans>>
  BY DEF lockAlloc, guestVars
<1>7. RecordInv'
  BY <1>1, <1>2, <1>4, <1>5, <1>6 DEF RecordInv, only
<1> QED
  BY <1>2, <1>3, <1>4, <1>5, <1>6, <1>7

\* What a step of a boot does to the record, and to the process's locals.
LEMMA SlotStep ==
    ASSUME TypeInv, RecordInv, NEW p \in Procs, Slot(p)
    PROVE /\ RecordInv'
          /\ UNCHANGED <<vm, orphans>>
          /\ op[p].name \in Names
          /\ \/ only(p, "idle") /\ op'[p] = NoOp /\ UNCHANGED assigned
             \/ /\ only(p, "args") /\ op'[p].name = op[p].name
                /\ op'[p].slot = assigned[op[p].name]
                /\ UNCHANGED assigned
             \/ \E s \in 1..last :
                   /\ only(p, "args") /\ op'[p].name = op[p].name
                   /\ op'[p].slot = s
                   /\ assigned[op[p].name] = 0
                   /\ \A n \in Names : assigned[n] # s
                   /\ assigned' = [assigned EXCEPT ![op[p].name] = s]
<1>1. pc[p] = "pick" /\ op[p] \in Ops /\ op[p].copy = assigned /\ UNCHANGED <<vm, orphans>>
  BY DEF Slot, TypeInv, TypeOK, RecordInv, guestVars
<1>n. op[p].name \in Names
  BY <1>1, Label DEF TypeInv, NamesOK
<1>2. ASSUME NEW s \in Slots, hasSlot(p, s)
      PROVE only(p, "args") /\ op'[p].name = op[p].name /\ op'[p].slot = s
  <2> DEFINE o == [op[p] EXCEPT !.slot = s, !.copy = NoAssignment]
  <2>1. o.name = op[p].name /\ o.slot = s
    BY <1>1 DEF Ops
  <2>2. op' = [op EXCEPT ![p] = o] /\ goto(p, "args")
    BY <1>2 DEF hasSlot
  <2>3. op'[p] = o
    BY <2>2 DEF TypeInv, TypeOK
  <2> HIDE DEF o
  <2> QED
    BY <2>1, <2>2, <2>3, OnlyGoto
<1>3. CASE hasSlot(p, op[p].copy[op[p].name]) /\ UNCHANGED assigned
  <2>1. op[p].copy[op[p].name] = assigned[op[p].name] /\ assigned[op[p].name] \in Slots
    BY <1>1, <1>n DEF TypeInv, TypeOK, Assignments
  <2>2. /\ only(p, "args") /\ op'[p].name = op[p].name
        /\ op'[p].slot = assigned[op[p].name]
    BY <1>3, <2>1, <1>2
  <2>3. RecordInv'
    BY <2>2, <1>1, RecordMove
  <2> QED
    BY <1>1, <1>n, <1>3, <2>2, <2>3
<1>4. ASSUME NEW s \in 1..(last + 1), lowestFree(op[p].copy, s), op[p].copy[op[p].name] = 0,
             assigned' = [op[p].copy EXCEPT ![op[p].name] = s], hasSlot(p, s)
      PROVE /\ RecordInv'
            /\ s \in 1..last
            /\ only(p, "args") /\ op'[p].name = op[p].name
            /\ op'[p].slot = s
            /\ assigned[op[p].name] = 0
            /\ \A n \in Names : assigned[n] # s
            /\ assigned' = [assigned EXCEPT ![op[p].name] = s]
  <2>1. s \in 1..last /\ s \in Slots /\ \A n \in Names : assigned[n] # s
    BY <1>1, <1>4, NetworkAssumption DEF lowestFree, Slots
  <2>2. only(p, "args") /\ op'[p].name = op[p].name /\ op'[p].slot = s
    BY <1>4, <2>1, <1>2
  <2>3. RecordInv'
    BY <2>2, <1>1, RecordMove
  <2> QED
    BY <1>1, <1>4, <2>1, <2>2, <2>3
<1>5. CASE endBoot(p) /\ UNCHANGED assigned
  <2>1. only(p, "idle") /\ op'[p] = NoOp
    BY <1>5, OnlyReturn DEF endBoot
  <2>2. RecordInv'
    BY <2>1, <1>1, RecordMove
  <2> QED
    BY <1>1, <1>n, <1>5, <2>1, <2>2
<1> QED
  BY <1>1, <1>n, <1>3, <1>4, <1>5 DEF Slot

\* One process or one hull run left behind works on a sandbox; a guest that runs
\* or is about to has its address in the record; and a removal that gives an
\* address back has no guest left.
AddressInv ==
    /\ \A p, q \in Procs :
          op[p].name \in Names /\ op[p].name = op[q].name => p = q
    /\ \A o \in orphans : \A p \in Procs : op[p].name # o.name
    /\ \A o, r \in orphans : o.name = r.name => o = r
    /\ \A m, n \in Names : assigned[m] # 0 /\ assigned[m] = assigned[n] => m = n
    /\ \A n \in Names : vm[n] # 0 => vm[n] = assigned[n]
    /\ \A p \in Procs : pc[p] \in {"args", "run"} =>
          assigned[op[p].name] = op[p].slot
    /\ \A o \in orphans : assigned[o.name] = o.slot
    /\ \A p \in Procs : pc[p] \in {"release", "drop"} => vm[op[p].name] = 0

\* The labels at which a process holds the lock of the record, is about to boot
\* on an address it was given, or is about to give one back.
Touching == {"pick", "drop", "args", "run", "release"}

\* Process p moves to where it touches no address, and the record and the hull
\* runs left behind stay as they are.
Quiet(p) ==
    /\ \E l \in Labels \ Touching : only(p, l)
    /\ op'[p] = NoOp \/ op'[p].name = op[p].name
    /\ UNCHANGED <<assigned, orphans>>
    /\ allocLock' = allocLock \/ allocLock = p \/ pc[p] \in {"pick", "drop"}
    /\ \A n \in Names : vm'[n] = vm[n] \/ vm'[n] = 0

LEMMA QuietRecord ==
    ASSUME TypeInv, RecordInv, NEW p \in Procs, Quiet(p)
    PROVE RecordInv'
<1>1. PICK l \in Labels \ Touching : only(p, l)
  BY DEF Quiet
<1> QED
  BY <1>1, RecordMove DEF Quiet, Touching

LEMMA QuietAddress ==
    ASSUME TypeInv, AddressInv, NEW p \in Procs, Quiet(p)
    PROVE AddressInv'
<1>1. PICK l \in Labels \ Touching : only(p, l)
  BY DEF Quiet
<1>2. op'[p].name = op[p].name \/ op'[p].name \notin Names
  BY NetworkAssumption DEF Quiet, NoOp
<1>3. \A q \in Procs : op'[q].name = op[q].name \/ op'[q].name \notin Names
  BY <1>1, <1>2 DEF only
<1>4. \A q \in Procs : pc'[q] \in Touching => pc'[q] = pc[q] /\ op'[q] = op[q] /\ op[q].name \in Names
  BY <1>1, Label DEF only, Touching, TypeInv, NamesOK
<1>5. /\ \A q, r \in Procs :
            op'[q].name \in Names /\ op'[q].name = op'[r].name => q = r
      /\ \A o \in orphans' : \A q \in Procs : op'[q].name # o.name
      /\ \A o, r \in orphans' : o.name = r.name => o = r
  BY <1>3 DEF Quiet, AddressInv, TypeInv, TypeOK
<1>6. /\ \A m, n \in Names : assigned'[m] # 0 /\ assigned'[m] = assigned'[n] => m = n
      /\ \A n \in Names : vm'[n] # 0 => vm'[n] = assigned'[n]
      /\ \A o \in orphans' : assigned'[o.name] = o.slot
  BY DEF Quiet, AddressInv
<1>7. /\ \A q \in Procs : pc'[q] \in {"args", "run"} =>
            assigned'[op'[q].name] = op'[q].slot
      /\ \A q \in Procs : pc'[q] \in {"release", "drop"} => vm'[op'[q].name] = 0
  BY <1>4 DEF Quiet, AddressInv, Touching
<1> QED
  BY <1>5, <1>6, <1>7 DEF AddressInv

\* The steps that only look at the gateway, and those that end an operation.
LEMMA QuietSteps ==
    ASSUME TypeInv, NEW p \in Procs
    PROVE /\ (\/ leaseSharedGateway(p) \/ Look(p) \/ StopOldGateway(p) \/ KillOld(p)
              \/ LookAgain(p) \/ startGateway(p) \/ GatewayReady(p)
              \/ GatewayTimeout(p) \/ Prune(p) \/ KillAny(p)) => Quiet(p)
          /\ RunArgs(p) => Quiet(p) \/ (goto(p, "run") /\ UNCHANGED op)
          /\ hullRemove(p) =>
                \/ Quiet(p)
                \/ /\ goto(p, "release") /\ UNCHANGED op
                   /\ vm'[op[p].name] = 0
                   /\ \A n \in Names : vm'[n] = vm[n] \/ vm'[n] = 0
          /\ Crash(p) =>
                \/ Quiet(p)
                \/ /\ pc[p] = "run" /\ only(p, "idle") /\ op'[p] = NoOp
                   /\ orphans' = orphans \cup {[name |-> op[p].name, slot |-> op[p].slot]}
<1> USE DEF fileVars, gwVars, guestVars
<1>l. {"idle", "lease", "look", "stopOld", "killOld", "again", "spawn", "ready", "alloc",
       "killAny"} \subseteq Labels \ Touching
  BY Label DEF Touching
<1>r. return(p) => only(p, "idle") /\ op'[p] = NoOp
  BY OnlyReturn
<1>1. ASSUME \/ leaseSharedGateway(p) \/ Look(p) \/ StopOldGateway(p) \/ KillOld(p)
             \/ LookAgain(p) \/ startGateway(p) \/ GatewayReady(p)
      PROVE Quiet(p)
  <2>1. /\ \E l \in {"look", "spawn", "alloc", "stopOld", "killOld", "again", "ready"} :
              goto(p, l)
        /\ UNCHANGED <<op, assigned, allocLock, orphans, vm>>
    BY <1>1 DEF leaseSharedGateway, Look, StopOldGateway, KillOld, LookAgain,
                startGateway, GatewayReady
  <2>2. PICK l \in {"look", "spawn", "alloc", "stopOld", "killOld", "again", "ready"} :
              goto(p, l)
    BY <2>1
  <2>3. only(p, l)
    BY <2>1, <2>2, OnlyGoto
  <2> QED
    BY <2>1, <2>3, <1>l DEF Quiet
<1>2. GatewayTimeout(p) \/ KillAny(p) => Quiet(p)
  BY <1>r, <1>l DEF GatewayTimeout, KillAny, endBoot, Quiet
<1>3. Prune(p) => Quiet(p)
  <2>1. goto(p, "killAny") /\ UNCHANGED op => only(p, "killAny")
    BY OnlyGoto
  <2> QED
    BY <2>1, <1>r, <1>l DEF Prune, Quiet
<1>4. RunArgs(p) => Quiet(p) \/ (goto(p, "run") /\ UNCHANGED op)
  BY <1>r, <1>l DEF RunArgs, endBoot, Quiet
<1>5. hullRemove(p) =>
          \/ Quiet(p)
          \/ /\ goto(p, "release") /\ UNCHANGED op
             /\ vm'[op[p].name] = 0
             /\ \A n \in Names : vm'[n] = vm[n] \/ vm'[n] = 0
  <2> SUFFICES ASSUME hullRemove(p)
               PROVE \/ Quiet(p)
                     \/ /\ goto(p, "release") /\ UNCHANGED op
                        /\ vm'[op[p].name] = 0
                        /\ \A n \in Names : vm'[n] = vm[n] \/ vm'[n] = 0
    OBVIOUS
  <2>1. \A n \in Names : vm'[n] = vm[n] \/ vm'[n] = 0
    BY DEF hullRemove, stopped, TypeInv, TypeOK, Assignments
  <2>2. CASE removed(p)
    <3>1. /\ \E l \in {"idle", "lease"} : only(p, l)
          /\ op'[p] = NoOp \/ op'[p].name = op[p].name
      BY <2>2, OnlyRemoved
    <3> QED
      BY <2>1, <3>1, <1>l DEF hullRemove, Quiet
  <2> QED
    BY <2>1, <2>2 DEF hullRemove
<1>6. Crash(p) =>
          \/ Quiet(p)
          \/ /\ pc[p] = "run" /\ only(p, "idle") /\ op'[p] = NoOp
             /\ orphans' = orphans \cup {[name |-> op[p].name, slot |-> op[p].slot]}
  BY <1>r, <1>l DEF Crash, endBoot, Quiet
<1> QED
  BY <1>1, <1>2, <1>3, <1>4, <1>5, <1>6

\* What a removal writes to the record: its sandbox has no address, or nothing.
LEMMA ReleaseStep ==
    ASSUME TypeInv, RecordInv, NEW p \in Procs, release(p)
    PROVE /\ RecordInv'
          /\ pc[p] = "drop" /\ op[p].name \in Names
          /\ UNCHANGED <<vm, orphans>>
          /\ \/ only(p, "idle") /\ op'[p] = NoOp
             \/ only(p, "lease") /\ op'[p].name = op[p].name
          /\ \/ UNCHANGED assigned
             \/ assigned' = [assigned EXCEPT ![op[p].name] = 0]
<1>1. pc[p] = "drop" /\ op[p].copy = assigned /\ UNCHANGED <<vm, orphans>>
  BY DEF release, RecordInv
<1>2. op[p].name \in Names
  BY <1>1, Label DEF TypeInv, NamesOK
<1>3. \/ only(p, "idle") /\ op'[p] = NoOp
      \/ only(p, "lease") /\ op'[p].name = op[p].name
  BY OnlyRemoved DEF release
<1>4. RecordInv'
  BY <1>1, <1>3, RecordMove
<1> QED
  BY <1>1, <1>2, <1>3, <1>4 DEF release

\* The address of a sandbox changes only when a removal gives it back.
Kept ==
    \A n \in Names : assigned[n] # 0 /\ assigned'[n] # assigned[n] =>
        \E p \in Procs : pc[p] = "drop" /\ op[p].name = n

\* A process that holds the lock of the record is the only one to write it, and
\* what it writes back is what it read but for the entry it is about.
LEMMA StepRecord ==
    ASSUME "damage" \notin env, TypeInv, RecordInv, [Next]_vars
    PROVE RecordInv' /\ Kept
<1> USE DEF fileVars, gwVars, guestVars
<1>a. assigned \in [Names -> Slots]
  BY DEF TypeInv, TypeOK, Assignments
<1>k. assigned' = assigned => Kept
  BY DEF Kept
<1>q. ASSUME NEW p \in Procs, Quiet(p) PROVE RecordInv' /\ Kept
  BY <1>q, <1>k, QuietRecord DEF Quiet
<1>m. ASSUME NEW p \in Procs, NEW l, only(p, l), l \notin {"pick", "drop"},
             UNCHANGED assigned, allocLock' = allocLock \/ allocLock = p
      PROVE RecordInv' /\ Kept
  BY <1>m, <1>k, RecordMove
<1>1. ASSUME NEW p \in Procs, NEW l, l \notin {"pick", "drop"}, NEW o, begin(p, l, o)
      PROVE RecordInv' /\ Kept
  <2>1. only(p, l)
    BY <1>1, OnlyGoto DEF begin
  <2> QED
    BY <1>1, <2>1, <1>m DEF begin
<1>2. ASSUME NEW p \in Procs, BootStep(p)
      PROVE RecordInv' /\ Kept
  <2>1. CASE LockAlloc(p)
    BY <2>1, RecordLock, <1>k DEF LockAlloc
  <2>2. CASE Slot(p)
    <3>1. Kept
      BY <2>2, <1>a, SlotStep DEF Kept
    <3> QED
      BY <2>2, <3>1, SlotStep
  <2>3. CASE RunArgs(p)
    <3>1. CASE goto(p, "run") /\ UNCHANGED op
      <4>1. only(p, "run")
        BY <3>1, OnlyGoto
      <4> QED
        BY <2>3, <4>1, <1>m DEF RunArgs
    <3> QED
      BY <2>3, <3>1, <1>q, QuietSteps
  <2>4. CASE HullRun(p)
    <3>1. only(p, "idle")
      BY <2>4, OnlyReturn DEF HullRun, endBoot
    <3> QED
      BY <2>4, <3>1, <1>m DEF HullRun
  <2> QED
    BY <1>2, <2>1, <2>2, <2>3, <2>4, <1>q, QuietSteps DEF BootStep
<1>3. ASSUME NEW p \in Procs, OtherStep(p)
      PROVE RecordInv' /\ Kept
  <2>1. CASE hullRemove(p)
    <3>1. CASE goto(p, "release") /\ UNCHANGED op
      <4>1. only(p, "release")
        BY <3>1, OnlyGoto
      <4> QED
        BY <2>1, <4>1, <1>m DEF hullRemove
    <3> QED
      BY <2>1, <3>1, <1>q, QuietSteps
  <2>2. CASE LockRelease(p)
    BY <2>2, RecordLock, <1>k DEF LockRelease
  <2>3. CASE release(p)
    <3>1. Kept
      BY <2>3, <1>a, ReleaseStep DEF Kept
    <3> QED
      BY <2>3, <3>1, ReleaseStep
  <2>4. CASE Crash(p)
    <3>1. only(p, "idle")
      BY <2>4, OnlyReturn DEF Crash, endBoot
    <3> QED
      BY <2>4, <3>1, <1>m DEF Crash
  <2>5. CASE GatewayListens(p)
    BY <2>5, <1>k DEF GatewayListens, RecordInv
  <2> QED
    BY <1>3, <2>1, <2>2, <2>3, <2>4, <2>5, <1>q, QuietSteps DEF OtherStep
<1>4. ASSUME NEW n \in Names, GuestEnds(n)
      PROVE RecordInv' /\ Kept
  BY <1>4, <1>k DEF GuestEnds, RecordInv
<1>5. ASSUME NEW o \in orphans, OrphanRun(o)
      PROVE RecordInv' /\ Kept
  BY <1>5, <1>k DEF OrphanRun, RecordInv
<1>6. CASE UNCHANGED vars
  BY <1>6, <1>k DEF vars, RecordInv
<1> QED
  BY <1>1, <1>2, <1>3, <1>4, <1>5, <1>6
     DEF Next, EnsureRunning, Remove, PruneSharedNetwork, Corrupt

LEMMA InitRecord == Init => RecordInv
BY DEF Init, RecordInv

\* With a record that is not damaged, no process's write to it loses the address
\* of another sandbox, though every write replaces the whole record: it changes
\* only when a removal of the sandbox gives it back.
THEOREM Keeps == Spec => KeepsAddress
<1> DEFINE Inv == "damage" \notin env => RecordInv
           Step == "damage" \notin env => Kept
<1>1. Init => Inv
  BY InitRecord
<1>2. ASSUME TypeInv, Inv, [Next]_vars PROVE Inv' /\ Step
  <2>1. env' = env
    BY <1>2, EnvStays
  <2> QED
    BY <1>2, <2>1, StepRecord
<1>3. Step => \A n \in Names :
          "damage" \notin env /\ assigned[n] # 0 /\ assigned'[n] # assigned[n] =>
              \E p \in Procs : pc[p] = "drop" /\ op[p].name = n
  BY DEF Kept
<1> HIDE DEF Inv, Step
<1>4. TypeInv /\ Inv /\ [Next]_vars => Inv' /\ [Step]_vars
  BY <1>2
<1> QED
  BY <1>1, <1>3, <1>4, InitType, StepType, PTL DEF Spec, KeepsAddress

-----------------------------------------------------------------------------
\* An operation on a sandbox begins when no other is under way.
LEMMA BeginAddress ==
    ASSUME "same" \notin env, TypeInv, AddressInv, NEW p \in Procs, NEW n \in Names,
           EnsureRunning(p, n) \/ Remove(p, n)
    PROVE AddressInv'
<1>1. /\ only(p, "rm") /\ op'[p].name = n
      /\ UNCHANGED <<assigned, orphans, vm>>
  <2>1. PICK o \in {[NoOp EXCEPT !.name = n, !.boot = TRUE], [NoOp EXCEPT !.name = n]} :
           begin(p, "rm", o)
    BY DEF EnsureRunning, Remove
  <2>2. o.name = n
    BY DEF NoOp
  <2>3. only(p, "rm") /\ op'[p] = o
    BY <2>1, OnlyGoto DEF begin, TypeInv, TypeOK
  <2> QED
    BY <2>1, <2>2, <2>3 DEF begin, fileVars, guestVars
<1>2. /\ \A q \in Procs : op[q].name # n
      /\ \A o \in orphans : o.name # n
  BY DEF EnsureRunning, Remove, busy
<1>3. /\ \A q, r \in Procs :
            op'[q].name \in Names /\ op'[q].name = op'[r].name => q = r
      /\ \A o \in orphans' : \A q \in Procs : op'[q].name # o.name
  BY <1>1, <1>2 DEF only, AddressInv
<1> QED
  BY <1>1, <1>3 DEF only, AddressInv

\* A step that keeps the locals and goes to boot or to give the address back.
LEMMA MoveAddress ==
    ASSUME TypeInv, AddressInv, NEW p \in Procs, NEW l,
           only(p, l), op'[p].name = op[p].name,
           UNCHANGED <<assigned, orphans>>,
           \A n \in Names : vm'[n] = vm[n] \/ vm'[n] = 0,
           l \in {"args", "run"} => assigned[op[p].name] = op'[p].slot,
           l \in {"release", "drop"} => vm'[op[p].name] = 0
    PROVE AddressInv'
<1>1. \A q \in Procs : op'[q].name = op[q].name
  BY DEF only
<1>2. \A q \in Procs \ {p} : pc'[q] = pc[q] /\ op'[q] = op[q]
  BY DEF only
<1>3. \A q \in Procs : pc[q] \in {"release", "drop"} => op[q].name \in Names
  BY Label DEF TypeInv, NamesOK
<1>4. \A q \in Procs : pc'[q] \in {"args", "run"} => assigned'[op'[q].name] = op'[q].slot
  BY <1>1, <1>2 DEF only, AddressInv
<1>5. \A q \in Procs : pc'[q] \in {"release", "drop"} => vm'[op'[q].name] = 0
  BY <1>1, <1>2, <1>3 DEF only, AddressInv
<1> QED
  BY <1>1, <1>4, <1>5 DEF AddressInv

\* A new address is one the record does not hold.
LEMMA SlotAddress ==
    ASSUME TypeInv, RecordInv, AddressInv, NEW p \in Procs, Slot(p)
    PROVE AddressInv'
<1>t. /\ assigned \in [Names -> Slots] /\ vm \in [Names -> Slots]
      /\ orphans \subseteq [name : Names, slot : Slots]
  BY DEF TypeInv, TypeOK, Assignments
<1>n. \A q \in Procs : pc[q] \in {"args", "run"} => op[q].name \in Names
  BY Label DEF TypeInv, NamesOK
<1>1. CASE only(p, "idle") /\ op'[p] = NoOp /\ UNCHANGED assigned
  <2>1. pc[p] = "pick" /\ UNCHANGED <<orphans, vm>>
    BY DEF Slot, guestVars
  <2>2. Quiet(p)
    BY <1>1, <2>1, Label DEF Quiet, Touching
  <2> QED
    BY <2>2, QuietAddress
<1>2. CASE /\ only(p, "args") /\ op'[p].name = op[p].name
           /\ op'[p].slot = assigned[op[p].name]
           /\ UNCHANGED assigned
  BY <1>2, SlotStep, MoveAddress
<1>3. ASSUME NEW s \in 1..last,
             only(p, "args"), op'[p].name = op[p].name, op'[p].slot = s,
             assigned[op[p].name] = 0, \A n \in Names : assigned[n] # s,
             assigned' = [assigned EXCEPT ![op[p].name] = s]
      PROVE AddressInv'
  <2>1. /\ op[p].name \in Names /\ UNCHANGED <<vm, orphans>>
        /\ assigned'[op[p].name] = s
        /\ \A n \in Names : n # op[p].name => assigned'[n] = assigned[n]
    BY <1>3, <1>t, SlotStep
  <2>2. \A q \in Procs : op'[q].name = op[q].name
    BY <1>3 DEF only
  <2>3. \A q \in Procs \ {p} : pc'[q] = pc[q] /\ op'[q] = op[q]
    BY <1>3 DEF only
  <2>4. /\ \A q \in Procs \ {p} : op[q].name # op[p].name
        /\ \A o \in orphans : o.name # op[p].name
    BY <2>1 DEF AddressInv
  <2>5. \A m, n \in Names : assigned'[m] # 0 /\ assigned'[m] = assigned'[n] => m = n
    BY <1>3, <2>1 DEF AddressInv
  <2>6. \A n \in Names : vm'[n] # 0 => vm'[n] = assigned'[n]
    BY <1>3, <2>1 DEF AddressInv
  <2>7. \A q \in Procs : pc'[q] \in {"args", "run"} => assigned'[op'[q].name] = op'[q].slot
    BY <1>3, <1>n, <2>1, <2>2, <2>3, <2>4 DEF AddressInv
  <2>8. \A o \in orphans' : assigned'[o.name] = o.slot
    BY <1>t, <2>1, <2>4 DEF AddressInv
  <2>9. \A q \in Procs : pc'[q] \in {"release", "drop"} => vm'[op'[q].name] = 0
    BY <1>3, <2>1, <2>2, <2>3 DEF AddressInv, only
  <2> QED
    BY <2>1, <2>2, <2>5, <2>6, <2>7, <2>8, <2>9 DEF AddressInv
<1> QED
  BY <1>1, <1>2, <1>3, SlotStep

\* An address that is given back is nobody's.
LEMMA ReleaseAddress ==
    ASSUME TypeInv, RecordInv, AddressInv, NEW p \in Procs, release(p)
    PROVE AddressInv'
<1>t. /\ assigned \in [Names -> Slots] /\ vm \in [Names -> Slots]
      /\ orphans \subseteq [name : Names, slot : Slots]
  BY DEF TypeInv, TypeOK, Assignments
<1>n. \A q \in Procs : pc[q] \in {"args", "run"} => op[q].name \in Names
  BY Label DEF TypeInv, NamesOK
<1>1. /\ op[p].name \in Names /\ pc[p] = "drop" /\ UNCHANGED <<vm, orphans>>
      /\ \/ only(p, "idle") /\ op'[p] = NoOp
         \/ only(p, "lease") /\ op'[p].name = op[p].name
  BY ReleaseStep
<1>2. CASE UNCHANGED assigned
  <2>1. Quiet(p)
    BY <1>1, <1>2, Label DEF Quiet, Touching
  <2> QED
    BY <2>1, QuietAddress
<1>3. CASE assigned' = [assigned EXCEPT ![op[p].name] = 0]
  <2>1. /\ assigned'[op[p].name] = 0
        /\ \A n \in Names : n # op[p].name => assigned'[n] = assigned[n]
    BY <1>1, <1>3, <1>t
  <2>2. \A q \in Procs : op'[q].name = op[q].name \/ op'[q].name \notin Names
    BY <1>1, NetworkAssumption DEF only, NoOp
  <2>3. \A q \in Procs \ {p} : pc'[q] = pc[q] /\ op'[q] = op[q]
    BY <1>1 DEF only
  <2>4. /\ \A q \in Procs \ {p} : op[q].name # op[p].name
        /\ \A o \in orphans : o.name # op[p].name
        /\ vm[op[p].name] = 0
    BY <1>1 DEF AddressInv
  <2>5. pc'[p] \in {"idle", "lease"}
    BY <1>1 DEF only
  <2>6. /\ \A q, r \in Procs :
              op'[q].name \in Names /\ op'[q].name = op'[r].name => q = r
        /\ \A o \in orphans' : \A q \in Procs : op'[q].name # o.name
    BY <1>1, <1>t, <2>2 DEF AddressInv
  <2>7. /\ \A m, n \in Names : assigned'[m] # 0 /\ assigned'[m] = assigned'[n] => m = n
        /\ \A n \in Names : vm'[n] # 0 => vm'[n] = assigned'[n]
    BY <1>1, <2>1, <2>4 DEF AddressInv
  <2>8. \A q \in Procs : pc'[q] \in {"args", "run"} => assigned'[op'[q].name] = op'[q].slot
    BY <1>n, <2>1, <2>3, <2>4, <2>5 DEF AddressInv
  <2>9. \A o \in orphans' : assigned'[o.name] = o.slot
    BY <1>t, <1>1, <2>1, <2>4 DEF AddressInv
  <2>10. \A q \in Procs : pc'[q] \in {"release", "drop"} => vm'[op'[q].name] = 0
    BY <1>1, <2>3, <2>5 DEF AddressInv
  <2> QED
    BY <1>1, <2>6, <2>7, <2>8, <2>9, <2>10 DEF AddressInv
<1> QED
  BY <1>2, <1>3, ReleaseStep

\* A guest comes up on the address the record has for its sandbox.
LEMMA GuestAddress ==
    ASSUME TypeInv, AddressInv, NEW n \in Names, NEW s \in Slots, hullRun(n, s),
           assigned[n] = s, UNCHANGED assigned
    PROVE /\ \A m \in Names : m # n => vm'[m] = vm[m]
          /\ \A m \in Names : vm'[m] # 0 => vm'[m] = assigned'[m]
BY DEF hullRun, AddressInv, TypeInv, TypeOK, Assignments

\* The boot that brings its guest up is over, and so is a hull run left behind.
LEMMA RunAddress ==
    ASSUME TypeInv, AddressInv, NEW p \in Procs, HullRun(p)
    PROVE AddressInv'
<1>1. pc[p] = "run" /\ UNCHANGED <<assigned, orphans>>
  BY DEF HullRun, fileVars
<1>2. only(p, "idle") /\ op'[p] = NoOp
  BY OnlyReturn DEF HullRun, endBoot
<1>3. op[p].name \in Names /\ op[p].slot \in Slots
  BY <1>1, Label DEF TypeInv, TypeOK, NamesOK, Ops
<1>4. /\ \A m \in Names : m # op[p].name => vm'[m] = vm[m]
      /\ \A m \in Names : vm'[m] # 0 => vm'[m] = assigned'[m]
  BY <1>1, <1>3, GuestAddress DEF HullRun, AddressInv
<1>5. op'[p].name \notin Names
  BY <1>2, NetworkAssumption DEF NoOp
<1>6. \A q \in Procs \ {p} : pc'[q] = pc[q] /\ op'[q] = op[q] /\ op[q].name # op[p].name
  BY <1>2, <1>3 DEF only, AddressInv
<1>7. \A o \in orphans : o.name \in Names
  BY DEF TypeInv, TypeOK
<1>8. \A q \in Procs : pc[q] \in {"release", "drop"} => op[q].name \in Names
  BY Label DEF TypeInv, NamesOK
<1>9. pc'[p] = "idle"
  BY <1>2 DEF only
<1>10. /\ \A q, r \in Procs :
             op'[q].name \in Names /\ op'[q].name = op'[r].name => q = r
       /\ \A o \in orphans' : \A q \in Procs : op'[q].name # o.name
  BY <1>1, <1>5, <1>6, <1>7 DEF AddressInv
<1>11. /\ \A q \in Procs : pc'[q] \in {"args", "run"} =>
             assigned'[op'[q].name] = op'[q].slot
       /\ \A q \in Procs : pc'[q] \in {"release", "drop"} => vm'[op'[q].name] = 0
  BY <1>1, <1>4, <1>6, <1>8, <1>9 DEF AddressInv
<1> QED
  BY <1>1, <1>4, <1>10, <1>11 DEF AddressInv

LEMMA OrphanAddress ==
    ASSUME TypeInv, AddressInv, NEW o \in orphans, OrphanRun(o)
    PROVE AddressInv'
<1>1. /\ orphans' = orphans \ {o}
      /\ UNCHANGED <<assigned, pc, op>>
  BY DEF OrphanRun, fileVars
<1>2. o.name \in Names /\ o.slot \in Slots
  BY DEF TypeInv, TypeOK
<1>3. /\ \A m \in Names : m # o.name => vm'[m] = vm[m]
      /\ \A m \in Names : vm'[m] # 0 => vm'[m] = assigned'[m]
  BY <1>1, <1>2, GuestAddress DEF OrphanRun, AddressInv
<1>4. \A q \in Procs : pc[q] \in {"release", "drop"} => op[q].name \in Names
  BY Label DEF TypeInv, NamesOK
<1>5. \A q \in Procs : pc'[q] \in {"release", "drop"} => vm'[op'[q].name] = 0
  BY <1>1, <1>3, <1>4 DEF AddressInv
<1> QED
  BY <1>1, <1>3, <1>5 DEF AddressInv

\* A killed brig leaves the sandbox to the hull run it started.
LEMMA CrashAddress ==
    ASSUME TypeInv, AddressInv, NEW p \in Procs, Crash(p)
    PROVE AddressInv'
<1>1. CASE Quiet(p)
  BY <1>1, QuietAddress
<1>2. CASE /\ pc[p] = "run" /\ only(p, "idle") /\ op'[p] = NoOp
           /\ orphans' = orphans \cup {[name |-> op[p].name, slot |-> op[p].slot]}
  <2> DEFINE new == [name |-> op[p].name, slot |-> op[p].slot]
  <2>1. UNCHANGED <<assigned, vm>>
    BY DEF Crash
  <2>2. op[p].name \in Names
    BY <1>2, Label DEF TypeInv, NamesOK
  <2>3. op'[p].name \notin Names /\ pc'[p] = "idle"
    BY <1>2, NetworkAssumption DEF NoOp, only
  <2>4. \A q \in Procs \ {p} : pc'[q] = pc[q] /\ op'[q] = op[q] /\ op[q].name # op[p].name
    BY <1>2, <2>2 DEF only, AddressInv
  <2>5. /\ orphans' = orphans \cup {new}
        /\ new.name = op[p].name /\ new.slot = op[p].slot
        /\ assigned[op[p].name] = op[p].slot
        /\ \A o \in orphans : o.name \in Names /\ o.name # op[p].name
    BY <1>2 DEF AddressInv, TypeInv, TypeOK
  <2> HIDE DEF new
  <2>6. /\ \A q, r \in Procs :
             op'[q].name \in Names /\ op'[q].name = op'[r].name => q = r
        /\ \A o \in orphans' : \A q \in Procs : op'[q].name # o.name
        /\ \A o, r \in orphans' : o.name = r.name => o = r
    BY <2>2, <2>3, <2>4, <2>5 DEF AddressInv
  <2>7. \A o \in orphans' : assigned'[o.name] = o.slot
    BY <2>1, <2>5 DEF AddressInv
  <2>8. /\ \A q \in Procs : pc'[q] \in {"args", "run"} =>
             assigned'[op'[q].name] = op'[q].slot
        /\ \A q \in Procs : pc'[q] \in {"release", "drop"} => vm'[op'[q].name] = 0
    BY <2>1, <2>3, <2>4 DEF AddressInv
  <2> QED
    BY <2>1, <2>6, <2>7, <2>8 DEF AddressInv
<1> QED
  BY <1>1, <1>2, QuietSteps

\* Every step keeps each address one sandbox's.
LEMMA StepAddress ==
    ASSUME env = {}, TypeInv, RecordInv, AddressInv, [Next]_vars
    PROVE AddressInv'
<1> USE DEF fileVars, gwVars, guestVars
<1>1. ASSUME NEW p \in Procs, PruneSharedNetwork(p)
      PROVE AddressInv'
  <2>1. only(p, "prune") /\ op'[p] = NoOp
    BY <1>1, OnlyGoto DEF PruneSharedNetwork, begin, TypeInv, TypeOK
  <2>2. Quiet(p)
    BY <1>1, <2>1, Label DEF PruneSharedNetwork, begin, Quiet, Touching
  <2> QED
    BY <2>2, QuietAddress
<1>2. ASSUME NEW p \in Procs, BootStep(p)
      PROVE AddressInv'
  <2>1. CASE LockAlloc(p)
    BY <2>1, RecordLock, MoveAddress DEF LockAlloc
  <2>2. CASE RunArgs(p)
    <3>1. CASE goto(p, "run") /\ UNCHANGED op
      <4>1. only(p, "run") /\ pc[p] = "args" /\ UNCHANGED <<assigned, orphans, vm>>
        BY <2>2, <3>1, OnlyGoto DEF RunArgs
      <4>2. assigned[op[p].name] = op'[p].slot
        BY <3>1, <4>1 DEF AddressInv
      <4> QED
        BY <3>1, <4>1, <4>2, MoveAddress
    <3> QED
      BY <2>2, <3>1, QuietSteps, QuietAddress
  <2> QED
    BY <1>2, <2>1, <2>2, SlotAddress, RunAddress, QuietSteps, QuietAddress DEF BootStep
<1>3. ASSUME NEW p \in Procs, OtherStep(p)
      PROVE AddressInv'
  <2>1. CASE hullRemove(p)
    <3>1. CASE /\ goto(p, "release") /\ UNCHANGED op
               /\ vm'[op[p].name] = 0
               /\ \A n \in Names : vm'[n] = vm[n] \/ vm'[n] = 0
      <4>1. only(p, "release") /\ UNCHANGED <<assigned, orphans>>
        BY <2>1, <3>1, OnlyGoto DEF hullRemove
      <4> QED
        BY <3>1, <4>1, MoveAddress
    <3> QED
      BY <2>1, <3>1, QuietSteps, QuietAddress
  <2>2. CASE LockRelease(p)
    <3>1. /\ only(p, "drop") /\ pc[p] = "release" /\ op'[p].name = op[p].name
          /\ UNCHANGED <<assigned, vm, orphans>>
      BY <2>2, RecordLock DEF LockRelease
    <3>2. vm'[op[p].name] = 0
      BY <3>1 DEF AddressInv
    <3> QED
      BY <3>1, <3>2, MoveAddress
  <2>3. CASE GatewayListens(p)
    BY <2>3 DEF GatewayListens, AddressInv
  <2> QED
    BY <1>3, <2>1, <2>2, <2>3, ReleaseAddress, CrashAddress, QuietSteps, QuietAddress
       DEF OtherStep
<1>4. ASSUME NEW n \in Names, GuestEnds(n)
      PROVE AddressInv'
  <2>1. \A m \in Names : vm'[m] = vm[m] \/ vm'[m] = 0
    BY <1>4 DEF GuestEnds, TypeInv, TypeOK, Assignments
  <2>2. \A q \in Procs : pc[q] \in {"release", "drop"} => op[q].name \in Names
    BY Label DEF TypeInv, NamesOK
  <2>3. /\ UNCHANGED <<assigned, orphans, pc, op>>
        /\ \A q \in Procs : pc'[q] \in {"release", "drop"} => vm'[op'[q].name] = 0
    BY <1>4, <2>1, <2>2 DEF GuestEnds, AddressInv
  <2> QED
    BY <2>1, <2>3 DEF AddressInv
<1>5. CASE UNCHANGED vars
  BY <1>5 DEF vars, AddressInv
<1> QED
  BY <1>1, <1>2, <1>3, <1>4, <1>5, BeginAddress, OrphanAddress DEF Next, Corrupt

LEMMA InitAddress == Init => AddressInv
<1> SUFFICES ASSUME Init PROVE AddressInv
  OBVIOUS
<1>1. \A p \in Procs : op[p].name \notin Names /\ pc[p] = "idle"
  BY NetworkAssumption DEF Init, NoOp
<1>2. \A n \in Names : assigned[n] = 0 /\ vm[n] = 0
  BY DEF Init, NoAssignment
<1> QED
  BY <1>1, <1>2 DEF Init, AddressInv

\* No two guests run on one address, however many brig processes boot, remove,
\* fail and are killed, provided the record is not damaged and no two processes
\* work on one sandbox at once.
THEOREM Addresses == Spec => []UniqueAddress
<1> DEFINE Inv == env = {} => RecordInv /\ AddressInv
<1>1. Init => Inv
  BY InitRecord, InitAddress
<1>2. Inv => UniqueAddress
  BY DEF AddressInv, UniqueAddress, NoDuplicate
<1>3. ASSUME TypeInv, Inv, [Next]_vars PROVE Inv'
  <2>1. env' = env
    BY <1>3, EnvStays
  <2> QED
    BY <1>3, <2>1, StepRecord, StepAddress
<1> HIDE DEF Inv
<1>4. TypeInv /\ Inv /\ [Next]_vars => Inv'
  BY <1>3
<1> QED
  BY <1>1, <1>2, <1>4, InitType, StepType, PTL DEF Spec
=============================================================================
