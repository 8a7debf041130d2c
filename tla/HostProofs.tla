----------------------------- MODULE HostProofs -----------------------------
(***************************************************************************)
(* What TLAPS proves of the host side of a sandbox.  Of Brigd, for any     *)
(* daemons, connections and sandboxes: that the socket path names the      *)
(* daemon that serves and that brigd implements SandboxService.  Of        *)
(* SandboxRun, the commands that it runs, for any projects and ports: that *)
(* a sandbox keeps its home and that a sandbox which is reused is the one  *)
(* asked for.  Of its egress filter: the table around boots and stops      *)
(* (EgressBoot) and the policies that a run puts it under (PolicyStore),   *)
(* each for any number of brig processes, and the table under the queries  *)
(* of the guest (EgressTable), for any addresses and lifetimes.            *)
(*                                                                         *)
(* And of what passes through the host: the answers of the resolver        *)
(* (DnsAnswer), for any list of records, the requests that a route lets    *)
(* through (RouteRules), for any path, the bodies that are scanned and     *)
(* redacted (BodyScan), in any pieces, and the environment of a sandbox    *)
(* with routes (RouteEnv), for any routes over any variables.  These rest  *)
(* on inductions over data: by the least element of a set of numbers       *)
(* (LeastNat, Upward), along functions that are built step by step         *)
(* (StepsExist).                                                           *)
(***************************************************************************)
EXTENDS Brigd, SandboxRun, EgressBoot, PolicyStore, EgressTable, DnsAnswer, RouteRules, BodyScan, RouteEnv,
        Integers, FiniteSetTheorems, SequenceTheorems, WellFoundedInduction, TLAPS

(* Brigd: what a daemon and its connections are. *)

BrigdSpec == BrigdInit /\ [][BrigdNext]_brigdVars

Locking == {"locked", "bind", "serving", "closed"}
DaemonSet == [pc : Locking \cup {"off", "released"}, inv : SUBSET VMs,
              mu : Conns \cup {"nobody"}, vm : [VMs -> Conns \cup {"nobody"}]]
Owning == {"ensure", "boot", "remember", "stop", "halt", "forget", "unlock"}
ConnSet == [pc : Owning \cup {"none", "read", "status", "lockfor", "listing", "reply"},
            d : Daemons \cup {"none"}, op : {"none", "ensure", "stop", "status"},
            v : VMs \cup {"none"}, ok : BOOLEAN]

\* A connection owns its sandbox; a connection is of a daemon that is there and its
\* request is one that its place in the code is reached with.
OwnsIt(k) == k.pc \in Owning \/ (k.pc = "listing" /\ k.op # "status")
ConnFits(k) ==
    /\ k.pc # "none" => k.d \in Daemons
    /\ k.pc \in Owning \cup {"lockfor"} => k.v \in VMs /\ k.op \in {"ensure", "stop"}
    /\ OwnsIt(k) => k.v \in VMs
    /\ k.pc = "status" => k.op = "status"

Types ==
    /\ dm \in [Daemons -> DaemonSet]
    /\ cn \in [Conns -> ConnSet]
    /\ flock \in Daemons \cup {"nobody"}
    /\ \A c \in Conns : ConnFits(cn[c])

\* The flock is held from lockSocket until serve returns.
LockHeld == \A d \in Daemons : dm[d].pc \in Locking <=> flock = d

\* A daemon that is not there knows nothing and has no connection.
OffIsEmpty ==
    /\ \A d \in Daemons : dm[d].pc = "off" => dm[d].inv = {}
    /\ \A c \in Conns : cn[c].pc # "none" => dm[cn[c].d].pc # "off"

\* The mutex of a sandbox names the request that owns it.
MutexHeld == \A c \in Conns : OwnsIt(cn[c]) => dm[cn[c].d].vm[cn[c].v] = c

BrigdInv == Types /\ LockHeld /\ SocketNamesServer /\ OffIsEmpty /\ MutexHeld

LEMMA InitInv == BrigdInit => BrigdInv
<1> SUFFICES ASSUME BrigdInit PROVE BrigdInv
  OBVIOUS
<1>1. NoDaemon \in DaemonSet /\ NoDaemon.pc = "off" /\ NoDaemon.inv = {}
  BY DEF NoDaemon, DaemonSet, Locking
<1>2. NoConn \in ConnSet /\ NoConn.pc = "none" /\ ConnFits(NoConn) /\ ~OwnsIt(NoConn)
  BY DEF NoConn, ConnSet, ConnFits, OwnsIt, Owning
<1> QED
  BY <1>1, <1>2, BrigdAssumption
  DEF BrigdInit, BrigdInv, Types, LockHeld, SocketNamesServer, OffIsEmpty, MutexHeld, Locking

\* A step of one connection that leaves the daemons alone.
LEMMA ConnStep ==
    ASSUME BrigdInv, NEW c \in Conns, NEW k \in ConnSet, ConnFits(k),
           cn' = [cn EXCEPT ![c] = k], UNCHANGED <<dm, flock, sock>>,
           k.pc # "none" => dm[k.d].pc # "off",
           OwnsIt(k) => dm[k.d].vm[k.v] = c
    PROVE BrigdInv'
<1>1. \A b \in Conns : cn'[b] = IF b = c THEN k ELSE cn[b]
  BY DEF BrigdInv, Types
<1>2. Types'
  BY <1>1 DEF BrigdInv, Types
<1> QED
  BY <1>1, <1>2 DEF BrigdInv, LockHeld, SocketNamesServer, OffIsEmpty, MutexHeld

\* A step of one connection that also changes what its daemon holds.
LEMMA BothStep ==
    ASSUME BrigdInv, NEW c \in Conns, NEW k \in ConnSet, ConnFits(k), cn[c].pc # "none",
           NEW m \in DaemonSet, m.pc = dm[cn[c].d].pc, k.d = cn[c].d,
           cn' = [cn EXCEPT ![c] = k], dm' = [dm EXCEPT ![cn[c].d] = m],
           UNCHANGED <<flock, sock>>,
           \A b \in Conns \ {c} : OwnsIt(cn[b]) /\ cn[b].d = cn[c].d => m.vm[cn[b].v] = b,
           OwnsIt(k) => m.vm[k.v] = c
    PROVE BrigdInv'
<1>1. \A b \in Conns : cn'[b] = IF b = c THEN k ELSE cn[b]
  BY DEF BrigdInv, Types
<1>2. cn[c].d \in Daemons
  BY DEF BrigdInv, Types, ConnFits
<1>3. \A d \in Daemons : dm'[d] = IF d = cn[c].d THEN m ELSE dm[d]
  BY <1>2 DEF BrigdInv, Types
<1>4. Types'
  BY <1>1, <1>2, <1>3 DEF BrigdInv, Types
<1>5. \A d \in Daemons : dm'[d].pc = dm[d].pc
  BY <1>3
<1>6. dm[cn[c].d].pc # "off"
  BY DEF BrigdInv, OffIsEmpty
<1>7. LockHeld' /\ SocketNamesServer'
  BY <1>5 DEF BrigdInv, LockHeld, SocketNamesServer
<1>8. OffIsEmpty'
  <2>1. \A b \in Conns : cn[b].pc # "none" => cn[b].d \in Daemons
    BY DEF BrigdInv, Types, ConnFits
  <2> QED
    BY <1>1, <1>2, <1>3, <1>5, <1>6, <2>1 DEF BrigdInv, OffIsEmpty
<1>9. MutexHeld'
  <2>1. \A b \in Conns : OwnsIt(cn[b]) => cn[b].d \in Daemons
    BY DEF BrigdInv, Types, ConnFits, OwnsIt, Owning
  <2> QED
    BY <1>1, <1>2, <1>3, <2>1 DEF BrigdInv, MutexHeld
<1> QED
  BY <1>4, <1>7, <1>8, <1>9 DEF BrigdInv

\* A step of one daemon between two places of serve.
LEMMA PhaseStep ==
    ASSUME BrigdInv, NEW d \in Daemons, NEW l \in Locking \cup {"released"},
           dm' = [dm EXCEPT ![d].pc = l], UNCHANGED cn
    PROVE /\ Types /\ flock' \in Daemons \cup {"nobody"} => Types'
          /\ OffIsEmpty' /\ MutexHeld'
          /\ \A b \in Daemons : dm'[b].pc = IF b = d THEN l ELSE dm[b].pc
<1>1. \A b \in Daemons :
        /\ dm'[b] \in DaemonSet /\ dm'[b].inv = dm[b].inv /\ dm'[b].vm = dm[b].vm
        /\ dm'[b].pc = IF b = d THEN l ELSE dm[b].pc
  BY DEF BrigdInv, Types, DaemonSet
<1>2. dm' \in [Daemons -> DaemonSet]
  BY <1>1 DEF BrigdInv, Types
<1>3. \A c \in Conns : cn[c].pc # "none" => cn[c].d \in Daemons
  BY DEF BrigdInv, Types, ConnFits
<1>4. OffIsEmpty'
  BY <1>1, <1>3 DEF BrigdInv, OffIsEmpty, Locking
<1>5. MutexHeld'
  <2>1. \A c \in Conns : OwnsIt(cn[c]) => cn[c].d \in Daemons
    BY <1>3 DEF OwnsIt, Owning
  <2> QED
    BY <1>1, <2>1 DEF BrigdInv, MutexHeld
<1> QED
  BY <1>1, <1>2, <1>4, <1>5 DEF Types

LEMMA LockSocketInv == ASSUME BrigdInv, NEW d \in Daemons, LockSocket(d) PROVE BrigdInv'
<1> USE DEF LockSocket, DaemonOnly
<1>0. "locked" \in Locking \cup {"released"}
  BY DEF Locking
<1>1. \A b \in Daemons : dm'[b].pc = IF b = d THEN "locked" ELSE dm[b].pc
  BY <1>0, PhaseStep
<1>2. Types' /\ OffIsEmpty' /\ MutexHeld'
  BY <1>0, PhaseStep DEF BrigdInv
<1>3. LockHeld' /\ SocketNamesServer'
  BY <1>1, BrigdAssumption DEF BrigdInv, LockHeld, SocketNamesServer, Locking
<1> QED
  BY <1>2, <1>3 DEF BrigdInv

LEMMA RemoveStaleInv == ASSUME BrigdInv, NEW d \in Daemons, RemoveStale(d) PROVE BrigdInv'
<1> USE DEF RemoveStale, DaemonOnly
<1>0. "bind" \in Locking \cup {"released"}
  BY DEF Locking
<1>1. \A b \in Daemons : dm'[b].pc = IF b = d THEN "bind" ELSE dm[b].pc
  BY <1>0, PhaseStep
<1>2. Types' /\ OffIsEmpty' /\ MutexHeld'
  BY <1>0, PhaseStep DEF BrigdInv, Types
<1>3. LockHeld' /\ SocketNamesServer'
  BY <1>1 DEF BrigdInv, LockHeld, SocketNamesServer, Locking
<1> QED
  BY <1>2, <1>3 DEF BrigdInv

LEMMA ListenInv == ASSUME BrigdInv, NEW d \in Daemons, Listen(d) PROVE BrigdInv'
<1>1. PICK l \in {"serving", "closed"} :
        /\ dm' = [dm EXCEPT ![d].pc = l]
        /\ IF l = "serving" THEN sock' = d ELSE sock' = sock
  BY DEF Listen
<1>0. l \in Locking \cup {"released"}
  BY <1>1 DEF Locking
<1> USE DEF Listen, DaemonOnly
<1>2. \A b \in Daemons : dm'[b].pc = IF b = d THEN l ELSE dm[b].pc
  BY <1>0, <1>1, PhaseStep
<1>3. Types' /\ OffIsEmpty' /\ MutexHeld'
  BY <1>0, <1>1, PhaseStep DEF BrigdInv, Types
<1>4. LockHeld' /\ SocketNamesServer'
  BY <1>1, <1>2 DEF BrigdInv, LockHeld, SocketNamesServer, Locking
<1> QED
  BY <1>3, <1>4 DEF BrigdInv

LEMMA CloseInv == ASSUME BrigdInv, NEW d \in Daemons, CloseListener(d) PROVE BrigdInv'
<1> USE DEF CloseListener, DaemonOnly
<1>0. "closed" \in Locking \cup {"released"}
  BY DEF Locking
<1>1. \A b \in Daemons : dm'[b].pc = IF b = d THEN "closed" ELSE dm[b].pc
  BY <1>0, PhaseStep
<1>2. Types' /\ OffIsEmpty' /\ MutexHeld'
  BY <1>0, PhaseStep DEF BrigdInv, Types
<1>3. LockHeld' /\ SocketNamesServer'
  BY <1>1 DEF BrigdInv, LockHeld, SocketNamesServer, Locking
<1> QED
  BY <1>2, <1>3 DEF BrigdInv

LEMMA ReleaseInv == ASSUME BrigdInv, NEW d \in Daemons, Release(d) PROVE BrigdInv'
<1> USE DEF Release, DaemonOnly
<1>0. "released" \in Locking \cup {"released"}
  OBVIOUS
<1>1. \A b \in Daemons : dm'[b].pc = IF b = d THEN "released" ELSE dm[b].pc
  BY <1>0, PhaseStep
<1>2. Types' /\ OffIsEmpty' /\ MutexHeld'
  BY <1>0, PhaseStep DEF BrigdInv, Types
<1>3. LockHeld' /\ SocketNamesServer'
  BY <1>1, BrigdAssumption DEF BrigdInv, LockHeld, SocketNamesServer, Locking
<1> QED
  BY <1>2, <1>3 DEF BrigdInv

\* A daemon that goes takes its connections along.
LEMMA GoneStep ==
    ASSUME BrigdInv, NEW d \in Daemons, Gone(d)
    PROVE /\ Types /\ flock' \in Daemons \cup {"nobody"} => Types'
          /\ OffIsEmpty' /\ MutexHeld'
          /\ \A b \in Daemons : dm'[b].pc = IF b = d THEN "off" ELSE dm[b].pc
<1>1. NoDaemon \in DaemonSet /\ NoDaemon.pc = "off" /\ NoDaemon.inv = {}
  BY DEF NoDaemon, DaemonSet, Locking
<1>2. NoConn \in ConnSet /\ NoConn.pc = "none" /\ ConnFits(NoConn) /\ ~OwnsIt(NoConn)
  BY DEF NoConn, ConnSet, ConnFits, OwnsIt, Owning
<1>3. \A b \in Daemons : dm'[b] = IF b = d THEN NoDaemon ELSE dm[b]
  BY DEF Gone, BrigdInv, Types
<1>4. \A c \in Conns : cn'[c] = IF cn[c].d = d THEN NoConn ELSE cn[c]
  BY DEF Gone
<1>5. dm' \in [Daemons -> DaemonSet] /\ cn' \in [Conns -> ConnSet]
  BY <1>1, <1>2 DEF Gone, BrigdInv, Types
<1>6. \A c \in Conns : ConnFits(cn[c])'
  BY <1>2, <1>4 DEF BrigdInv, Types, ConnFits, OwnsIt
<1>7. \A c \in Conns : cn[c].pc # "none" => cn[c].d \in Daemons
  BY DEF BrigdInv, Types, ConnFits
<1>8. OffIsEmpty'
  BY <1>1, <1>2, <1>3, <1>4, <1>7 DEF BrigdInv, OffIsEmpty
<1>9. MutexHeld'
  <2>1. \A c \in Conns : OwnsIt(cn[c]) => cn[c].d \in Daemons
    BY <1>7 DEF OwnsIt, Owning
  <2> QED
    BY <1>2, <1>3, <1>4, <2>1 DEF BrigdInv, MutexHeld
<1> QED
  BY <1>1, <1>3, <1>5, <1>6, <1>8, <1>9 DEF Types

LEMMA ExitInv == ASSUME BrigdInv, NEW d \in Daemons, Exit(d) PROVE BrigdInv'
<1>1. Types' /\ OffIsEmpty' /\ MutexHeld'
  BY GoneStep DEF Exit, BrigdInv, Types
<1>2. \A b \in Daemons : dm'[b].pc = IF b = d THEN "off" ELSE dm[b].pc
  BY GoneStep DEF Exit
<1>3. LockHeld' /\ SocketNamesServer'
  BY <1>2 DEF Exit, PathAtEnd, BrigdInv, LockHeld, SocketNamesServer, Locking
<1> QED
  BY <1>1, <1>3 DEF BrigdInv

LEMMA CrashInv == ASSUME BrigdInv, NEW d \in Daemons, Crash(d) PROVE BrigdInv'
<1>1. Types' /\ OffIsEmpty' /\ MutexHeld'
  BY GoneStep DEF Crash, BrigdInv, Types
<1>2. \A b \in Daemons : dm'[b].pc = IF b = d THEN "off" ELSE dm[b].pc
  BY GoneStep DEF Crash
<1>3. dm[d].pc \in Locking
  BY DEF Crash, BrigdInv, Types, DaemonSet
<1>4. LockHeld' /\ SocketNamesServer'
  BY <1>2, <1>3, BrigdAssumption DEF Crash, BrigdInv, LockHeld, SocketNamesServer, Locking
<1> QED
  BY <1>1, <1>4 DEF BrigdInv

\* What a connection's record is after one of its fields changed.
LEMMA ConnRecord ==
    ASSUME NEW k \in ConnSet, NEW l \in Owning \cup {"listing", "reply"}
    PROVE LET n == [k EXCEPT !.pc = l] IN
          n \in ConnSet /\ n.pc = l /\ n.d = k.d /\ n.op = k.op /\ n.v = k.v
BY DEF ConnSet

\* The request goes on under its mutex, or loses the right to it.
LEMMA ConnMoves ==
    ASSUME BrigdInv, NEW c \in Conns, OwnsIt(cn[c]), cn[c].pc \in Owning,
           NEW l \in Owning,
           \/ cn' = [cn EXCEPT ![c].pc = l]
           \/ \E ok \in BOOLEAN : cn' = [cn EXCEPT ![c].pc = l, ![c].ok = ok]
    PROVE \E k \in ConnSet :
            /\ cn' = [cn EXCEPT ![c] = k] /\ k.pc = l /\ ConnFits(k) /\ OwnsIt(k)
            /\ k.d = cn[c].d /\ k.v = cn[c].v
<1>1. cn \in [Conns -> ConnSet] /\ cn[c] \in ConnSet /\ ConnFits(cn[c])
  BY DEF BrigdInv, Types
<1>2. CASE cn' = [cn EXCEPT ![c].pc = l]
  <2> DEFINE k == [cn[c] EXCEPT !.pc = l]
  <2>1. k \in ConnSet /\ k.pc = l /\ k.d = cn[c].d /\ k.op = cn[c].op /\ k.v = cn[c].v
    BY <1>1, ConnRecord
  <2>2. cn' = [cn EXCEPT ![c] = k]
    BY <1>1, <1>2
  <2> HIDE DEF k
  <2> QED
    BY <1>1, <2>1, <2>2 DEF ConnFits, OwnsIt, Owning
<1>3. CASE \E ok \in BOOLEAN : cn' = [cn EXCEPT ![c].pc = l, ![c].ok = ok]
  <2>0. PICK ok \in BOOLEAN : cn' = [cn EXCEPT ![c].pc = l, ![c].ok = ok]
    BY <1>3
  <2> DEFINE k == [cn[c] EXCEPT !.pc = l, !.ok = ok]
  <2>1. k \in ConnSet /\ k.pc = l /\ k.d = cn[c].d /\ k.op = cn[c].op /\ k.v = cn[c].v
    BY <1>1, <2>0 DEF ConnSet
  <2>2. cn' = [cn EXCEPT ![c] = k]
    BY <1>1, <2>0
  <2> HIDE DEF k
  <2> QED
    BY <1>1, <2>1, <2>2 DEF ConnFits, OwnsIt, Owning
<1> QED
  BY <1>2, <1>3

\* The same with the daemons left alone.
LEMMA MovesInv ==
    ASSUME BrigdInv, NEW c \in Conns, cn[c].pc \in Owning, NEW l \in Owning,
           \/ cn' = [cn EXCEPT ![c].pc = l]
           \/ \E ok \in BOOLEAN : cn' = [cn EXCEPT ![c].pc = l, ![c].ok = ok],
           UNCHANGED <<dm, flock, sock>>
    PROVE BrigdInv'
<1>1. OwnsIt(cn[c])
  BY DEF OwnsIt
<1>2. PICK k \in ConnSet :
        /\ cn' = [cn EXCEPT ![c] = k] /\ k.pc = l /\ ConnFits(k) /\ OwnsIt(k)
        /\ k.d = cn[c].d /\ k.v = cn[c].v
  BY <1>1, ConnMoves
<1>3. dm[k.d].pc # "off" /\ dm[k.d].vm[k.v] = c
  BY <1>1, <1>2 DEF BrigdInv, OffIsEmpty, MutexHeld, Owning
<1> QED
  BY <1>2, <1>3, ConnStep

LEMMA DialInv == ASSUME BrigdInv, NEW c \in Conns, Dial(c) PROVE BrigdInv'
<1> DEFINE k == [NoConn EXCEPT !.pc = "read", !.d = sock]
<1>1. k \in ConnSet /\ k.pc = "read" /\ k.d = sock
  BY DEF NoConn, ConnSet, Dial
<1>2. ConnFits(k) /\ ~OwnsIt(k)
  BY <1>1 DEF ConnFits, OwnsIt, Owning, Dial
<1>3. cn' = [cn EXCEPT ![c] = k] /\ UNCHANGED <<dm, flock, sock>> /\ dm[sock].pc # "off"
  BY DEF Dial
<1> HIDE DEF k
<1> QED
  BY <1>1, <1>2, <1>3, ConnStep

LEMMA HangupInv == ASSUME BrigdInv, NEW c \in Conns, Hangup(c) PROVE BrigdInv'
<1>1. NoConn \in ConnSet /\ NoConn.pc = "none" /\ ConnFits(NoConn) /\ ~OwnsIt(NoConn)
  BY DEF NoConn, ConnSet, ConnFits, OwnsIt, Owning
<1> QED
  BY <1>1, ConnStep DEF Hangup

LEMMA ReplyInv == ASSUME BrigdInv, NEW c \in Conns, Reply(c) PROVE BrigdInv'
<1> DEFINE k == [NoConn EXCEPT !.pc = "read", !.d = cn[c].d]
<1>0. cn[c].d \in Daemons /\ dm[cn[c].d].pc # "off"
  BY DEF Reply, BrigdInv, Types, ConnFits, OffIsEmpty
<1>1. k \in ConnSet /\ k.pc = "read" /\ k.d = cn[c].d
  BY <1>0 DEF NoConn, ConnSet
<1>2. ConnFits(k) /\ ~OwnsIt(k)
  BY <1>0, <1>1 DEF ConnFits, OwnsIt, Owning
<1>3. cn' = [cn EXCEPT ![c] = k] /\ UNCHANGED <<dm, flock, sock>>
  BY DEF Reply
<1> HIDE DEF k
<1> QED
  BY <1>0, <1>1, <1>2, <1>3, ConnStep

LEMMA ReadRequestInv ==
    ASSUME BrigdInv, NEW c \in Conns, NEW o \in {"ensure", "stop", "status"}, NEW v \in VMs,
           ReadRequest(c, o, v)
    PROVE BrigdInv'
<1> DEFINE k == [cn[c] EXCEPT !.op = o, !.v = v, !.pc = IF o = "status" THEN "status" ELSE "lockfor"]
<1>0. cn \in [Conns -> ConnSet] /\ cn[c].d \in Daemons /\ dm[cn[c].d].pc # "off"
  BY DEF ReadRequest, BrigdInv, Types, ConnFits, OffIsEmpty
<1>1. /\ k \in ConnSet /\ k.pc = (IF o = "status" THEN "status" ELSE "lockfor")
      /\ k.d = cn[c].d /\ k.op = o /\ k.v = v
  BY <1>0 DEF ConnSet
<1>2. ConnFits(k) /\ ~OwnsIt(k)
  BY <1>0, <1>1 DEF ConnFits, OwnsIt, Owning
<1>3. cn' = [cn EXCEPT ![c] = k] /\ UNCHANGED <<dm, flock, sock>>
  BY <1>0 DEF ReadRequest
<1> HIDE DEF k
<1> QED
  BY <1>0, <1>1, <1>2, <1>3, ConnStep

LEMMA EnsureCheckInv == ASSUME BrigdInv, NEW c \in Conns, EnsureCheck(c) PROVE BrigdInv'
<1>1. \/ cn' = [cn EXCEPT ![c].pc = "remember"] \/ cn' = [cn EXCEPT ![c].pc = "boot"]
      \/ \E ok \in BOOLEAN : cn' = [cn EXCEPT ![c].pc = "unlock", ![c].ok = ok]
  BY DEF EnsureCheck, Answers
<1> QED
  BY <1>1, MovesInv DEF EnsureCheck, Owning

LEMMA EnsureBootInv == ASSUME BrigdInv, NEW c \in Conns, EnsureBoot(c) PROVE BrigdInv'
<1>1. \/ cn' = [cn EXCEPT ![c].pc = "remember"]
      \/ \E ok \in BOOLEAN : cn' = [cn EXCEPT ![c].pc = "unlock", ![c].ok = ok]
  BY DEF EnsureBoot, Answers
<1> QED
  BY <1>1, MovesInv DEF EnsureBoot, Owning

LEMMA StopCheckInv == ASSUME BrigdInv, NEW c \in Conns, StopCheck(c) PROVE BrigdInv'
<1>1. \/ cn' = [cn EXCEPT ![c].pc = "halt"]
      \/ \E ok \in BOOLEAN : cn' = [cn EXCEPT ![c].pc = "unlock", ![c].ok = ok]
  BY DEF StopCheck, Answers
<1> QED
  BY <1>1, MovesInv DEF StopCheck, Owning

LEMMA StopHaltInv == ASSUME BrigdInv, NEW c \in Conns, StopHalt(c) PROVE BrigdInv'
<1>1. \/ cn' = [cn EXCEPT ![c].pc = "forget"]
      \/ \E ok \in BOOLEAN : cn' = [cn EXCEPT ![c].pc = "unlock", ![c].ok = ok]
  BY DEF StopHalt, Answers
<1> QED
  BY <1>1, MovesInv DEF StopHalt, Owning

\* What a daemon's record is after one of its fields changed.
LEMMA DaemonRecord ==
    ASSUME NEW m \in DaemonSet
    PROVE /\ \A i \in SUBSET VMs :
               LET n == [m EXCEPT !.inv = i] IN
               n \in DaemonSet /\ n.pc = m.pc /\ n.vm = m.vm /\ n.inv = i
          /\ \A u \in Conns \cup {"nobody"} :
               LET n == [m EXCEPT !.mu = u] IN
               n \in DaemonSet /\ n.pc = m.pc /\ n.vm = m.vm /\ n.inv = m.inv
          /\ \A f \in [VMs -> Conns \cup {"nobody"}] :
               LET n == [m EXCEPT !.vm = f] IN
               n \in DaemonSet /\ n.pc = m.pc /\ n.vm = f /\ n.inv = m.inv
BY DEF DaemonSet

\* A connection that has a place in the code has a daemon, whose record is one.
LEMMA Placed ==
    ASSUME BrigdInv, NEW c \in Conns, cn[c].pc # "none"
    PROVE /\ dm \in [Daemons -> DaemonSet] /\ cn \in [Conns -> ConnSet]
          /\ cn[c] \in ConnSet /\ ConnFits(cn[c])
          /\ cn[c].d \in Daemons /\ dm[cn[c].d] \in DaemonSet
BY DEF BrigdInv, Types, ConnFits

\* The requests of a daemon own what its mutexes say.
LEMMA OthersOwn ==
    ASSUME BrigdInv, NEW c \in Conns, NEW b \in Conns \ {c}, OwnsIt(cn[b]), cn[b].d = cn[c].d
    PROVE dm[cn[c].d].vm[cn[b].v] = b /\ b # c /\ cn[b].v \in VMs
BY DEF BrigdInv, Types, ConnFits, MutexHeld

LEMMA InventoryStep ==
    ASSUME BrigdInv, NEW c \in Conns, cn[c].pc \in Owning, NEW i \in SUBSET VMs,
           dm' = [dm EXCEPT ![cn[c].d].inv = i], Answers(c, TRUE), UNCHANGED <<flock, sock>>
    PROVE BrigdInv'
<1>1. OwnsIt(cn[c]) /\ cn[c].pc # "none" /\ "unlock" \in Owning
  BY DEF OwnsIt, Owning
<1>2. PICK k \in ConnSet :
        /\ cn' = [cn EXCEPT ![c] = k] /\ k.pc = "unlock" /\ ConnFits(k) /\ OwnsIt(k)
        /\ k.d = cn[c].d /\ k.v = cn[c].v
  BY <1>1, ConnMoves DEF Answers
<1> DEFINE m == [dm[cn[c].d] EXCEPT !.inv = i]
<1>3. m \in DaemonSet /\ m.pc = dm[cn[c].d].pc /\ m.vm = dm[cn[c].d].vm
  BY <1>1, Placed, DaemonRecord
<1>4. dm' = [dm EXCEPT ![cn[c].d] = m]
  BY <1>1, Placed
<1>5. \A b \in Conns \ {c} : OwnsIt(cn[b]) /\ cn[b].d = cn[c].d => m.vm[cn[b].v] = b
  BY <1>3, OthersOwn
<1>6. m.vm[k.v] = c
  BY <1>1, <1>2, <1>3 DEF BrigdInv, MutexHeld
<1> HIDE DEF m
<1> QED
  BY <1>1, <1>2, <1>3, <1>4, <1>5, <1>6, BothStep

LEMMA RememberInv == ASSUME BrigdInv, NEW c \in Conns, Remember(c) PROVE BrigdInv'
<1> DEFINE i == dm[cn[c].d].inv \cup {cn[c].v}
<1>1. cn[c].pc # "none" /\ cn[c].pc \in Owning
  BY DEF Remember, Owning
<1>2. i \in SUBSET VMs
  BY <1>1, Placed DEF ConnFits, DaemonSet
<1>3. dm' = [dm EXCEPT ![cn[c].d].inv = i] /\ Answers(c, TRUE) /\ UNCHANGED <<flock, sock>>
  BY <1>1, Placed DEF Remember
<1> HIDE DEF i
<1> QED
  BY <1>1, <1>2, <1>3, InventoryStep

LEMMA ForgetInv == ASSUME BrigdInv, NEW c \in Conns, Forget(c) PROVE BrigdInv'
<1> DEFINE i == dm[cn[c].d].inv \ {cn[c].v}
<1>1. cn[c].pc # "none" /\ cn[c].pc \in Owning
  BY DEF Forget, Owning
<1>2. i \in SUBSET VMs
  BY <1>1, Placed DEF DaemonSet
<1>3. dm' = [dm EXCEPT ![cn[c].d].inv = i] /\ Answers(c, TRUE) /\ UNCHANGED <<flock, sock>>
  BY <1>1, Placed DEF Forget
<1> HIDE DEF i
<1> QED
  BY <1>1, <1>2, <1>3, InventoryStep

LEMMA LockForInv == ASSUME BrigdInv, NEW c \in Conns, LockFor(c) PROVE BrigdInv'
<1>1. cn[c].pc = "lockfor" /\ cn[c].v \in VMs /\ cn[c].op \in {"ensure", "stop"} /\ cn[c].op \in Owning
  BY DEF LockFor, BrigdInv, Types, ConnFits, Owning
<1> DEFINE k == [cn[c] EXCEPT !.pc = cn[c].op]
           f == [dm[cn[c].d].vm EXCEPT ![cn[c].v] = c]
           m == [dm[cn[c].d] EXCEPT !.vm = f]
<1>2. k \in ConnSet /\ k.pc = cn[c].op /\ k.d = cn[c].d /\ k.op = cn[c].op /\ k.v = cn[c].v
  BY <1>1, Placed, ConnRecord
<1>3. ConnFits(k) /\ OwnsIt(k)
  BY <1>1, <1>2, Placed DEF ConnFits, OwnsIt, Owning
<1>4. dm[cn[c].d].vm \in [VMs -> Conns \cup {"nobody"}]
  BY <1>1, Placed DEF DaemonSet
<1>5. f \in [VMs -> Conns \cup {"nobody"}]
      /\ \A v \in VMs : f[v] = IF v = cn[c].v THEN c ELSE dm[cn[c].d].vm[v]
  BY <1>4
<1> HIDE DEF f
<1>6. m \in DaemonSet /\ m.pc = dm[cn[c].d].pc /\ m.vm = f
  BY <1>1, <1>5, Placed DEF DaemonSet
<1>7. dm' = [dm EXCEPT ![cn[c].d] = m] /\ cn' = [cn EXCEPT ![c] = k] /\ UNCHANGED <<flock, sock>>
  BY <1>1, Placed DEF LockFor, f
<1>8. \A b \in Conns \ {c} : OwnsIt(cn[b]) /\ cn[b].d = cn[c].d => m.vm[cn[b].v] = b
  <2> SUFFICES ASSUME NEW b \in Conns \ {c}, OwnsIt(cn[b]), cn[b].d = cn[c].d
               PROVE m.vm[cn[b].v] = b
    OBVIOUS
  <2>1. dm[cn[c].d].vm[cn[b].v] = b /\ cn[b].v \in VMs
    BY OthersOwn
  <2>2. b # "nobody" /\ dm[cn[c].d].vm[cn[c].v] = "nobody"
    BY BrigdAssumption DEF LockFor, Held
  <2> QED
    BY <1>5, <1>6, <2>1, <2>2
<1> HIDE DEF k, m
<1>9. m.vm[k.v] = c
  BY <1>1, <1>2, <1>5, <1>6
<1> QED
  BY <1>1, <1>2, <1>3, <1>6, <1>7, <1>8, <1>9, BothStep

LEMMA StatusLockInv == ASSUME BrigdInv, NEW c \in Conns, StatusLock(c) PROVE BrigdInv'
<1>1. cn[c].pc \in {"status", "unlock"} /\ cn[c].pc # "none"
  BY DEF StatusLock
<1> DEFINE k == [cn[c] EXCEPT !.pc = "listing"]
           m == [dm[cn[c].d] EXCEPT !.mu = c]
<1>2. k \in ConnSet /\ k.pc = "listing" /\ k.d = cn[c].d /\ k.op = cn[c].op /\ k.v = cn[c].v
  BY <1>1, Placed, ConnRecord
<1>3. ConnFits(k) /\ (OwnsIt(k) => OwnsIt(cn[c]))
  BY <1>1, <1>2, Placed DEF ConnFits, OwnsIt, Owning
<1>4. m \in DaemonSet /\ m.pc = dm[cn[c].d].pc /\ m.vm = dm[cn[c].d].vm
  BY <1>1, Placed, DaemonRecord
<1>5. dm' = [dm EXCEPT ![cn[c].d] = m] /\ cn' = [cn EXCEPT ![c] = k] /\ UNCHANGED <<flock, sock>>
  BY <1>1, Placed DEF StatusLock
<1> HIDE DEF k, m
<1>6. \A b \in Conns \ {c} : OwnsIt(cn[b]) /\ cn[b].d = cn[c].d => m.vm[cn[b].v] = b
  BY <1>4, OthersOwn
<1>7. OwnsIt(k) => m.vm[k.v] = c
  BY <1>2, <1>3, <1>4 DEF BrigdInv, MutexHeld
<1> QED
  BY <1>1, <1>2, <1>3, <1>4, <1>5, <1>6, <1>7, BothStep

LEMMA StatusDoneInv == ASSUME BrigdInv, NEW c \in Conns, StatusDone(c) PROVE BrigdInv'
<1>1. cn[c].pc \in {"listing", "unlock"} /\ cn[c].pc # "none"
  BY DEF StatusDone
<1> DEFINE k == [cn[c] EXCEPT !.pc = "reply"]
           u == IF dm[cn[c].d].mu = c THEN "nobody" ELSE dm[cn[c].d].mu
           m0 == [dm[cn[c].d] EXCEPT !.mu = u]
           f == Unlocked(cn[c].d, c)
           m == [m0 EXCEPT !.vm = f]
<1>2. k \in ConnSet /\ k.pc = "reply" /\ k.d = cn[c].d /\ k.op = cn[c].op /\ k.v = cn[c].v
  BY <1>1, Placed, ConnRecord
<1>3. ConnFits(k) /\ ~OwnsIt(k)
  BY <1>1, <1>2, Placed DEF ConnFits, OwnsIt, Owning
<1>4. u \in Conns \cup {"nobody"} /\ dm[cn[c].d].vm \in [VMs -> Conns \cup {"nobody"}]
  BY <1>1, Placed DEF DaemonSet
<1>5. f \in [VMs -> Conns \cup {"nobody"}]
      /\ \A v \in VMs : f[v] = IF dm[cn[c].d].vm[v] = c THEN "nobody" ELSE dm[cn[c].d].vm[v]
  BY <1>4 DEF Unlocked
<1>6. m0 \in DaemonSet /\ m0.pc = dm[cn[c].d].pc
  BY <1>1, <1>4, Placed, DaemonRecord
<1>7. m \in DaemonSet /\ m.pc = dm[cn[c].d].pc /\ m.vm = f
  BY <1>5, <1>6 DEF DaemonSet
<1>8. dm' = [dm EXCEPT ![cn[c].d] = m] /\ cn' = [cn EXCEPT ![c] = k] /\ UNCHANGED <<flock, sock>>
  BY <1>1, Placed DEF StatusDone
<1> HIDE DEF k, m, m0, u, f
<1>9. \A b \in Conns \ {c} : OwnsIt(cn[b]) /\ cn[b].d = cn[c].d => m.vm[cn[b].v] = b
  BY <1>5, <1>7, OthersOwn
<1> QED
  BY <1>1, <1>2, <1>3, <1>7, <1>8, <1>9, BothStep

LEMMA Outside == ASSUME BrigdInv, UNCHANGED <<dm, flock, sock, cn>> PROVE BrigdInv'
BY DEF BrigdInv, Types, LockHeld, SocketNamesServer, OffIsEmpty, MutexHeld

LEMMA StepInv == BrigdInv /\ [BrigdNext]_brigdVars => BrigdInv'
<1> SUFFICES ASSUME BrigdInv, [BrigdNext]_brigdVars PROVE BrigdInv'
  OBVIOUS
<1>1. ASSUME NEW d \in Daemons,
             \/ LockSocket(d) \/ RemoveStale(d) \/ Listen(d) \/ CloseListener(d)
             \/ Release(d) \/ Exit(d) \/ Crash(d)
      PROVE BrigdInv'
  BY <1>1, LockSocketInv, RemoveStaleInv, ListenInv, CloseInv, ReleaseInv, ExitInv, CrashInv
<1>2. ASSUME NEW c \in Conns,
             \/ Dial(c) \/ Hangup(c) \/ LockFor(c) \/ EnsureCheck(c) \/ EnsureBoot(c)
             \/ Remember(c) \/ StopCheck(c) \/ StopHalt(c) \/ Forget(c)
             \/ StatusLock(c) \/ StatusDone(c) \/ Reply(c)
      PROVE BrigdInv'
  BY <1>2, DialInv, HangupInv, LockForInv, EnsureCheckInv, EnsureBootInv, RememberInv,
     StopCheckInv, StopHaltInv, ForgetInv, StatusLockInv, StatusDoneInv, ReplyInv
<1>3. ASSUME NEW v \in VMs, VMEnds(v) \/ LeftComesUp(v) PROVE BrigdInv'
  BY <1>3, Outside DEF VMEnds, LeftComesUp
<1>4. CASE UNCHANGED brigdVars
  BY <1>4, Outside DEF brigdVars
<1> QED
  BY <1>1, <1>2, <1>3, <1>4, ReadRequestInv DEF BrigdNext

\* The socket path names the daemon that serves, in every behaviour of any number of
\* daemons that start, stop and are killed on it (serve, lockSocket).
THEOREM PathIsServed == BrigdSpec => []SocketNamesServer
<1>1. BrigdSpec => []BrigdInv
  BY InitInv, StepInv, PTL DEF BrigdSpec
<1>2. BrigdInv => SocketNamesServer
  BY DEF BrigdInv
<1> QED
  BY <1>1, <1>2, PTL

-----------------------------------------------------------------------------
(* Brigd implements SandboxService. *)

\* The requests of the daemon with the flock that own a sandbox, what they own,
\* and that daemon's inventory: the refinement mapping of Svc.
Within(c) == OwnsIt(cn[c]) /\ cn[c].d = flock
Busy == {<<c, cn[c].v>> : c \in {k \in Conns : Owns(k) /\ cn[k].d = flock}}
Stock == IF flock = "nobody" THEN {} ELSE dm[flock].inv

LEMMA InBusy ==
    ASSUME NEW r, NEW v
    PROVE <<r, v>> \in Busy <=> r \in Conns /\ Within(r) /\ cn[r].v = v
BY DEF Busy, Within, Owns, OwnsIt, Owning

LEMMA InBusyNext ==
    ASSUME NEW r, NEW v
    PROVE <<r, v>> \in Busy' <=> r \in Conns /\ Within(r)' /\ cn'[r].v = v
BY DEF Busy, Within, Owns, OwnsIt, Owning

\* Whoever owns a sandbox goes on owning it, and nobody else comes.
LEMMA BusySame ==
    ASSUME \A k \in Conns : /\ Within(k)' <=> Within(k)
                            /\ Within(k) => cn'[k].v = cn[k].v
    PROVE Busy' = Busy
<1>1. \A k \in Conns : Within(k) <=> Owns(k) /\ cn[k].d = flock
  BY DEF Within, Owns, OwnsIt, Owning
<1>2. \A k \in Conns : Within(k)' <=> (Owns(k) /\ cn[k].d = flock)'
  BY DEF Within, Owns, OwnsIt, Owning
<1> QED
  BY <1>1, <1>2 DEF Busy

\* The steps of SandboxService in these terms.
LEMMA MapStutter ==
    ASSUME UNCHANGED vmup, Busy' = Busy, Stock' = Stock
    PROVE UNCHANGED Svc!serviceVars
BY DEF Svc!serviceVars, Busy, Stock

LEMMA MapOutside ==
    ASSUME NEW v \in VMs, vmup' \in {vmup \cup {v}, vmup \ {v}}, Busy' = Busy, Stock' = Stock
    PROVE Svc!ServiceNext
<1>1. Svc!Outside(v)
  BY DEF Svc!Outside, Busy, Stock
<1> QED
  BY <1>1 DEF Svc!ServiceNext

LEMMA MapRestarts ==
    ASSUME UNCHANGED vmup, Busy' = {}, Stock' = {}
    PROVE Svc!ServiceNext
<1>1. Svc!Restarts
  BY DEF Svc!Restarts, Busy, Stock
<1> QED
  BY <1>1 DEF Svc!ServiceNext

LEMMA MapRecords ==
    ASSUME NEW v \in VMs, NEW r \in Conns, <<r, v>> \in Busy,
           UNCHANGED vmup, Busy' = Busy, Stock' \in {Stock \cup {v}, Stock \ {v}}
    PROVE Svc!ServiceNext
<1>1. Svc!Owned(v)
  BY DEF Svc!Owned, Busy
<1>2. Svc!Records(v)
  BY <1>1 DEF Svc!Records, Busy, Stock
<1> QED
  BY <1>2 DEF Svc!ServiceNext

LEMMA MapEnter ==
    ASSUME NEW v \in VMs, NEW r \in Conns, \A b \in Conns : <<b, v>> \notin Busy,
           UNCHANGED vmup, Busy' = Busy \cup {<<r, v>>}, Stock' = Stock
    PROVE Svc!ServiceNext
<1>1. ~Svc!Owned(v)
  BY DEF Svc!Owned, Busy
<1>2. Svc!Enter(r, v)
  BY <1>1 DEF Svc!Enter, Busy, Stock
<1> QED
  BY <1>2 DEF Svc!ServiceNext

LEMMA MapLeave ==
    ASSUME NEW v \in VMs, NEW r \in Conns, <<r, v>> \in Busy,
           UNCHANGED vmup, Busy' = Busy \ {<<r, v>>}, Stock' = Stock
    PROVE Svc!ServiceNext
<1>1. Svc!Leave(r, v)
  BY DEF Svc!Leave, Busy, Stock
<1> QED
  BY <1>1 DEF Svc!ServiceNext

\* A step of one connection that leaves what it owns alone.
LEMMA BusyKept ==
    ASSUME BrigdInv, NEW c \in Conns, NEW k, cn' = [cn EXCEPT ![c] = k], UNCHANGED flock,
           Within(c) <=> OwnsIt(k) /\ k.d = flock, Within(c) => k.v = cn[c].v
    PROVE Busy' = Busy
<1>1. \A b \in Conns : cn'[b] = IF b = c THEN k ELSE cn[b]
  BY DEF BrigdInv, Types
<1>2. \A b \in Conns : (Within(b)' <=> Within(b)) /\ (Within(b) => cn'[b].v = cn[b].v)
  BY <1>1 DEF Within
<1> QED
  BY <1>2, BusySame

\* A step of a request that stays under its mutex.
LEMMA BusyMoves ==
    ASSUME BrigdInv, NEW c \in Conns, cn[c].pc \in Owning, NEW l \in Owning,
           \/ cn' = [cn EXCEPT ![c].pc = l]
           \/ \E ok \in BOOLEAN : cn' = [cn EXCEPT ![c].pc = l, ![c].ok = ok],
           UNCHANGED flock
    PROVE Busy' = Busy
<1>1. OwnsIt(cn[c])
  BY DEF OwnsIt
<1>2. PICK k \in ConnSet :
        /\ cn' = [cn EXCEPT ![c] = k] /\ k.pc = l /\ ConnFits(k) /\ OwnsIt(k)
        /\ k.d = cn[c].d /\ k.v = cn[c].v
  BY <1>1, ConnMoves
<1>3. Within(c) <=> OwnsIt(k) /\ k.d = flock
  BY <1>1, <1>2 DEF Within
<1> QED
  BY <1>2, <1>3, BusyKept

LEMMA StockSame ==
    ASSUME BrigdInv, UNCHANGED flock, \A d \in Daemons : dm'[d].inv = dm[d].inv
    PROVE Stock' = Stock
BY DEF BrigdInv, Types, Stock

\* Without the flock nobody owns a sandbox within the service.
LEMMA NobodyBusy ==
    ASSUME BrigdInv, flock = "nobody" PROVE Busy = {} /\ Stock = {}
<1>1. \A k \in Conns : ~(Owns(k) /\ cn[k].d = flock)
  <2>1. \A k \in Conns : Owns(k) => cn[k].d \in Daemons
    BY DEF BrigdInv, Types, ConnFits, Owns
  <2> QED
    BY <2>1, BrigdAssumption
<1> QED
  BY <1>1 DEF Busy, Stock

Mapped == Svc!ServiceNext \/ UNCHANGED Svc!serviceVars

LEMMA PhaseMap ==
    ASSUME BrigdInv, NEW d \in Daemons, NEW l \in Locking \cup {"released"},
           dm' = [dm EXCEPT ![d].pc = l], UNCHANGED <<cn, flock, vmup>>
    PROVE Mapped
<1>1. \A b \in Daemons : dm'[b].inv = dm[b].inv
  BY DEF BrigdInv, Types, DaemonSet
<1>2. Stock' = Stock
  BY <1>1, StockSame
<1>3. Busy' = Busy
  BY BusySame DEF Within
<1> QED
  BY <1>2, <1>3, MapStutter DEF Mapped

LEMMA LockSocketMap == ASSUME BrigdInv, BrigdInv', NEW d \in Daemons, LockSocket(d) PROVE Mapped
<1>1. Busy = {} /\ Stock = {}
  BY NobodyBusy DEF LockSocket
<1>2. dm'[d].inv = {} /\ flock' = d /\ d # "nobody"
  BY BrigdAssumption DEF LockSocket, BrigdInv, Types, OffIsEmpty, DaemonSet
<1>3. \A k \in Conns : ~(Owns(k) /\ cn[k].d = flock)'
  <2>1. \A k \in Conns : Owns(k) => cn[k].d # d
    BY DEF Owns, BrigdInv, OffIsEmpty, LockSocket
  <2> QED
    BY <2>1 DEF Owns, LockSocket, DaemonOnly
<1>4. Busy' = {} /\ Stock' = {}
  BY <1>2, <1>3 DEF Busy, Stock
<1> QED
  BY <1>1, <1>4, MapStutter DEF Mapped, LockSocket, DaemonOnly

LEMMA PhasesMap ==
    ASSUME BrigdInv, NEW d \in Daemons, RemoveStale(d) \/ Listen(d) \/ CloseListener(d)
    PROVE Mapped
<1>1. PICK l \in {"bind", "serving", "closed"} : dm' = [dm EXCEPT ![d].pc = l]
  BY DEF RemoveStale, Listen, CloseListener
<1>2. l \in Locking \cup {"released"}
  BY <1>1 DEF Locking
<1> QED
  BY <1>1, <1>2, PhaseMap DEF RemoveStale, Listen, CloseListener, DaemonOnly

\* The daemon that gives the flock back takes its requests out of the service.
LEMMA NobodyNext ==
    ASSUME BrigdInv', flock' = "nobody", UNCHANGED vmup PROVE Mapped
<1>1. \A k \in Conns : ~(Owns(k) /\ cn[k].d = flock)'
  <2>1. \A k \in Conns : Owns(k)' => cn'[k].d \in Daemons
    BY DEF BrigdInv, Types, ConnFits, Owns
  <2> QED
    BY <2>1, BrigdAssumption
<1>2. Busy' = {} /\ Stock' = {}
  BY <1>1 DEF Busy, Stock
<1> QED
  BY <1>2, MapRestarts DEF Mapped

\* One that had given it back had none there.
LEMMA ExitMap == ASSUME BrigdInv, BrigdInv', NEW d \in Daemons, Exit(d) PROVE Mapped
<1>1. flock # d /\ UNCHANGED <<flock, vmup>>
  BY DEF Exit, Gone, BrigdInv, LockHeld, Locking
<1>2. NoConn.pc = "none" /\ ~OwnsIt(NoConn)
  BY DEF NoConn, OwnsIt, Owning
<1>3. \A b \in Conns : cn'[b] = IF cn[b].d = d THEN NoConn ELSE cn[b]
  BY DEF Exit, Gone
<1>4. \A b \in Conns : (Within(b)' <=> Within(b)) /\ (Within(b) => cn'[b].v = cn[b].v)
  BY <1>1, <1>2, <1>3 DEF Within
<1>5. Busy' = Busy
  BY <1>4, BusySame
<1>6. Stock' = Stock
  BY <1>1 DEF Exit, Gone, Stock, BrigdInv, Types
<1> QED
  BY <1>1, <1>5, <1>6, MapStutter DEF Mapped

LEMMA TalkMap ==
    ASSUME BrigdInv, NEW c \in Conns, Dial(c) \/ Hangup(c) \/ Reply(c)
    PROVE Mapped
<1>1. PICK d : \/ cn' = [cn EXCEPT ![c] = [NoConn EXCEPT !.pc = "read", !.d = d]]
               \/ cn' = [cn EXCEPT ![c] = NoConn]
  BY DEF Dial, Hangup, Reply
<1>2. ~OwnsIt(NoConn) /\ ~OwnsIt([NoConn EXCEPT !.pc = "read", !.d = d]) /\ ~OwnsIt(cn[c])
  BY DEF NoConn, OwnsIt, Owning, Dial, Hangup, Reply
<1>3. Busy' = Busy
  BY <1>1, <1>2, BusyKept DEF Within, Dial, Hangup, Reply
<1>4. Stock' = Stock /\ UNCHANGED vmup
  BY DEF Stock, Dial, Hangup, Reply
<1> QED
  BY <1>3, <1>4, MapStutter DEF Mapped

LEMMA ReadRequestMap ==
    ASSUME BrigdInv, NEW c \in Conns, NEW o \in {"ensure", "stop", "status"}, NEW v \in VMs,
           ReadRequest(c, o, v)
    PROVE Mapped
<1> DEFINE k == [cn[c] EXCEPT !.op = o, !.v = v, !.pc = IF o = "status" THEN "status" ELSE "lockfor"]
<1>0. cn \in [Conns -> ConnSet] /\ cn[c] \in ConnSet
  BY DEF BrigdInv, Types
<1>1. k.pc = (IF o = "status" THEN "status" ELSE "lockfor")
  BY <1>0 DEF ConnSet
<1>2. cn' = [cn EXCEPT ![c] = k] /\ UNCHANGED <<dm, flock, vmup>>
  BY <1>0 DEF ReadRequest
<1> HIDE DEF k
<1>3. ~OwnsIt(k) /\ ~OwnsIt(cn[c])
  BY <1>1 DEF OwnsIt, Owning, ReadRequest
<1>4. Busy' = Busy
  BY <1>2, <1>3, BusyKept DEF Within
<1>5. Stock' = Stock
  BY <1>2 DEF Stock
<1> QED
  BY <1>2, <1>4, <1>5, MapStutter DEF Mapped

\* A boot, a stop or the check before it, under the mutex: whatever it does to the
\* sandbox is a step that SandboxService allows.
LEMMA WorkMap ==
    ASSUME BrigdInv, NEW c \in Conns,
           EnsureCheck(c) \/ EnsureBoot(c) \/ StopCheck(c) \/ StopHalt(c)
    PROVE Mapped
<1>1. cn[c].pc \in Owning /\ cn[c].pc # "none"
  BY DEF EnsureCheck, EnsureBoot, StopCheck, StopHalt, Owning
<1>2. cn[c].v \in VMs /\ UNCHANGED <<dm, flock>>
  BY <1>1, Placed DEF ConnFits, EnsureCheck, EnsureBoot, StopCheck, StopHalt
<1>3. PICK l \in {"remember", "boot", "halt", "forget", "unlock"} :
        \/ cn' = [cn EXCEPT ![c].pc = l]
        \/ \E ok \in BOOLEAN : cn' = [cn EXCEPT ![c].pc = l, ![c].ok = ok]
  BY DEF EnsureCheck, EnsureBoot, StopCheck, StopHalt, Answers
<1>4. l \in Owning
  BY <1>3 DEF Owning
<1>5. Busy' = Busy
  BY <1>1, <1>2, <1>3, <1>4, BusyMoves
<1>6. Stock' = Stock
  BY <1>2 DEF Stock
<1>7. vmup' \in {vmup, vmup \cup {cn[c].v}, vmup \ {cn[c].v}}
  BY DEF EnsureCheck, EnsureBoot, StopCheck, StopHalt
<1> QED
  BY <1>2, <1>5, <1>6, <1>7, MapStutter, MapOutside DEF Mapped

\* Only the owner changes the inventory of the daemon with the flock.
LEMMA InventoryMap == ASSUME BrigdInv, NEW c \in Conns, Remember(c) \/ Forget(c) PROVE Mapped
<1> DEFINE d == cn[c].d
           v == cn[c].v
<1>1. cn[c].pc \in Owning /\ cn[c].pc # "none" /\ "unlock" \in Owning
  BY DEF Remember, Forget, Owning
<1>2. v \in VMs /\ d \in Daemons /\ OwnsIt(cn[c]) /\ UNCHANGED <<flock, vmup>>
  BY <1>1, Placed DEF ConnFits, OwnsIt, Remember, Forget
<1>3. Busy' = Busy
  BY <1>1, <1>2, BusyMoves DEF Remember, Forget, Answers
<1>4. PICK i \in {dm[d].inv \cup {v}, dm[d].inv \ {v}} : dm' = [dm EXCEPT ![d].inv = i]
  BY DEF Remember, Forget
<1>5. \A b \in Daemons : dm'[b].inv = IF b = d THEN i ELSE dm[b].inv
  BY <1>2, <1>4 DEF BrigdInv, Types, DaemonSet
<1>6. CASE d = flock
  <2>1. <<c, v>> \in Busy
    BY <1>2, <1>6, InBusy DEF Within
  <2>2. Stock = dm[d].inv /\ Stock' = i
    BY <1>2, <1>5, <1>6, BrigdAssumption DEF Stock
  <2> QED
    BY <1>2, <1>3, <1>4, <2>1, <2>2, MapRecords DEF Mapped
<1>7. CASE d # flock
  <2>1. Stock' = Stock
    BY <1>2, <1>5, <1>7 DEF Stock, BrigdInv, Types
  <2> QED
    BY <1>2, <1>3, <2>1, MapStutter DEF Mapped
<1> QED
  BY <1>6, <1>7

\* Its mutex makes a request the one owner.
LEMMA LockForMap == ASSUME BrigdInv, NEW c \in Conns, LockFor(c) PROVE Mapped
<1> DEFINE d == cn[c].d
           v == cn[c].v
           k == [cn[c] EXCEPT !.pc = cn[c].op]
<1>1. cn[c].pc = "lockfor" /\ v \in VMs /\ cn[c].op \in Owning /\ ~OwnsIt(cn[c])
  BY DEF LockFor, BrigdInv, Types, ConnFits, OwnsIt, Owning
<1>2. k.pc = cn[c].op /\ k.d = d /\ k.v = v
  BY <1>1, Placed, ConnRecord
<1>3. cn' = [cn EXCEPT ![c] = k] /\ UNCHANGED <<flock, vmup>>
  BY <1>1, Placed DEF LockFor
<1>4. OwnsIt(k)
  BY <1>1, <1>2 DEF OwnsIt
<1> HIDE DEF k
<1>5. \A b \in Daemons : dm'[b].inv = dm[b].inv
  BY <1>1, Placed DEF LockFor, DaemonSet
<1>6. Stock' = Stock
  BY <1>3, <1>5, StockSame
<1>7. CASE d = flock
  <2>1. \A b \in Conns : <<b, v>> \notin Busy
    <3> SUFFICES ASSUME NEW b \in Conns, <<b, v>> \in Busy PROVE FALSE
      OBVIOUS
    <3>1. Within(b) /\ cn[b].v = v
      BY InBusy
    <3>2. dm[d].vm[v] = b
      BY <1>7, <3>1 DEF Within, BrigdInv, MutexHeld
    <3> QED
      BY <3>2, BrigdAssumption DEF LockFor, Held
  <2>2. \A b \in Conns : cn'[b] = IF b = c THEN k ELSE cn[b]
    BY <1>3 DEF BrigdInv, Types
  <2>3. \A r \in Conns : Within(r)' <=> (r = c \/ Within(r))
    BY <1>2, <1>3, <1>4, <1>7, <2>2 DEF Within
  <2>4. \A r \in Conns : cn'[r].v = cn[r].v
    BY <1>2, <2>2
  <2>5. Busy' = Busy \cup {<<c, v>>}
    <3>1. \A r \in Conns : Within(r) <=> Owns(r) /\ cn[r].d = flock
      BY DEF Within, Owns, OwnsIt, Owning
    <3>2. \A r \in Conns : Within(r)' <=> (Owns(r) /\ cn[r].d = flock)'
      BY DEF Within, Owns, OwnsIt, Owning
    <3> QED
      BY <2>3, <2>4, <3>1, <3>2 DEF Busy
  <2> QED
    BY <1>1, <1>3, <1>6, <2>1, <2>5, MapEnter DEF Mapped
<1>8. CASE d # flock
  <2>1. Busy' = Busy
    BY <1>1, <1>2, <1>3, <1>8, BusyKept DEF Within
  <2> QED
    BY <1>3, <1>6, <2>1, MapStutter DEF Mapped
<1> QED
  BY <1>7, <1>8

LEMMA StatusLockMap == ASSUME BrigdInv, NEW c \in Conns, StatusLock(c) PROVE Mapped
<1> DEFINE k == [cn[c] EXCEPT !.pc = "listing"]
<1>1. cn[c].pc \in {"status", "unlock"} /\ cn[c].pc # "none"
  BY DEF StatusLock
<1>2. k.pc = "listing" /\ k.d = cn[c].d /\ k.op = cn[c].op /\ k.v = cn[c].v
  BY <1>1, Placed, ConnRecord
<1>3. cn' = [cn EXCEPT ![c] = k] /\ UNCHANGED <<flock, vmup>>
  BY <1>1, Placed DEF StatusLock
<1> HIDE DEF k
<1>4. OwnsIt(k) <=> OwnsIt(cn[c])
  BY <1>1, <1>2, Placed DEF OwnsIt, Owning, ConnFits
<1>5. \A b \in Daemons : dm'[b].inv = dm[b].inv
  BY <1>1, Placed DEF StatusLock, DaemonSet
<1>6. Stock' = Stock
  BY <1>3, <1>5, StockSame
<1>7. Busy' = Busy
  BY <1>2, <1>3, <1>4, BusyKept DEF Within
<1> QED
  BY <1>3, <1>6, <1>7, MapStutter DEF Mapped

\* The answer gives the sandbox up.
LEMMA StatusDoneMap == ASSUME BrigdInv, NEW c \in Conns, StatusDone(c) PROVE Mapped
<1> DEFINE k == [cn[c] EXCEPT !.pc = "reply"]
           v == cn[c].v
<1>1. cn[c].pc \in {"listing", "unlock"} /\ cn[c].pc # "none"
  BY DEF StatusDone
<1>2. k.pc = "reply" /\ k.d = cn[c].d /\ k.v = v
  BY <1>1, Placed, ConnRecord
<1>3. cn' = [cn EXCEPT ![c] = k] /\ UNCHANGED <<flock, vmup>>
  BY <1>1, Placed DEF StatusDone
<1>4. ~OwnsIt(k)
  BY <1>2 DEF OwnsIt, Owning
<1> HIDE DEF k
<1>5. \A b \in Daemons : dm'[b].inv = dm[b].inv
  BY <1>1, Placed DEF StatusDone, DaemonSet
<1>6. Stock' = Stock
  BY <1>3, <1>5, StockSame
<1>7. CASE Within(c)
  <2>1. v \in VMs /\ <<c, v>> \in Busy
    BY <1>1, <1>7, Placed, InBusy DEF Within, ConnFits
  <2>2. \A b \in Conns : cn'[b] = IF b = c THEN k ELSE cn[b]
    BY <1>3 DEF BrigdInv, Types
  <2>3. \A r \in Conns : Within(r)' <=> (r # c /\ Within(r))
    BY <1>3, <1>4, <2>2 DEF Within
  <2>4. \A r \in Conns : cn'[r].v = cn[r].v
    BY <1>2, <2>2
  <2>5. Busy' = Busy \ {<<c, v>>}
    <3>1. \A r \in Conns : Within(r) <=> Owns(r) /\ cn[r].d = flock
      BY DEF Within, Owns, OwnsIt, Owning
    <3>2. \A r \in Conns : Within(r)' <=> (Owns(r) /\ cn[r].d = flock)'
      BY DEF Within, Owns, OwnsIt, Owning
    <3> QED
      BY <2>3, <2>4, <3>1, <3>2 DEF Busy
  <2> QED
    BY <1>3, <1>6, <2>1, <2>5, MapLeave DEF Mapped
<1>8. CASE ~Within(c)
  <2>1. Busy' = Busy
    BY <1>3, <1>4, <1>8, BusyKept
  <2> QED
    BY <1>3, <1>6, <2>1, MapStutter DEF Mapped
<1> QED
  BY <1>7, <1>8

LEMMA GuestMap == ASSUME BrigdInv, NEW v \in VMs, VMEnds(v) \/ LeftComesUp(v) PROVE Mapped
<1>1. Busy' = Busy /\ Stock' = Stock
  BY DEF VMEnds, LeftComesUp, Busy, Owns, Stock
<1>2. vmup' \in {vmup, vmup \cup {v}, vmup \ {v}}
  BY DEF VMEnds, LeftComesUp
<1> QED
  BY <1>1, <1>2, MapStutter, MapOutside DEF Mapped

LEMMA StepMap == BrigdInv /\ [BrigdNext]_brigdVars => Mapped
<1> SUFFICES ASSUME BrigdInv, [BrigdNext]_brigdVars PROVE Mapped
  OBVIOUS
<1>0. BrigdInv'
  BY StepInv
<1>1. ASSUME NEW d \in Daemons,
             \/ LockSocket(d) \/ RemoveStale(d) \/ Listen(d) \/ CloseListener(d)
             \/ Release(d) \/ Exit(d) \/ Crash(d)
      PROVE Mapped
  <2>1. CASE Release(d) \/ Crash(d)
    BY <1>0, <2>1, NobodyNext DEF Release, DaemonOnly, Crash, Gone
  <2> QED
    BY <1>0, <1>1, <2>1, LockSocketMap, PhasesMap, ExitMap
<1>2. ASSUME NEW c \in Conns,
             \/ Dial(c) \/ Hangup(c) \/ LockFor(c) \/ EnsureCheck(c) \/ EnsureBoot(c)
             \/ Remember(c) \/ StopCheck(c) \/ StopHalt(c) \/ Forget(c)
             \/ StatusLock(c) \/ StatusDone(c) \/ Reply(c)
      PROVE Mapped
  BY <1>2, TalkMap, LockForMap, WorkMap, InventoryMap, StatusLockMap, StatusDoneMap
<1>3. ASSUME NEW v \in VMs, VMEnds(v) \/ LeftComesUp(v) PROVE Mapped
  BY <1>3, GuestMap
<1>4. CASE UNCHANGED brigdVars
  <2>1. Busy' = Busy /\ Stock' = Stock /\ UNCHANGED vmup
    BY <1>4 DEF brigdVars, Busy, Owns, Stock
  <2> QED
    BY <2>1, MapStutter DEF Mapped
<1> QED
  BY <1>1, <1>2, <1>3, <1>4, ReadRequestMap DEF BrigdNext

\* Every behaviour of brigd is one of SandboxService: of the daemon that holds the
\* flock one request at a time owns a sandbox, and nobody else changes what it says
\* of it (lockFor, ensure and stop), for any number of daemons and connections.
THEOREM Implements == BrigdSpec => OneOwner
<1>1. BrigdInit => Svc!ServiceInit
  <2> SUFFICES ASSUME BrigdInit PROVE Svc!ServiceInit
    OBVIOUS
  <2>1. Busy = {} /\ Stock = {}
    BY InitInv, NobodyBusy DEF BrigdInit
  <2> QED
    BY <2>1 DEF BrigdInit, Svc!ServiceInit, Busy, Stock
<1>2. BrigdInv /\ [BrigdNext]_brigdVars => [Svc!ServiceNext]_(Svc!serviceVars)
  BY StepMap DEF Mapped
<1> QED
  BY <1>1, <1>2, InitInv, StepInv, PTL DEF BrigdSpec, OneOwner, Svc!Service

-----------------------------------------------------------------------------
\* The commands on a sandbox: SandboxRun.

Nets == {"shared", "isolated", "offline"}
EntrySet == [on : BOOLEAN, proj : Projects \cup {"none"}, home : {"none", "given", "temporary"}]
SbxSet == [st : {"none", "running", "stopped"}, net : Nets \cup {"none"}, proj : Projects \cup {"none"},
           home : {"none", "given", "temporary"}, ready : BOOLEAN]
RcdSet == [net : Nets \cup {"none"}, entry : EntrySet, pubs : SUBSET Ports]
\* The places of a run before it decides, of one that boots and of one that has booted.
Before == {"refuse", "home", "check"}
Clearing == {"clear", "verify", "forwards", "boot"}
Booted == {"pubs", "posture", "session", "unrecorded"}
CmdPlaces == Before \cup Clearing \cup Booted
              \cup {"idle", "keep", "publish", "published", "withdraw", "rmhome", "rmentry", "rmpubs"}
CmdSet == [op : {"none", "run", "publish", "unpublish", "rm"}, pc : CmdPlaces, net : Nets \cup {"none"},
           proj : Projects \cup {"none"}, home : {"none", "given", "temporary"}, pubs : SUBSET Ports,
           recorded : Nets \cup {"none"}, recovery : {"no", "absent", "unknown", "recovered"},
           asked : Nets \cup {"none"}, eff : Nets \cup {"none"}, kept : BOOLEAN, creates : BOOLEAN]

RunTypes ==
    /\ sbx \in SbxSet /\ rcd \in RcdSet /\ cm \in CmdSet
    /\ fwd \in SUBSET Ports
    /\ hom \in {"none", "fresh", "used"} /\ rules \in BOOLEAN
    /\ torn \in SUBSET {"boot", "ports"}

\* One publication to a host port.
OneEach(pubs) == \A p, q \in pubs : p.host = q.host => p = q
\* A line has at most one port (the bound of RunNext).
AtMostOne(pubs) == pubs = {} \/ \E p \in Ports : pubs = {p}
\* What a policy may have made of the posture that was asked for.
FromAsked(eff, asked) == eff = asked \/ (asked = "shared" /\ eff = "isolated")

\* The records tell of the sandbox that is there, unless its boot is torn.
Told ==
    sbx.st # "none" /\ "boot" \notin torn =>
        /\ rcd.entry.on /\ rcd.entry.proj = sbx.proj /\ rcd.entry.home = sbx.home
        /\ sbx.net \in Nets /\ FromAsked(sbx.net, rcd.net)

\* What the command was loaded with, and what is there, at each of its places.
AtPlace ==
    /\ cm.pc = "idle" <=> cm = NoCmd
    /\ cm.pc \in Before \cup Clearing \cup Booted \cup {"keep"} =>
         cm.asked \in Nets /\ cm.eff \in Nets /\ FromAsked(cm.eff, cm.asked)
    /\ cm.pc \in Before =>
         /\ cm.asked = Asked(cm.net, cm.recorded) /\ cm.eff = Narrowed(cm.asked)
         /\ sbx.st # "none" /\ "boot" \notin torn => cm.recovery = "no" /\ cm.recorded = rcd.net
    /\ cm.pc = "keep" =>
         /\ sbx.st # "none"
         /\ "boot" \notin torn =>
              /\ cm.recovery = "no" /\ sbx.net = cm.eff /\ (rules => sbx.net # "shared")
              /\ sbx.proj = cm.proj /\ sbx.home = cm.home
    /\ cm.pc \in Booted =>
         /\ sbx.st # "none" /\ "boot" \in torn
         /\ sbx.net = cm.eff /\ sbx.proj = cm.proj /\ sbx.home = cm.home
    /\ cm.pc = "session" => rcd.net = cm.asked
    /\ cm.pc = "rmhome" => sbx.st = "none"
    /\ cm.pc \in {"rmentry", "rmpubs"} => sbx.st = "none" \/ "boot" \in torn

\* The forwards of a sandbox that runs are those of the record, up to what the
\* command is about to write.
Forwarded ==
    /\ OneEach(rcd.pubs) /\ AtMostOne(cm.pubs)
    /\ cm.pc = "boot" /\ sbx.st # "none" => "ports" \in torn
    /\ cm.pc = "boot" /\ sbx.st = "none" /\ cm.eff # "offline" => fwd = Merged(rcd.pubs, cm.pubs)
    /\ cm.pc = "pubs" /\ cm.eff # "offline" => fwd = Merged(rcd.pubs, cm.pubs)
    /\ cm.pc \in {"posture", "session", "unrecorded"} /\ cm.eff # "offline" => fwd = rcd.pubs
    /\ cm.pc \in {"publish", "published", "withdraw"} => cm.pubs # {}
    /\ sbx.st = "running" /\ sbx.net # "offline" /\ torn = {} =>
         /\ cm.pc \in Before \cup {"idle", "clear", "verify", "forwards", "keep", "publish"} => fwd = rcd.pubs
         /\ cm.pc = "published" => fwd = Merged(rcd.pubs, cm.pubs)
         /\ cm.pc = "withdraw" => fwd \ cm.pubs = rcd.pubs

RunInv == RunTypes /\ HomeKept /\ Told /\ AtPlace /\ Forwarded

LEMMA NoCmdFacts ==
    /\ NoCmd \in CmdSet /\ NoCmd.pc = "idle" /\ NoCmd.pubs = {} /\ AtMostOne(NoCmd.pubs)
    /\ NoSandbox \in SbxSet /\ NoSandbox.st = "none"
    /\ NoRecord \in RcdSet /\ NoEntry \in EntrySet /\ NoRecord.pubs = {}
<1>1. NoEntry \in EntrySet
  BY DEF NoEntry, EntrySet
<1>2. NoRecord \in RcdSet /\ NoRecord.pubs = {}
  BY <1>1 DEF NoRecord, RcdSet
<1>3. NoCmd \in CmdSet /\ NoCmd.pc = "idle" /\ NoCmd.pubs = {}
  BY DEF NoCmd, CmdSet, CmdPlaces
<1>4. NoSandbox \in SbxSet /\ NoSandbox.st = "none"
  BY DEF NoSandbox, SbxSet
<1> QED
  BY <1>1, <1>2, <1>3, <1>4 DEF AtMostOne

\* The command goes on, and keeps all that it was loaded with.
SameLoad(k, c) ==
    /\ k.proj = c.proj /\ k.home = c.home /\ k.pubs = c.pubs /\ k.asked = c.asked /\ k.eff = c.eff
    /\ k.creates = c.creates
LEMMA ToPlace ==
    ASSUME cm \in CmdSet, NEW pc \in CmdPlaces, To(pc)
    PROVE  /\ cm' \in CmdSet /\ cm'.pc = pc /\ SameLoad(cm', cm)
           /\ cm'.net = cm.net /\ cm'.recorded = cm.recorded /\ cm'.recovery = cm.recovery
           /\ cm'.kept = cm.kept
  BY DEF To, CmdSet, SameLoad
LEMMA DecidedPlace ==
    ASSUME cm \in CmdSet, NEW pc \in CmdPlaces, Decided(pc)
    PROVE  /\ cm' \in CmdSet /\ cm'.pc = pc /\ SameLoad(cm', cm)
           /\ cm'.recovery = IF pc = "clear" THEN "no" ELSE cm.recovery
  BY DEF Decided, CmdSet, SameLoad

\* A publication that takes the place of the one on its host port.
LEMMA MergedFacts ==
    ASSUME NEW have \in SUBSET Ports, NEW add \in SUBSET Ports, OneEach(have), AtMostOne(add)
    PROVE  Merged(have, add) \in SUBSET Ports /\ OneEach(Merged(have, add))
  BY DEF Merged, OneEach, AtMostOne

LEMMA RunInitInv == RunInit => RunInv
  BY NoCmdFacts DEF RunInit, RunInv, RunTypes, HomeKept, Told, AtPlace, Forwarded, OneEach,
     Before, Clearing, Booted

\* The command ends with the sandbox, its records and its home as they are.
LEMMA EndsInv ==
    ASSUME RunInv, Ends, UNCHANGED <<sbx, rcd, rules>>,
           hom' = hom \/ (hom' = "none" /\ sbx.st = "none"),
           torn' \in SUBSET {"boot", "ports"}, torn \subseteq torn', fwd' \in SUBSET Ports,
           torn' = {} /\ sbx.st = "running" /\ sbx.net # "offline" => fwd' = rcd.pubs
    PROVE  RunInv'
<1>1. cm' \in CmdSet /\ cm'.pc = "idle" /\ cm' = NoCmd /\ AtMostOne(cm'.pubs)
  BY NoCmdFacts DEF Ends
<1>2. RunTypes'
  BY <1>1 DEF RunInv, RunTypes
<1>3. HomeKept' /\ Told'
  BY <1>1 DEF RunInv, RunTypes, HomeKept, Told
<1>4. AtPlace'
  BY <1>1, NoCmdFacts DEF RunInv, AtPlace, Before, Clearing, Booted
<1>5. Forwarded'
  BY <1>1 DEF RunInv, Forwarded, Before
<1> QED
  BY <1>2, <1>3, <1>4, <1>5 DEF RunInv

LEMMA LoadInv ==
    ASSUME RunInv, NEW net \in Nets \cup {"none"}, NEW proj \in Projects \cup {"none"},
           NEW given \in {"none", "given"}, NEW pubs \in SUBSET Ports, AtMostOne(pubs),
           Load(net, proj, given, pubs)
    PROVE  RunInv'
<1>p. PICK r \in Recovered :
         cm' = [NoCmd EXCEPT !.op = "run", !.pc = "refuse", !.net = net,
                  !.proj = IF proj # "none" THEN proj ELSE rcd.entry.proj,
                  !.home = HomeOf(given), !.pubs = pubs,
                  !.recorded = r[1], !.recovery = r[2], !.asked = Asked(net, r[1]),
                  !.eff = Narrowed(Asked(net, r[1])),
                  !.kept = given # "none" \/ rcd.entry.on]
  BY DEF Load
<1>0. /\ cm = NoCmd /\ cm.pc = "idle" /\ UNCHANGED <<sbx, fwd, rcd, hom, rules, torn>>
      /\ rcd \in RcdSet /\ rcd.entry \in EntrySet /\ sbx \in SbxSet
  BY NoCmdFacts DEF Load, RunInv, RunTypes, RcdSet
<1>1. /\ r[1] \in Nets \cup {"none"} /\ r[2] \in {"no", "absent", "unknown", "recovered"}
      /\ sbx.st # "none" /\ "boot" \notin torn => r[2] = "no" /\ r[1] = rcd.net
  BY <1>0 DEF RunInv, Told, FromAsked, Recovered, RcdSet, SbxSet, Nets
<1>2. Asked(net, r[1]) \in Nets /\ Narrowed(Asked(net, r[1])) \in Nets
      /\ FromAsked(Narrowed(Asked(net, r[1])), Asked(net, r[1]))
  BY <1>1 DEF Asked, Narrowed, Nets, FromAsked
<1>3. HomeOf(given) \in {"none", "given", "temporary"} /\ rcd.entry.proj \in Projects \cup {"none"}
      /\ (given # "none" \/ rcd.entry.on) \in BOOLEAN
  BY <1>0 DEF HomeOf, EntrySet
<1> DEFINE wanted == Asked(net, r[1])
           eff == Narrowed(wanted)
           home == HomeOf(given)
           pj == IF proj # "none" THEN proj ELSE rcd.entry.proj
           kept == given # "none" \/ rcd.entry.on
           rec == r[1]
           rcv == r[2]
<1>a. cm' = [NoCmd EXCEPT !.op = "run", !.pc = "refuse", !.net = net, !.proj = pj, !.home = home,
               !.pubs = pubs, !.recorded = rec, !.recovery = rcv, !.asked = wanted, !.eff = eff, !.kept = kept]
  BY <1>p
<1>b. /\ wanted \in Nets /\ eff \in Nets /\ home \in {"none", "given", "temporary"}
      /\ pj \in Projects \cup {"none"} /\ kept \in BOOLEAN
      /\ rec \in Nets \cup {"none"} /\ rcv \in {"no", "absent", "unknown", "recovered"}
  BY <1>1, <1>2, <1>3
<1>c. wanted = Asked(net, rec) /\ eff = Narrowed(wanted) /\ FromAsked(eff, wanted)
  BY <1>2
<1>d. sbx.st # "none" /\ "boot" \notin torn => rcv = "no" /\ rec = rcd.net
  BY <1>1
<1> HIDE DEF wanted, eff, home, pj, kept, rec, rcv
<1>4. /\ cm' \in CmdSet /\ cm'.pc = "refuse" /\ cm'.net = net /\ cm'.recorded = rec /\ cm'.pubs = pubs
      /\ cm'.recovery = rcv /\ cm'.asked = wanted /\ cm'.eff = eff
  BY <1>a, <1>b DEF NoCmd, CmdSet, CmdPlaces, Before
<1>5. RunTypes'
  BY <1>0, <1>4 DEF RunInv, RunTypes
<1>6. HomeKept' /\ Told'
  BY <1>0, <1>4 DEF RunInv, HomeKept, Told
<1>7. AtPlace'
  BY <1>0, <1>b, <1>c, <1>d, <1>4, NoCmdFacts DEF RunInv, AtPlace, Before, Clearing, Booted, Asked, Narrowed
<1>8. Forwarded'
  BY <1>0, <1>4 DEF RunInv, Forwarded, Before
<1> QED
  BY <1>5, <1>6, <1>7, <1>8 DEF RunInv

LEMMA RefuseInv ==
    ASSUME RunInv, Refuse
    PROVE  RunInv'
<1>0. /\ cm \in CmdSet /\ cm.pc = "refuse" /\ UNCHANGED <<sbx, fwd, rcd, hom, rules, torn>>
      /\ To("home") \/ Ends
  BY DEF Refuse, At, RunInv, RunTypes
<1>1. CASE Ends
  BY <1>0, <1>1, EndsInv DEF RunInv, RunTypes, Forwarded, Before
<1>2. CASE To("home")
  <2>0. "home" \in CmdPlaces
    BY DEF CmdPlaces, Before
  <2>1. /\ cm' \in CmdSet /\ cm'.pc = "home" /\ SameLoad(cm', cm)
        /\ cm'.net = cm.net /\ cm'.recorded = cm.recorded /\ cm'.recovery = cm.recovery
    BY <1>0, <1>2, <2>0, ToPlace
  <2>2. RunTypes' /\ HomeKept' /\ Told'
    BY <1>0, <2>1 DEF RunInv, RunTypes, HomeKept, Told
  <2>3. AtPlace'
    BY <1>0, <2>1, NoCmdFacts DEF RunInv, AtPlace, Before, Clearing, Booted, Asked, Narrowed, SameLoad
  <2>4. Forwarded'
    BY <1>0, <2>1 DEF RunInv, Forwarded, Before, SameLoad
  <2> QED
    BY <2>2, <2>3, <2>4 DEF RunInv
<1> QED
  BY <1>0, <1>1, <1>2

LEMMA PrepareHomeInv ==
    ASSUME RunInv, PrepareHome
    PROVE  RunInv'
<1>0. /\ cm \in CmdSet /\ cm.pc = "home" /\ UNCHANGED <<sbx, fwd, rcd, rules, torn>>
  BY DEF PrepareHome, At, RunInv, RunTypes
<1>p. PICK reaped \in {FALSE, Orphan} :
        /\ cm' = [cm EXCEPT !.pc = "check",
                            !.creates = cm.home = "temporary" /\ ~cm.kept /\ (hom = "none" \/ reaped)]
        /\ hom' = IF cm.home = "temporary" /\ (hom = "none" \/ reaped) THEN "fresh" ELSE hom
  BY DEF PrepareHome
<1> DEFINE made == cm.home = "temporary" /\ ~cm.kept /\ (hom = "none" \/ reaped)
<1>a. cm' = [cm EXCEPT !.pc = "check", !.creates = made] /\ made \in BOOLEAN
  BY <1>p
<1>h. hom' \in {"none", "fresh", "used"} /\ (sbx.st # "none" => hom' = hom \/ (hom = "none" /\ hom' = "fresh"))
  BY <1>p DEF RunInv, RunTypes, Orphan
<1> HIDE DEF made
<1>1. /\ cm' \in CmdSet /\ cm'.pc = "check" /\ cm'.proj = cm.proj /\ cm'.home = cm.home /\ cm'.pubs = cm.pubs
      /\ cm'.asked = cm.asked /\ cm'.eff = cm.eff
      /\ cm'.net = cm.net /\ cm'.recorded = cm.recorded /\ cm'.recovery = cm.recovery
  BY <1>0, <1>a DEF CmdSet, CmdPlaces, Before
<1>2. RunTypes' /\ HomeKept' /\ Told'
  BY <1>0, <1>1, <1>h DEF RunInv, RunTypes, HomeKept, Told
<1>3. AtPlace'
  BY <1>0, <1>1, NoCmdFacts DEF RunInv, AtPlace, Before, Clearing, Booted, Asked, Narrowed
<1>4. Forwarded'
  BY <1>0, <1>1 DEF RunInv, Forwarded, Before
<1> QED
  BY <1>2, <1>3, <1>4 DEF RunInv

\* A run that fails before its boot.
LEMMA FailsInv ==
    ASSUME RunInv, Fails, UNCHANGED <<sbx, rcd, rules>>,
           torn' \in SUBSET {"boot", "ports"}, torn \subseteq torn', fwd' \in SUBSET Ports,
           torn' = {} /\ sbx.st = "running" /\ sbx.net # "offline" => fwd' = rcd.pubs
    PROVE  RunInv'
  BY EndsInv DEF Fails

LEMMA CheckInv ==
    ASSUME RunInv, Check
    PROVE  RunInv'
<1>0. /\ cm \in CmdSet /\ sbx \in SbxSet /\ cm.pc = "check" /\ UNCHANGED <<rcd, rules, torn>>
  BY DEF Check, At, RunInv, RunTypes
<1>00. "keep" \in CmdPlaces /\ "clear" \in CmdPlaces
  BY DEF CmdPlaces, Clearing
<1>1. CASE Fails /\ UNCHANGED <<sbx, fwd>>
  BY <1>0, <1>1, FailsInv DEF RunInv, RunTypes, Forwarded, Before
<1>2. CASE /\ sbx.st = "running" /\ Keeps
           /\ Decided("keep") /\ UNCHANGED <<sbx, fwd, hom>>
  <2>1. cm' \in CmdSet /\ cm'.pc = "keep" /\ SameLoad(cm', cm) /\ cm'.recovery = cm.recovery
    BY <1>0, <1>00, <1>2, DecidedPlace
  <2>2. RunTypes' /\ HomeKept' /\ Told'
    BY <1>0, <1>2, <2>1 DEF RunInv, RunTypes, HomeKept, Told
  <2>3. ASSUME "boot" \notin torn
        PROVE  /\ cm.recovery = "no" /\ sbx.net = cm.eff /\ (rules => sbx.net # "shared")
               /\ sbx.proj = cm.proj /\ sbx.home = cm.home
    <3>1. /\ cm.recovery = "no" /\ cm.recorded = rcd.net /\ cm.eff = Narrowed(cm.asked)
          /\ cm.asked \in Nets /\ cm.eff \in Nets
      BY <1>0, <1>2, <2>3 DEF RunInv, AtPlace, Before
    <3>2. /\ rcd.entry.on /\ rcd.entry.proj = sbx.proj /\ sbx.net \in Nets /\ FromAsked(sbx.net, rcd.net)
      BY <1>2, <2>3 DEF RunInv, Told
    <3>3. sbx.proj = cm.proj /\ sbx.home = cm.home
      BY <1>2, <3>2 DEF Keeps
    <3>4. /\ rcd.net \in Nets /\ cm.asked = rcd.net
      BY <1>2, <3>1, <3>2 DEF Keeps, postureChanged, FromAsked, Nets
    <3>5. sbx.net = cm.eff /\ (rules => sbx.net # "shared")
      BY <1>2, <3>1, <3>2, <3>4 DEF Keeps, NetworkStale, Narrowed, FromAsked, Nets
    <3> QED
      BY <3>1, <3>3, <3>5
  <2>4. AtPlace'
    BY <1>0, <1>2, <2>1, <2>3, NoCmdFacts DEF RunInv, AtPlace, Before, Clearing, Booted, SameLoad
  <2>5. Forwarded'
    BY <1>0, <1>2, <2>1 DEF RunInv, Forwarded, Before, SameLoad
  <2> QED
    BY <2>2, <2>4, <2>5 DEF RunInv
<1>3. CASE /\ \/ sbx' = NoSandbox /\ fwd' = {}
              \/ UNCHANGED <<sbx, fwd>>
           /\ Decided("clear") /\ UNCHANGED hom
  <2>1. cm' \in CmdSet /\ cm'.pc = "clear" /\ SameLoad(cm', cm)
    BY <1>0, <1>00, <1>3, DecidedPlace
  <2>2. RunTypes' /\ HomeKept' /\ Told'
    BY <1>0, <1>3, <2>1, NoCmdFacts DEF RunInv, RunTypes, HomeKept, Told
  <2>4. AtPlace'
    BY <1>0, <1>3, <2>1, NoCmdFacts DEF RunInv, AtPlace, Before, Clearing, Booted, SameLoad
  <2>5. Forwarded'
    BY <1>0, <1>3, <2>1, NoCmdFacts DEF RunInv, Forwarded, Before, SameLoad
  <2> QED
    BY <2>2, <2>4, <2>5 DEF RunInv
<1> QED
  BY <1>1, <1>2, <1>3 DEF Check

LEMMA ClearInv ==
    ASSUME RunInv, Clear
    PROVE  RunInv'
<1>0. /\ cm \in CmdSet /\ sbx \in SbxSet /\ cm.pc = "clear" /\ UNCHANGED <<rcd, hom, rules, torn>>
      /\ sbx' = sbx \/ sbx' = NoSandbox
      /\ fwd' = IF sbx' = NoSandbox THEN {} ELSE fwd
  BY DEF Clear, At, RunInv, RunTypes
<1>1. cm' \in CmdSet /\ cm'.pc = "verify" /\ SameLoad(cm', cm)
  BY <1>0, ToPlace DEF Clear, CmdPlaces, Clearing
<1>2. RunTypes' /\ HomeKept' /\ Told'
  BY <1>0, <1>1, NoCmdFacts DEF RunInv, RunTypes, HomeKept, Told
<1>3. AtPlace'
  BY <1>0, <1>1, NoCmdFacts DEF RunInv, AtPlace, Before, Clearing, Booted, SameLoad
<1>4. Forwarded'
  BY <1>0, <1>1, NoCmdFacts DEF RunInv, Forwarded, Before, SameLoad
<1> QED
  BY <1>2, <1>3, <1>4 DEF RunInv

LEMMA VerifyInv ==
    ASSUME RunInv, Verify
    PROVE  RunInv'
<1>0. /\ cm \in CmdSet /\ cm.pc = "verify" /\ UNCHANGED <<sbx, fwd, rcd, rules, torn>>
  BY DEF Verify, At, RunInv, RunTypes
<1>1. CASE Fails
  BY <1>0, <1>1, FailsInv DEF RunInv, RunTypes, Forwarded, Before
<1>2. CASE To("forwards") /\ UNCHANGED hom
  <2>1. cm' \in CmdSet /\ cm'.pc = "forwards" /\ SameLoad(cm', cm)
    BY <1>0, <1>2, ToPlace DEF CmdPlaces, Clearing
  <2>2. RunTypes' /\ HomeKept' /\ Told'
    BY <1>0, <1>2, <2>1 DEF RunInv, RunTypes, HomeKept, Told
  <2>3. AtPlace'
    BY <1>0, <2>1, NoCmdFacts DEF RunInv, AtPlace, Before, Clearing, Booted, SameLoad
  <2>4. Forwarded'
    BY <1>0, <2>1 DEF RunInv, Forwarded, Before, SameLoad
  <2> QED
    BY <2>2, <2>3, <2>4 DEF RunInv
<1> QED
  BY <1>1, <1>2 DEF Verify

LEMMA ForwardsInv ==
    ASSUME RunInv, Forwards
    PROVE  RunInv'
<1>0. /\ cm \in CmdSet /\ sbx \in SbxSet /\ rcd \in RcdSet /\ cm.pc = "forwards" /\ UNCHANGED <<sbx, rcd, rules>>
      /\ torn' = IF sbx.st = "none" THEN torn ELSE torn \cup {"ports"}
      /\ torn' \in SUBSET {"boot", "ports"} /\ torn \subseteq torn'
      /\ cm.pubs \in SUBSET Ports /\ rcd.pubs \in SUBSET Ports
  BY DEF Forwards, At, RunInv, RunTypes, CmdSet, RcdSet
<1>1. CASE fwd' = {} /\ Fails
  BY <1>0, <1>1, FailsInv
<1>2. CASE /\ fwd' = (IF cm.eff = "offline" THEN {} ELSE Merged(rcd.pubs, cm.pubs))
           /\ To("boot") /\ UNCHANGED hom
  <2>1. cm' \in CmdSet /\ cm'.pc = "boot" /\ SameLoad(cm', cm)
    BY <1>0, <1>2, ToPlace DEF CmdPlaces, Clearing
  <2>2. fwd' \in SUBSET Ports
    BY <1>0, <1>2 DEF Merged
  <2>3. RunTypes' /\ HomeKept' /\ Told'
    BY <1>0, <1>2, <2>1, <2>2 DEF RunInv, RunTypes, HomeKept, Told
  <2>4. AtPlace'
    BY <1>0, <2>1, NoCmdFacts DEF RunInv, AtPlace, Before, Clearing, Booted, SameLoad
  <2>5. Forwarded'
    BY <1>0, <1>2, <2>1 DEF RunInv, Forwarded, Before, SameLoad, Merged
  <2> QED
    BY <2>3, <2>4, <2>5 DEF RunInv
<1> QED
  BY <1>1, <1>2 DEF Forwards

LEMMA BootHolds ==
    ASSUME RunInv, Boot
    PROVE  RunInv'
<1>0. /\ cm \in CmdSet /\ sbx \in SbxSet /\ cm.pc = "boot" /\ UNCHANGED <<rcd, rules>>
      /\ cm.eff \in Nets
  BY DEF Boot, At, RunInv, RunTypes, AtPlace, Clearing
<1>1. CASE fwd' = {} /\ Fails /\ UNCHANGED <<sbx, torn>>
  <2>1. sbx.st # "none" => torn # {}
    BY <1>0 DEF RunInv, Forwarded
  <2> QED
    BY <1>0, <1>1, <2>1, FailsInv DEF RunInv, RunTypes
<1>2. CASE /\ sbx.st = "none"
           /\ sbx' = [st |-> "running", net |-> cm.eff, proj |-> cm.proj, home |-> cm.home, ready |-> TRUE]
           /\ torn' = {"boot"}
           /\ hom' = IF cm.home = "temporary" THEN "used" ELSE hom
           /\ To("pubs") /\ UNCHANGED fwd
  <2>1. cm' \in CmdSet /\ cm'.pc = "pubs" /\ SameLoad(cm', cm)
    BY <1>0, <1>2, ToPlace DEF CmdPlaces, Booted
  <2>2. /\ sbx' \in SbxSet /\ sbx'.st = "running" /\ sbx'.net = cm.eff /\ sbx'.proj = cm.proj
        /\ sbx'.home = cm.home
    BY <1>0, <1>2 DEF SbxSet, CmdSet
  <2>3. RunTypes' /\ HomeKept' /\ Told'
    BY <1>0, <1>2, <2>1, <2>2 DEF RunInv, RunTypes, HomeKept, Told
  <2>4. AtPlace'
    BY <1>0, <1>2, <2>1, <2>2, NoCmdFacts DEF RunInv, AtPlace, Before, Clearing, Booted, SameLoad
  <2>5. Forwarded'
    BY <1>0, <1>2, <2>1, <2>2 DEF RunInv, Forwarded, Before, SameLoad, Merged
  <2> QED
    BY <2>3, <2>4, <2>5 DEF RunInv
<1> QED
  BY <1>1, <1>2 DEF Boot

LEMMA RecordPubsInv ==
    ASSUME RunInv, RecordPubs
    PROVE  RunInv'
<1>0. /\ cm \in CmdSet /\ rcd \in RcdSet /\ cm.pc = "pubs" /\ UNCHANGED <<sbx, fwd, hom, rules, torn>>
      /\ torn # {} /\ "boot" \in torn /\ rcd.pubs \in SUBSET Ports /\ cm.pubs \in SUBSET Ports
      /\ OneEach(rcd.pubs) /\ AtMostOne(cm.pubs)
  BY DEF RecordPubs, At, RunInv, RunTypes, AtPlace, Booted, CmdSet, RcdSet, Forwarded
<1>1. CASE Ends /\ UNCHANGED rcd
  BY <1>0, <1>1, EndsInv DEF RunInv, RunTypes
<1>2. CASE rcd' = [rcd EXCEPT !.pubs = Merged(@, cm.pubs)] /\ To("posture")
  <2> DEFINE m == Merged(rcd.pubs, cm.pubs)
  <2>0. m \in SUBSET Ports /\ OneEach(m)
    BY <1>0, MergedFacts
  <2>a. rcd' = [rcd EXCEPT !.pubs = m]
    BY <1>2
  <2>b. cm.eff # "offline" => fwd = m
    BY <1>0 DEF RunInv, Forwarded
  <2> HIDE DEF m
  <2>1. cm' \in CmdSet /\ cm'.pc = "posture" /\ SameLoad(cm', cm)
    BY <1>0, <1>2, ToPlace DEF CmdPlaces, Booted
  <2>2. rcd' \in RcdSet /\ rcd'.pubs = m
    BY <1>0, <2>0, <2>a DEF RcdSet
  <2>3. RunTypes' /\ HomeKept' /\ Told'
    BY <1>0, <2>1, <2>2 DEF RunInv, RunTypes, HomeKept, Told
  <2>4. AtPlace'
    BY <1>0, <2>1, <2>2, NoCmdFacts DEF RunInv, AtPlace, Before, Clearing, Booted, SameLoad
  <2>5. Forwarded'
    BY <1>0, <2>0, <2>b, <2>1, <2>2 DEF RunInv, Forwarded, Before, SameLoad
  <2> QED
    BY <2>3, <2>4, <2>5 DEF RunInv
<1> QED
  BY <1>1, <1>2 DEF RecordPubs

LEMMA RecordPostureInv ==
    ASSUME RunInv, RecordPosture
    PROVE  RunInv'
<1>0. /\ cm \in CmdSet /\ rcd \in RcdSet /\ cm.pc = "posture" /\ UNCHANGED <<sbx, fwd, hom, rules, torn>>
      /\ torn # {} /\ "boot" \in torn /\ cm.asked \in Nets
  BY DEF RecordPosture, At, RunInv, RunTypes, AtPlace, Booted
<1>1. PICK pc \in {"session", "unrecorded"} :
        To(pc) /\ rcd' = IF pc = "session" THEN [rcd EXCEPT !.net = cm.asked] ELSE rcd
  BY DEF RecordPosture
<1>2. cm' \in CmdSet /\ cm'.pc = pc /\ SameLoad(cm', cm)
  BY <1>0, <1>1, ToPlace DEF CmdPlaces, Booted
<1>3. rcd' \in RcdSet /\ rcd'.pubs = rcd.pubs /\ (pc = "session" => rcd'.net = cm.asked)
  BY <1>0, <1>1 DEF RcdSet
<1>4. RunTypes' /\ HomeKept' /\ Told'
  BY <1>0, <1>2, <1>3 DEF RunInv, RunTypes, HomeKept, Told
<1>5. AtPlace'
  BY <1>0, <1>2, <1>3, NoCmdFacts DEF RunInv, AtPlace, Before, Clearing, Booted, SameLoad
<1>6. Forwarded'
  BY <1>0, <1>2, <1>3 DEF RunInv, Forwarded, Before, SameLoad
<1> QED
  BY <1>4, <1>5, <1>6 DEF RunInv

LEMMA EntryFacts ==
    ASSUME rcd \in RcdSet, cm \in CmdSet
    PROVE  /\ Entry \in EntrySet /\ Entry.on /\ Entry.proj = cm.proj /\ Entry.home = cm.home
           /\ [rcd EXCEPT !.entry = Entry] \in RcdSet
           /\ [rcd EXCEPT !.entry = Entry].pubs = rcd.pubs
           /\ [rcd EXCEPT !.entry = Entry].net = rcd.net
           /\ [rcd EXCEPT !.entry = Entry].entry = Entry
<1>1. Entry \in EntrySet /\ Entry.on /\ Entry.proj = cm.proj /\ Entry.home = cm.home
  BY DEF Entry, EntrySet, CmdSet
<1> QED
  BY <1>1 DEF RcdSet

LEMMA RememberSessionInv ==
    ASSUME RunInv, RememberSession
    PROVE  RunInv'
<1>0. /\ cm \in CmdSet /\ rcd \in RcdSet /\ sbx \in SbxSet /\ cm.pc \in {"session", "unrecorded"}
      /\ UNCHANGED <<fwd, hom, rules>> /\ cm' = NoCmd
      /\ sbx.st # "none" /\ "boot" \in torn /\ FromAsked(cm.eff, cm.asked) /\ cm.eff \in Nets
      /\ sbx.net = cm.eff /\ sbx.proj = cm.proj /\ sbx.home = cm.home
      /\ cm.pc = "session" => rcd.net = cm.asked
      /\ cm.eff # "offline" => fwd = rcd.pubs
  BY DEF RememberSession, Ends, RunInv, RunTypes, AtPlace, Booted, Forwarded
<1>1. /\ sbx' \in SbxSet /\ sbx'.st = sbx.st /\ sbx'.net = sbx.net /\ sbx'.proj = sbx.proj
      /\ sbx'.home = sbx.home
  BY <1>0 DEF RememberSession, SbxSet
<1>2. \/ rcd' = rcd /\ torn' = torn
      \/ /\ rcd' = [rcd EXCEPT !.entry = Entry]
         /\ torn' = IF cm.pc = "unrecorded" THEN torn ELSE {}
  BY DEF RememberSession
<1>3. /\ rcd' \in RcdSet /\ rcd'.net = rcd.net /\ rcd'.pubs = rcd.pubs
      /\ torn' = torn \/ (torn' = {} /\ cm.pc = "session" /\ rcd'.entry = Entry)
  BY <1>0, <1>2, EntryFacts
<1>4. RunTypes' /\ HomeKept'
  BY <1>0, <1>1, <1>3, NoCmdFacts DEF RunInv, RunTypes, HomeKept
<1>5. Told'
  BY <1>0, <1>1, <1>3, EntryFacts DEF Told
<1>6. AtPlace'
  BY <1>0, NoCmdFacts DEF AtPlace, Before, Clearing, Booted
<1>7. Forwarded'
  BY <1>0, <1>1, <1>3, NoCmdFacts DEF RunInv, Forwarded, Before
<1> QED
  BY <1>4, <1>5, <1>6, <1>7 DEF RunInv

LEMMA KeepRecordInv ==
    ASSUME RunInv, KeepRecord
    PROVE  RunInv'
<1>0. /\ cm \in CmdSet /\ rcd \in RcdSet /\ cm.pc = "keep" /\ UNCHANGED <<sbx, fwd, hom, rules, torn>>
      /\ cm.asked \in Nets /\ cm.pubs \in SUBSET Ports
      /\ rcd' = [rcd EXCEPT !.entry = Entry, !.net = IF cm.recovery = "recovered" THEN cm.asked ELSE @]
      /\ "boot" \notin torn => cm.recovery = "no" /\ sbx.proj = cm.proj /\ sbx.home = cm.home
  BY DEF KeepRecord, At, RunInv, RunTypes, AtPlace, CmdSet
<1>1. /\ Entry \in EntrySet /\ Entry.on /\ Entry.proj = cm.proj /\ Entry.home = cm.home
  BY <1>0, EntryFacts
<1>2. /\ rcd' \in RcdSet /\ rcd'.entry = Entry /\ rcd'.pubs = rcd.pubs
      /\ cm.recovery = "no" => rcd'.net = rcd.net
  BY <1>0, <1>1 DEF RcdSet
<1>3. Told'
  BY <1>0, <1>1, <1>2 DEF RunInv, Told
<1>4. CASE cm.pubs = {}
  <2>1. cm' = NoCmd
    BY <1>4 DEF KeepRecord, Ends
  <2>2. RunTypes' /\ HomeKept'
    BY <1>0, <1>2, <2>1, NoCmdFacts DEF RunInv, RunTypes, HomeKept
  <2>3. AtPlace'
    BY <2>1, NoCmdFacts DEF AtPlace, Before, Clearing, Booted
  <2>4. Forwarded'
    BY <1>0, <1>2, <2>1, NoCmdFacts DEF RunInv, Forwarded, Before
  <2> QED
    BY <1>3, <2>2, <2>3, <2>4 DEF RunInv
<1>5. CASE cm.pubs # {}
  <2>1. cm' \in CmdSet /\ cm'.pc = "publish" /\ cm'.pubs = cm.pubs
    BY <1>0, <1>5, ToPlace DEF KeepRecord, CmdPlaces, SameLoad
  <2>2. RunTypes' /\ HomeKept'
    BY <1>0, <1>2, <2>1 DEF RunInv, RunTypes, HomeKept
  <2>3. AtPlace'
    BY <1>0, <2>1, NoCmdFacts DEF AtPlace, Before, Clearing, Booted
  <2>4. Forwarded'
    BY <1>0, <1>2, <1>5, <2>1 DEF RunInv, Forwarded, Before
  <2> QED
    BY <1>3, <2>2, <2>3, <2>4 DEF RunInv
<1> QED
  BY <1>4, <1>5

LEMMA PublishForwardInv ==
    ASSUME RunInv, PublishForward
    PROVE  RunInv'
<1>0. /\ cm \in CmdSet /\ cm.pc = "publish" /\ UNCHANGED <<sbx, rcd, hom, rules>>
      /\ sbx.st = "running" /\ sbx.net # "offline" /\ fwd \in SUBSET Ports
      /\ torn \in SUBSET {"boot", "ports"}
      /\ torn = {} => fwd = rcd.pubs
  BY DEF PublishForward, At, RunInv, RunTypes, Forwarded
<1>1. PICK p \in Ports : cm.pubs = {p}
  BY <1>0 DEF RunInv, Forwarded, AtMostOne
<1> DEFINE rest == {q \in fwd : q.host # p.host \/ q = p}
<1>2. \/ fwd' = rest \cup {p} /\ UNCHANGED torn /\ To("published")
      \/ fwd' = rest /\ torn' = torn \cup {"ports"} /\ Ends
  BY <1>1 DEF PublishForward
<1>3. CASE fwd' = rest /\ torn' = torn \cup {"ports"} /\ Ends
  BY <1>0, <1>3, EndsInv
<1>4. CASE fwd' = rest \cup {p} /\ UNCHANGED torn /\ To("published")
  <2>1. cm' \in CmdSet /\ cm'.pc = "published" /\ cm'.pubs = cm.pubs
    BY <1>0, <1>4, ToPlace DEF CmdPlaces, SameLoad
  <2>2. fwd' \in SUBSET Ports /\ (torn = {} => fwd' = Merged(rcd.pubs, cm.pubs))
    BY <1>0, <1>1, <1>4 DEF Merged
  <2>3. RunTypes' /\ HomeKept' /\ Told'
    BY <1>0, <1>4, <2>1, <2>2 DEF RunInv, RunTypes, HomeKept, Told
  <2>4. AtPlace'
    BY <2>1, NoCmdFacts DEF AtPlace, Before, Clearing, Booted
  <2>5. Forwarded'
    BY <1>0, <1>4, <2>1, <2>2 DEF RunInv, Forwarded, Before, Merged
  <2> QED
    BY <2>3, <2>4, <2>5 DEF RunInv
<1> QED
  BY <1>2, <1>3, <1>4

LEMMA PublishRefusedInv ==
    ASSUME RunInv, PublishRefused
    PROVE  RunInv'
  BY EndsInv DEF PublishRefused, At, RunInv, RunTypes

LEMMA PublishRecordInv ==
    ASSUME RunInv, PublishRecord
    PROVE  RunInv'
<1>0. /\ cm \in CmdSet /\ rcd \in RcdSet /\ cm.pc = "published" /\ UNCHANGED <<sbx, fwd, hom, rules>>
      /\ rcd.pubs \in SUBSET Ports /\ cm.pubs \in SUBSET Ports /\ cm' = NoCmd /\ Ends
      /\ OneEach(rcd.pubs) /\ AtMostOne(cm.pubs)
  BY DEF PublishRecord, At, RunInv, RunTypes, CmdSet, RcdSet, Forwarded, Ends
<1>1. CASE torn' = torn \cup {"ports"} /\ UNCHANGED rcd
  BY <1>0, <1>1, EndsInv DEF RunInv, RunTypes
<1>2. CASE rcd' = [rcd EXCEPT !.pubs = Merged(@, cm.pubs)] /\ UNCHANGED torn
  <2> DEFINE m == Merged(rcd.pubs, cm.pubs)
  <2>0. m \in SUBSET Ports /\ OneEach(m)
    BY <1>0, MergedFacts
  <2>a. rcd' = [rcd EXCEPT !.pubs = m]
    BY <1>2
  <2>b. sbx.st = "running" /\ sbx.net # "offline" /\ torn = {} => fwd = m
    BY <1>0 DEF RunInv, Forwarded
  <2> HIDE DEF m
  <2>1. rcd' \in RcdSet /\ rcd'.pubs = m /\ rcd'.net = rcd.net /\ rcd'.entry = rcd.entry
    BY <1>0, <2>0, <2>a DEF RcdSet
  <2>2. RunTypes' /\ HomeKept' /\ Told'
    BY <1>0, <1>2, <2>1, NoCmdFacts DEF RunInv, RunTypes, HomeKept, Told
  <2>3. AtPlace'
    BY <1>0, NoCmdFacts DEF AtPlace, Before, Clearing, Booted
  <2>4. Forwarded'
    BY <1>0, <1>2, <2>0, <2>b, <2>1, NoCmdFacts DEF Forwarded, Before
  <2> QED
    BY <2>2, <2>3, <2>4 DEF RunInv
<1> QED
  BY <1>1, <1>2 DEF PublishRecord

LEMMA PublishPortsInv ==
    ASSUME RunInv, NEW p \in Ports, PublishPorts(p)
    PROVE  RunInv'
<1>0. /\ cm = NoCmd /\ cm.pc = "idle" /\ cm \in CmdSet /\ rcd \in RcdSet /\ rcd.pubs \in SUBSET Ports
      /\ UNCHANGED <<sbx, fwd, hom, rules, torn>> /\ OneEach(rcd.pubs) /\ AtMostOne({p})
  BY NoCmdFacts DEF PublishPorts, RunInv, RunTypes, RcdSet, Forwarded, AtMostOne
<1>1. CASE /\ sbx.st = "running"
           /\ cm' = [NoCmd EXCEPT !.op = "publish", !.pc = "publish", !.pubs = {p}] /\ UNCHANGED rcd
  <2>1. cm' \in CmdSet /\ cm'.pc = "publish" /\ cm'.pubs = {p}
    BY <1>1 DEF NoCmd, CmdSet, CmdPlaces
  <2>2. RunTypes' /\ HomeKept' /\ Told'
    BY <1>0, <1>1, <2>1 DEF RunInv, RunTypes, HomeKept, Told
  <2>3. AtPlace'
    BY <2>1, NoCmdFacts DEF AtPlace, Before, Clearing, Booted
  <2>4. Forwarded'
    BY <1>0, <1>1, <2>1 DEF RunInv, Forwarded, Before
  <2> QED
    BY <2>2, <2>3, <2>4 DEF RunInv
<1>2. CASE sbx.st # "running" /\ rcd' = [rcd EXCEPT !.pubs = Merged(@, {p})] /\ UNCHANGED cm
  <2> DEFINE m == Merged(rcd.pubs, {p})
  <2>0. m \in SUBSET Ports /\ OneEach(m)
    BY <1>0, MergedFacts
  <2>a. rcd' = [rcd EXCEPT !.pubs = m]
    BY <1>2
  <2> HIDE DEF m
  <2>1. rcd' \in RcdSet /\ rcd'.pubs = m /\ rcd'.net = rcd.net /\ rcd'.entry = rcd.entry
    BY <1>0, <2>0, <2>a DEF RcdSet
  <2>2. RunTypes' /\ HomeKept' /\ Told'
    BY <1>0, <1>2, <2>1 DEF RunInv, RunTypes, HomeKept, Told
  <2>3. AtPlace'
    BY <1>0, <1>2, NoCmdFacts DEF AtPlace, Before, Clearing, Booted
  <2>4. Forwarded'
    BY <1>0, <1>2, <2>0, <2>1, NoCmdFacts DEF RunInv, Forwarded, Before
  <2> QED
    BY <2>2, <2>3, <2>4 DEF RunInv
<1> QED
  BY <1>1, <1>2 DEF PublishPorts

LEMMA UnpublishPortsInv ==
    ASSUME RunInv, NEW p \in Ports, UnpublishPorts(p)
    PROVE  RunInv'
<1>0. /\ cm = NoCmd /\ cm.pc = "idle" /\ cm \in CmdSet /\ rcd \in RcdSet /\ rcd.pubs \in SUBSET Ports
      /\ UNCHANGED <<sbx, fwd, hom, rules, torn>> /\ OneEach(rcd.pubs) /\ AtMostOne({p})
      /\ p \in rcd.pubs
  BY NoCmdFacts DEF UnpublishPorts, RunInv, RunTypes, RcdSet, Forwarded, AtMostOne
<1>1. /\ rcd' \in RcdSet /\ rcd'.pubs = rcd.pubs \ {p} /\ rcd'.net = rcd.net /\ rcd'.entry = rcd.entry
  BY <1>0 DEF UnpublishPorts, RcdSet
<1>2. OneEach(rcd'.pubs)
  BY <1>0, <1>1 DEF OneEach
<1>3. /\ cm' \in CmdSet
      /\ IF sbx.st = "running" THEN cm'.pc = "withdraw" /\ cm'.pubs = {p} ELSE cm' = cm
  <2>1. CASE sbx.st = "running"
    <3>1. cm' = [NoCmd EXCEPT !.op = "unpublish", !.pc = "withdraw", !.pubs = {p}]
      BY <2>1 DEF UnpublishPorts
    <3> QED
      BY <2>1, <3>1 DEF NoCmd, CmdSet, CmdPlaces
  <2>2. CASE sbx.st # "running"
    BY <1>0, <2>2 DEF UnpublishPorts
  <2> QED
    BY <2>1, <2>2
<1>4. RunTypes' /\ HomeKept' /\ Told'
  BY <1>0, <1>1, <1>3 DEF RunInv, RunTypes, HomeKept, Told
<1>5. AtPlace'
  BY <1>0, <1>3, NoCmdFacts DEF AtPlace, Before, Clearing, Booted
<1>6. Forwarded'
  BY <1>0, <1>1, <1>2, <1>3, NoCmdFacts DEF RunInv, Forwarded, Before
<1> QED
  BY <1>4, <1>5, <1>6 DEF RunInv

LEMMA WithdrawInv ==
    ASSUME RunInv, Withdraw
    PROVE  RunInv'
<1>0. /\ cm.pc = "withdraw" /\ UNCHANGED <<sbx, rcd, hom, rules>> /\ Ends
      /\ fwd \in SUBSET Ports /\ torn \in SUBSET {"boot", "ports"}
      /\ sbx.st = "running" /\ sbx.net # "offline" /\ torn = {} => fwd \ cm.pubs = rcd.pubs
      /\ \/ fwd' = fwd \ cm.pubs /\ UNCHANGED torn
         \/ torn' = torn \cup {"ports"} /\ UNCHANGED fwd
  BY DEF Withdraw, At, RunInv, RunTypes, Forwarded
<1> QED
  BY <1>0, EndsInv

LEMMA SbxStops ==
    ASSUME sbx \in SbxSet, NEW st \in {"running", "stopped"},
           sbx' = [sbx EXCEPT !.st = st, !.ready = FALSE]
    PROVE  sbx' \in SbxSet /\ sbx'.st = st /\ sbx'.net = sbx.net /\ sbx'.proj = sbx.proj /\ sbx'.home = sbx.home
  BY DEF SbxSet

LEMMA StopSandboxInv ==
    ASSUME RunInv, StopSandbox
    PROVE  RunInv'
<1>0. /\ cm = NoCmd /\ cm \in CmdSet /\ sbx \in SbxSet /\ UNCHANGED <<rcd, hom, rules, cm, torn>>
      /\ sbx.st = "running" /\ fwd' = {}
  BY DEF StopSandbox, RunInv, RunTypes
<1>1. /\ sbx' \in SbxSet /\ sbx'.st = "stopped" /\ sbx'.net = sbx.net /\ sbx'.proj = sbx.proj
      /\ sbx'.home = sbx.home
  BY <1>0, SbxStops DEF StopSandbox
<1>2. RunTypes' /\ HomeKept' /\ Told'
  BY <1>0, <1>1 DEF RunInv, RunTypes, HomeKept, Told
<1>3. AtPlace'
  BY <1>0, NoCmdFacts DEF AtPlace, Before, Clearing, Booted
<1>4. Forwarded'
  BY <1>0, <1>1, NoCmdFacts DEF RunInv, Forwarded, Before
<1> QED
  BY <1>2, <1>3, <1>4 DEF RunInv

LEMMA RemoveBeginInv ==
    ASSUME RunInv, RemoveBegin
    PROVE  RunInv'
<1>0. /\ cm = NoCmd /\ sbx \in SbxSet /\ UNCHANGED <<rcd, hom, rules>>
  BY DEF RemoveBegin, RunInv, RunTypes
<1>1. PICK pc \in {"rmhome", "rmentry"} :
        /\ cm' = [NoCmd EXCEPT !.op = "rm", !.pc = pc]
        /\ IF pc = "rmhome" THEN sbx' = NoSandbox /\ fwd' = {} /\ torn' = torn
           ELSE torn' = torn \cup {"boot"} /\ UNCHANGED <<sbx, fwd>>
  BY DEF RemoveBegin
<1>2. cm' \in CmdSet /\ cm'.pc = pc /\ cm'.pubs = {}
  BY <1>1 DEF NoCmd, CmdSet, CmdPlaces
<1>3. /\ sbx' \in SbxSet /\ (pc = "rmhome" => sbx'.st = "none") /\ (sbx'.st # "none" => sbx' = sbx)
      /\ pc = "rmentry" => "boot" \in torn' /\ torn' # {}
  BY <1>0, <1>1, NoCmdFacts
<1>4. RunTypes' /\ HomeKept' /\ Told'
  BY <1>0, <1>1, <1>2, <1>3 DEF RunInv, RunTypes, HomeKept, Told
<1>5. AtPlace'
  BY <1>2, <1>3, NoCmdFacts DEF AtPlace, Before, Clearing, Booted
<1>6. Forwarded'
  BY <1>0, <1>2, <1>3 DEF RunInv, Forwarded, Before, AtMostOne
<1> QED
  BY <1>4, <1>5, <1>6 DEF RunInv

LEMMA RemoveHomeInv ==
    ASSUME RunInv, RemoveHome
    PROVE  RunInv'
<1>0. /\ cm \in CmdSet /\ cm.pc = "rmhome" /\ UNCHANGED <<sbx, fwd, rcd, rules, torn>>
      /\ sbx.st = "none" /\ hom' \in {"none", "fresh", "used"}
  BY DEF RemoveHome, At, RunInv, RunTypes, AtPlace
<1>1. cm' \in CmdSet /\ cm'.pc = "rmentry" /\ cm'.pubs = cm.pubs
  BY <1>0, ToPlace DEF RemoveHome, CmdPlaces, SameLoad
<1>2. RunTypes' /\ HomeKept' /\ Told'
  BY <1>0, <1>1 DEF RunInv, RunTypes, HomeKept, Told
<1>3. AtPlace'
  BY <1>0, <1>1, NoCmdFacts DEF AtPlace, Before, Clearing, Booted
<1>4. Forwarded'
  BY <1>0, <1>1 DEF RunInv, Forwarded, Before
<1> QED
  BY <1>2, <1>3, <1>4 DEF RunInv

LEMMA ForgetEntryInv ==
    ASSUME RunInv, ForgetEntry
    PROVE  RunInv'
<1>0. /\ cm \in CmdSet /\ rcd \in RcdSet /\ cm.pc = "rmentry" /\ UNCHANGED <<sbx, fwd, hom, rules, torn>>
      /\ sbx.st = "none" \/ "boot" \in torn
  BY DEF ForgetEntry, At, RunInv, RunTypes, AtPlace
<1>1. cm' \in CmdSet /\ cm'.pc = "rmpubs" /\ cm'.pubs = cm.pubs
  BY <1>0, ToPlace DEF ForgetEntry, CmdPlaces, SameLoad
<1>2. rcd' \in RcdSet /\ rcd'.pubs = rcd.pubs
  BY <1>0, NoCmdFacts DEF ForgetEntry, RcdSet
<1>3. RunTypes' /\ HomeKept' /\ Told'
  BY <1>0, <1>1, <1>2 DEF RunInv, RunTypes, HomeKept, Told
<1>4. AtPlace'
  BY <1>0, <1>1, NoCmdFacts DEF AtPlace, Before, Clearing, Booted
<1>5. Forwarded'
  BY <1>0, <1>1, <1>2 DEF RunInv, Forwarded, Before
<1> QED
  BY <1>3, <1>4, <1>5 DEF RunInv

LEMMA ForgetRestInv ==
    ASSUME RunInv, ForgetRest
    PROVE  RunInv'
<1>0. /\ cm \in CmdSet /\ rcd \in RcdSet /\ cm.pc = "rmpubs" /\ UNCHANGED <<sbx, fwd, hom, rules, torn>>
      /\ sbx.st = "none" \/ "boot" \in torn
      /\ cm' = NoCmd
  BY DEF ForgetRest, At, RunInv, RunTypes, AtPlace, Ends
<1>1. rcd' \in RcdSet /\ rcd'.pubs = {}
  BY <1>0, NoCmdFacts DEF ForgetRest, RcdSet
<1>2. RunTypes' /\ HomeKept' /\ Told'
  BY <1>0, <1>1, NoCmdFacts DEF RunInv, RunTypes, HomeKept, Told
<1>3. AtPlace'
  BY <1>0, NoCmdFacts DEF AtPlace, Before, Clearing, Booted
<1>4. Forwarded'
  BY <1>0, <1>1, NoCmdFacts DEF Forwarded, Before, OneEach
<1> QED
  BY <1>2, <1>3, <1>4 DEF RunInv

\* What happens beside the commands.
LEMMA OthersInv ==
    ASSUME RunInv, Prune \/ RemovedOutside \/ Attach
    PROVE  RunInv'
<1>0. cm = NoCmd /\ cm' = cm /\ cm \in CmdSet /\ cm.pc = "idle" /\ cm.pubs = {} /\ rcd \in RcdSet /\ sbx \in SbxSet
  BY NoCmdFacts DEF Prune, RemovedOutside, Attach, RunInv, RunTypes
<1>1. AtPlace'
  BY <1>0, NoCmdFacts DEF AtPlace, Before, Clearing, Booted
<1>2. CASE Prune
  <2>1. /\ sbx.st = "none" /\ rcd' = NoRecord /\ rcd' \in RcdSet /\ rcd'.pubs = {}
        /\ UNCHANGED <<sbx, fwd, hom, rules, cm, torn>>
    BY <1>2, NoCmdFacts DEF Prune
  <2>2. RunTypes' /\ HomeKept' /\ Told'
    BY <2>1 DEF RunInv, RunTypes, HomeKept, Told
  <2>3. Forwarded'
    BY <1>0, <2>1, NoCmdFacts DEF Forwarded, Before, OneEach
  <2> QED
    BY <1>1, <2>2, <2>3 DEF RunInv
<1>3. CASE RemovedOutside
  <2>1. /\ sbx' \in SbxSet /\ sbx'.st = "none" /\ UNCHANGED <<fwd, rcd, hom, rules, cm, torn>>
    BY <1>3, NoCmdFacts DEF RemovedOutside
  <2>2. RunTypes' /\ HomeKept' /\ Told'
    BY <2>1 DEF RunInv, RunTypes, HomeKept, Told
  <2>3. Forwarded'
    BY <1>0, <2>1 DEF RunInv, Forwarded
  <2> QED
    BY <1>1, <2>2, <2>3 DEF RunInv
<1>4. CASE Attach
  <2>1. rules' \in BOOLEAN /\ UNCHANGED <<sbx, fwd, rcd, hom, cm, torn>>
    BY <1>4 DEF Attach
  <2>2. RunTypes' /\ HomeKept' /\ Told' /\ Forwarded'
    BY <2>1 DEF RunInv, RunTypes, HomeKept, Told, Forwarded
  <2> QED
    BY <1>1, <2>2 DEF RunInv
<1> QED
  BY <1>2, <1>3, <1>4

LEMMA GuestEndsInv ==
    ASSUME RunInv, GuestEnds
    PROVE  RunInv'
<1>0. /\ sbx \in SbxSet /\ sbx.st = "running" /\ UNCHANGED <<fwd, rcd, hom, rules, cm, torn>>
  BY DEF GuestEnds, RunInv, RunTypes
<1>1. /\ sbx' \in SbxSet /\ sbx'.st \in {"running", "stopped"} /\ sbx'.net = sbx.net /\ sbx'.proj = sbx.proj
      /\ sbx'.home = sbx.home
  BY <1>0 DEF GuestEnds, SbxSet
<1>2. RunTypes' /\ HomeKept' /\ Told'
  BY <1>0, <1>1 DEF RunInv, RunTypes, HomeKept, Told
<1>3. AtPlace'
  BY <1>0, <1>1 DEF RunInv, AtPlace, Narrowed, Asked
<1>4. Forwarded'
  BY <1>0, <1>1 DEF RunInv, Forwarded, Merged
<1> QED
  BY <1>2, <1>3, <1>4 DEF RunInv

\* A command that is killed leaves the forwards of the record, or torn ports, or a
\* boot that no record tells of.
LEMMA KilledInv ==
    ASSUME RunInv, Killed
    PROVE  RunInv'
<1>0. /\ Ends /\ UNCHANGED <<sbx, fwd, rcd, hom, rules>>
      /\ torn' = IF cm.pc \in {"published", "withdraw"} THEN torn \cup {"ports"} ELSE torn
      /\ torn' \in SUBSET {"boot", "ports"} /\ torn \subseteq torn' /\ fwd \in SUBSET Ports
      /\ cm \in CmdSet /\ cm.pc \in CmdPlaces
  BY DEF Killed, RunInv, RunTypes, CmdSet
<1>1. torn' = {} /\ sbx.st = "running" /\ sbx.net # "offline" => fwd = rcd.pubs
  BY <1>0 DEF RunInv, AtPlace, Forwarded, CmdPlaces, Before, Clearing, Booted
<1> QED
  BY <1>0, <1>1, EndsInv

LEMMA RunStep == RunInv /\ [RunNext]_runVars => RunInv'
<1> SUFFICES ASSUME RunInv, [RunNext]_runVars PROVE RunInv'
  OBVIOUS
<1>1. ASSUME NEW net \in {"none", "shared", "isolated", "offline"}, NEW proj \in Projects \cup {"none"},
             NEW given \in {"none", "given"}, NEW pubs \in {{}} \cup {{p} : p \in Ports},
             Load(net, proj, given, pubs)
      PROVE  RunInv'
  <2>1. net \in Nets \cup {"none"} /\ pubs \in SUBSET Ports /\ AtMostOne(pubs)
    BY DEF Nets, AtMostOne
  <2> QED
    BY <1>1, <2>1, LoadInv
<1>2. CASE Refuse \/ PrepareHome \/ Check \/ Clear \/ Verify \/ Forwards \/ Boot
  BY <1>2, RefuseInv, PrepareHomeInv, CheckInv, ClearInv, VerifyInv, ForwardsInv, BootHolds
<1>3. CASE RecordPubs \/ RecordPosture \/ RememberSession \/ KeepRecord
  BY <1>3, RecordPubsInv, RecordPostureInv, RememberSessionInv, KeepRecordInv
<1>4. CASE PublishForward \/ PublishRefused \/ PublishRecord
  BY <1>4, PublishForwardInv, PublishRefusedInv, PublishRecordInv
<1>5. ASSUME NEW p \in Ports, PublishPorts(p) \/ UnpublishPorts(p)
      PROVE  RunInv'
  BY <1>5, PublishPortsInv, UnpublishPortsInv
<1>6. CASE Withdraw \/ StopSandbox \/ RemoveBegin \/ RemoveHome \/ ForgetEntry \/ ForgetRest
  BY <1>6, WithdrawInv, StopSandboxInv, RemoveBeginInv, RemoveHomeInv, ForgetEntryInv, ForgetRestInv
<1>7. CASE Prune \/ GuestEnds \/ RemovedOutside \/ Attach \/ Killed
  BY <1>7, OthersInv, GuestEndsInv, KilledInv
<1>8. CASE UNCHANGED runVars
  BY <1>8 DEF runVars, RunInv, RunTypes, HomeKept, Told, AtPlace, Forwarded, Merged, Narrowed, Asked
<1> QED
  BY <1>1, <1>2, <1>3, <1>4, <1>5, <1>6, <1>7, <1>8 DEF RunNext

LEMMA RunAlways == RunSpec => []RunInv
  BY RunInitInv, RunStep, PTL DEF RunSpec

\* A sandbox on a temporary home keeps that home, whichever commands failed or
\* were killed before (reapOrphanHome, the cleanup of a failed run, Config.Remove).
THEOREM HomeStays == RunSpec => []HomeKept
<1>1. RunInv => HomeKept
  BY DEF RunInv
<1> QED
  BY <1>1, RunAlways, PTL

\* A run that keeps the sandbox which is up hands out what it asked for, and
\* between commands the gateway forwards the ports of the record, unless a torn
\* boot or torn ports are left (EnsureRunning, NetworkStale, Publish, Unpublish).
THEOREM KeptFits == RunSpec => []ReuseFits
<1>1. RunInv => ReuseFits
  BY NoCmdFacts DEF RunInv, AtPlace, Forwarded, ReuseFits, OneEach
<1> QED
  BY <1>1, RunAlways, PTL

-----------------------------------------------------------------------------
(* The egress filter. *)

-----------------------------------------------------------------------------
(* Boots and stops: the types *)

Ops == {"none", "run", "runopen", "stop", "remove", "prune"}
Places == {"idle", "run", "runopen", "stop", "remove", "prune", "lock", "check", "start",
           "starting", "stopold", "nerdctl", "up", "droplock", "drop", "delete"}
BrigSet == [op : Ops, pc : Places, table : BOOLEAN]
CtrSet == [state : {"none", "running", "stopped"}, ruled : BOOLEAN]

BootTypes ==
    /\ brig \in [Brigs -> BrigSet]
    /\ ctr \in CtrSet
    /\ lck \in Brigs \cup {"nobody"}
    /\ tab \in BOOLEAN /\ raced \in BOOLEAN

(* Where a process has the lock of the sandbox, and where it may have it. *)
Locked == {"check", "start", "starting", "up", "drop", "delete"}
HeldBy(p) == brig[p].pc \in Locked \/ (brig[p].pc = "nerdctl" /\ brig[p].op = "run")

(* The places of a boot with rules, and of one without. *)
PlaceOK(b) == /\ b.pc \in {"start", "starting", "up"} => b.op = "run"
              /\ b.pc = "stopold" => b.op # "run"

(* The lock is with the process that is at one of these places, and a process
   that has it is at one of these or is a boot without rules that looked again
   under it. *)
LockInv ==
    \A p \in Brigs : /\ HeldBy(p) => lck = p
                     /\ lck = p => HeldBy(p) \/ brig[p].pc \in {"stopold", "nerdctl"}
                     /\ PlaceOK(brig[p])

(* A sandbox that was booted under rules runs. *)
Filtered == ctr.state = "running" /\ ctr.ruled

(* What a process that saw the sandbox stopped under the lock knows of it until
   it gives the lock back, and what a boot with rules knows of its table. *)
SeenInv ==
    \A p \in Brigs : /\ brig[p].pc \in {"start", "starting", "delete"} => ~Filtered
                     /\ brig[p].pc = "stopold" /\ lck = p => ~Filtered
                     /\ brig[p].pc = "nerdctl" /\ brig[p].op = "run" => tab \/ raced

BootInv == BootTypes /\ LockInv /\ SeenInv /\ RunningFiltered

-----------------------------------------------------------------------------
(* One process moves *)

(* Only p moves, and the lock stays unless p takes it or gives it back. *)
Moves(p) ==
    /\ brig' \in [Brigs -> BrigSet]
    /\ \A q \in Brigs \ {p} : brig'[q] = brig[q]

(* p goes on, with the lock as it was, takes it, or is done and gives it back. *)
Stays(p) ==
    /\ lck' = lck
    /\ HeldBy(p)' => lck = p
    /\ lck = p => HeldBy(p)' \/ brig'[p].pc \in {"stopold", "nerdctl"}
Takes(p) == lck = "nobody" /\ lck' = p /\ HeldBy(p)'
BrigEnds(p) == /\ brig'[p].pc = "idle" /\ brig'[p].op = "none"
           /\ lck' = IF lck = p THEN "nobody" ELSE lck

LEMMA NoBrigType == NoBrig \in BrigSet /\ NoBrig.pc = "idle" /\ NoBrig.op = "none"
  BY DEF NoBrig, BrigSet, Ops, Places

LEMMA GoesOn ==
    ASSUME BootTypes, NEW p \in Brigs, NEW l \in Places, Goes(p, l)
    PROVE  Moves(p) /\ lck' = lck /\ brig'[p].pc = l /\ brig'[p].op = brig[p].op
<1>1. l # "done" BY DEF Places
<1>2. brig' = [brig EXCEPT ![p] = [brig[p] EXCEPT !.pc = l]] /\ lck' = lck
  BY <1>1 DEF Goes
<1>3. brig[p] \in BrigSet BY DEF BootTypes
<1>4. /\ [brig[p] EXCEPT !.pc = l] \in BrigSet
      /\ [brig[p] EXCEPT !.pc = l].pc = l
      /\ [brig[p] EXCEPT !.pc = l].op = brig[p].op
  BY <1>3 DEF BrigSet
<1> DEFINE k == [brig[p] EXCEPT !.pc = l]
<1> HIDE DEF k
<1> QED BY <1>2, <1>4 DEF k, Moves, BootTypes

LEMMA GoesDone ==
    ASSUME BootTypes, NEW p \in Brigs, Goes(p, "done")
    PROVE  Moves(p) /\ BrigEnds(p)
<1>1. brig' = [brig EXCEPT ![p] = NoBrig] /\ lck' = IF lck = p THEN "nobody" ELSE lck
  BY DEF Goes
<1> QED BY <1>1, NoBrigType DEF Moves, BrigEnds, BootTypes

LEMMA LockStep ==
    ASSUME BootTypes, LockInv, NEW p \in Brigs, Moves(p), Stays(p) \/ Takes(p) \/ BrigEnds(p),
           PlaceOK(brig'[p])
    PROVE  LockInv' /\ lck' \in Brigs \cup {"nobody"}
<1>1. \A q \in Brigs \ {p} : HeldBy(q)' <=> HeldBy(q)
  BY DEF Moves, HeldBy
<1>2. BrigEnds(p) => ~HeldBy(p)'
  BY DEF BrigEnds, HeldBy, Locked
<1>3. lck' \in Brigs \cup {"nobody"} /\ p # "nobody"
  BY BootAssumption DEF BootTypes, Stays, Takes, BrigEnds
<1>4. ASSUME NEW q \in Brigs
      PROVE  /\ HeldBy(q)' => lck' = q
             /\ lck' = q => HeldBy(q)' \/ brig'[q].pc \in {"stopold", "nerdctl"}
             /\ PlaceOK(brig'[q])
  <2>1. q # "nobody" BY BootAssumption
  <2>2. CASE q = p
    BY <1>2, <1>3, <2>2 DEF Stays, Takes, BrigEnds
  <2>3. CASE q # p
    <3>1. brig'[q] = brig[q] /\ (HeldBy(q)' <=> HeldBy(q))
      BY <1>1, <2>3 DEF Moves
    <3>2. lck = q => lck' = q
      BY <2>1, <2>3 DEF Stays, Takes, BrigEnds
    <3>3. lck' = q => lck = q
      BY <2>1, <2>3 DEF Stays, Takes, BrigEnds
    <3> QED BY <3>1, <3>2, <3>3 DEF LockInv
  <2> QED BY <2>2, <2>3
<1> QED BY <1>3, <1>4 DEF LockInv

(* What p does to the container and to the table, it does under the lock or
   leaves what the others know true. *)
LEMMA SeenStep ==
    ASSUME BootTypes, LockInv, SeenInv, NEW p \in Brigs, Moves(p),
           Stays(p) \/ Takes(p) \/ BrigEnds(p),
           Filtered' => Filtered \/ HeldBy(p),
           tab => tab' \/ raced' \/ lck = p,
           raced => raced',
           brig'[p].pc \in {"start", "starting", "delete"} => ~Filtered',
           brig'[p].pc = "stopold" /\ lck' = p => ~Filtered',
           brig'[p].pc = "nerdctl" /\ brig'[p].op = "run" => tab' \/ raced'
    PROVE  SeenInv'
<1>1. ASSUME NEW q \in Brigs, q # p
      PROVE  /\ brig'[q].pc \in {"start", "starting", "delete"} => ~Filtered'
             /\ brig'[q].pc = "stopold" /\ lck' = q => ~Filtered'
             /\ brig'[q].pc = "nerdctl" /\ brig'[q].op = "run" => tab' \/ raced'
  <2>1. brig'[q] = brig[q] /\ q # "nobody"
    BY <1>1, BootAssumption DEF Moves
  <2>2. lck' = q => lck = q
    BY <1>1, <2>1 DEF Stays, Takes, BrigEnds
  <2>3. brig[q].pc \in {"start", "starting", "delete"} => lck = q
    BY DEF LockInv, HeldBy, Locked
  <2>4. brig[q].pc = "nerdctl" /\ brig[q].op = "run" => lck = q
    BY DEF LockInv, HeldBy
  <2>5. lck = q => ~HeldBy(p)
    BY <1>1 DEF LockInv
  <2>6. brig'[q].pc \in {"start", "starting", "delete"} => ~Filtered'
    BY <2>1, <2>3, <2>5 DEF SeenInv
  <2>7. brig'[q].pc = "stopold" /\ lck' = q => ~Filtered'
    BY <2>1, <2>2, <2>5 DEF SeenInv
  <2>8. brig'[q].pc = "nerdctl" /\ brig'[q].op = "run" => tab' \/ raced'
    BY <1>1, <2>1, <2>4 DEF SeenInv
  <2> QED BY <2>6, <2>7, <2>8
<1> QED BY <1>1 DEF SeenInv

(* The two together; the container and the table are all that is left to say. *)
LEMMA OneMoves ==
    ASSUME BootInv, NEW p \in Brigs, Moves(p), Stays(p) \/ Takes(p) \/ BrigEnds(p),
           PlaceOK(brig'[p]),
           ctr' \in CtrSet, tab' \in BOOLEAN, raced' \in BOOLEAN,
           Filtered' => Filtered \/ HeldBy(p),
           tab => tab' \/ raced' \/ lck = p,
           raced => raced',
           brig'[p].pc \in {"start", "starting", "delete"} => ~Filtered',
           brig'[p].pc = "stopold" /\ lck' = p => ~Filtered',
           brig'[p].pc = "nerdctl" /\ brig'[p].op = "run" => tab' \/ raced',
           RunningFiltered'
    PROVE  BootInv'
<1>1. LockInv' /\ lck' \in Brigs \cup {"nobody"}
  BY LockStep DEF BootInv
<1>2. SeenInv'
  BY SeenStep DEF BootInv
<1>3. BootTypes'
  BY <1>1 DEF BootTypes, Moves
<1> QED BY <1>1, <1>2, <1>3 DEF BootInv

(* A process that moves and leaves the container, the table and raced alone. *)
LEMMA OnlyMoves ==
    ASSUME BootInv, NEW p \in Brigs, Moves(p), Stays(p) \/ Takes(p) \/ BrigEnds(p),
           PlaceOK(brig'[p]),
           UNCHANGED <<ctr, tab, raced>>,
           brig'[p].pc \in {"start", "starting", "delete"} => ~Filtered,
           brig'[p].pc = "stopold" /\ lck' = p => ~Filtered,
           brig'[p].pc = "nerdctl" /\ brig'[p].op = "run" => tab \/ raced
    PROVE  BootInv'
<1>1. (Filtered' <=> Filtered) /\ (RunningFiltered' <=> RunningFiltered)
  BY DEF Filtered, RunningFiltered
<1>2. ctr' \in CtrSet /\ tab' \in BOOLEAN /\ raced' \in BOOLEAN /\ RunningFiltered
  BY DEF BootInv, BootTypes
<1> QED BY <1>1, <1>2, OneMoves
-----------------------------------------------------------------------------
(* The actions *)

(* stopEgress takes away no table of a sandbox that has no records. *)
LEMMA StopTable ==
    ASSUME tab \in BOOLEAN, NEW gone \in BOOLEAN, stopEgress(gone)
    PROVE  tab' \in BOOLEAN /\ (~hasEgressFiles => tab' = tab)
  BY DEF stopEgress, hasEgressFiles, hasEgressRecord

LEMMA DropTable ==
    ASSUME tab \in BOOLEAN, dropEgressLocked
    PROVE  tab' \in BOOLEAN /\ (ctr.state = "running" => tab' = tab)
  BY StopTable DEF dropEgressLocked, Confirmed

(* Where the sandbox does not run under rules, nothing is owed. *)
LEMMA NotFiltered ==
    ASSUME ~Filtered
    PROVE  RunningFiltered
  BY DEF Filtered, RunningFiltered

LEMMA BeginInv ==
    ASSUME BootInv, NEW p \in Brigs, NEW op \in Ops \ {"none"}, Begin(p, op)
    PROVE  BootInv'
<1> DEFINE k == [op |-> op, pc |-> op, table |-> FALSE]
<1>1. brig' = [brig EXCEPT ![p] = k] /\ UNCHANGED <<ctr, tab, raced, lck>> /\ brig[p].pc = "idle"
  BY DEF Begin
<1>2. k \in BrigSet /\ k.pc = op /\ k.op = op
  BY DEF BrigSet, Ops, Places
<1> HIDE DEF k
<1>3. Moves(p) /\ brig'[p] = k
  BY <1>1, <1>2 DEF Moves, BootInv, BootTypes
<1>4. ~HeldBy(p)' /\ k.pc \notin {"start", "starting", "up", "delete", "stopold", "nerdctl"}
  BY <1>2, <1>3 DEF HeldBy, Locked, Ops
<1>5. ~HeldBy(p)
  BY <1>1 DEF HeldBy, Locked
<1>6. lck # p
  BY <1>1, <1>5 DEF BootInv, LockInv
<1>7. Stays(p)
  BY <1>1, <1>4, <1>6 DEF Stays
<1> QED BY <1>1, <1>3, <1>4, <1>7, OnlyMoves DEF PlaceOK

LEMMA BootLookInv ==
    ASSUME BootInv, NEW p \in Brigs, BootLook(p)
    PROVE  BootInv'
<1>0. BootTypes /\ LockInv BY DEF BootInv
<1>1. brig[p].pc \in {"run", "runopen"} /\ UNCHANGED <<ctr, tab, raced>>
  BY DEF BootLook
<1>2. lck # p
  BY <1>0, <1>1 DEF LockInv, HeldBy, Locked
<1>3. PICK l \in {"lock", "stopold"} : Goes(p, l) /\ (l = "stopold" => ~Managed(p))
  BY DEF BootLook
<1>4. l \in Places BY DEF Places
<1>5. Moves(p) /\ lck' = lck /\ brig'[p].pc = l /\ brig'[p].op = brig[p].op
  BY <1>0, <1>3, <1>4, GoesOn
<1>6. Stays(p)
  BY <1>2, <1>5 DEF Stays, HeldBy, Locked
<1> QED BY <1>1, <1>2, <1>3, <1>5, <1>6, OnlyMoves DEF PlaceOK, Managed

LEMMA LockTaken ==
    ASSUME BootInv, NEW p \in Brigs, NEW l \in {"check", "drop"}, lck = "nobody", lck' = p,
           brig' = [brig EXCEPT ![p].pc = l], UNCHANGED <<ctr, tab, raced>>
    PROVE  BootInv'
<1>1. brig[p] \in BrigSet /\ l \in Places
  BY DEF BootInv, BootTypes, Places
<1> DEFINE k == [brig[p] EXCEPT !.pc = l]
<1>2. k \in BrigSet /\ k.pc = l
  BY <1>1 DEF BrigSet
<1>3. brig' = [brig EXCEPT ![p] = k]
  OBVIOUS
<1> HIDE DEF k
<1>4. Moves(p) /\ brig'[p] = k
  BY <1>2, <1>3 DEF Moves, BootInv, BootTypes
<1>5. Takes(p)
  BY <1>2, <1>4 DEF Takes, HeldBy, Locked
<1> QED BY <1>2, <1>4, <1>5, OnlyMoves DEF PlaceOK

LEMMA BootCheckInv ==
    ASSUME BootInv, NEW p \in Brigs, BootCheck(p)
    PROVE  BootInv'
<1>0. BootTypes /\ LockInv BY DEF BootInv
<1>1. brig[p].pc = "check" /\ UNCHANGED <<ctr, tab, raced>>
  BY DEF BootCheck
<1>2. lck = p
  BY <1>0, <1>1 DEF LockInv, HeldBy, Locked
<1>3. CASE Goes(p, "done")
  BY <1>0, <1>1, <1>3, GoesDone, OnlyMoves DEF BrigEnds, PlaceOK
<1>4. CASE ctr.state # "running" /\ Goes(p, IF Managed(p) THEN "start" ELSE "stopold")
  <2>1. PICK l \in {"start", "stopold"} : Goes(p, l) /\ (l = "start" <=> Managed(p))
    BY <1>4
  <2>2. l \in Places BY DEF Places
  <2>3. Moves(p) /\ lck' = lck /\ brig'[p].pc = l /\ brig'[p].op = brig[p].op
    BY <1>0, <2>1, <2>2, GoesOn
  <2>4. Stays(p)
    BY <1>2, <2>3 DEF Stays, HeldBy, Locked
  <2>5. ~Filtered BY <1>4 DEF Filtered
  <2> QED BY <1>1, <2>1, <2>3, <2>4, <2>5, OnlyMoves DEF Managed, PlaceOK
<1> QED BY <1>3, <1>4 DEF BootCheck

(* A process that has the lock and has seen the sandbox stopped may do what it
   wants to the table. *)
LEMMA Seen ==
    ASSUME BootInv, NEW p \in Brigs, Moves(p), Stays(p) \/ BrigEnds(p), lck = p, ~Filtered,
           UNCHANGED <<ctr, raced>>, tab' \in BOOLEAN,
           PlaceOK(brig'[p]),
           brig'[p].pc = "nerdctl" /\ brig'[p].op = "run" => tab' \/ raced'
    PROVE  BootInv'
<1>1. ~Filtered' BY DEF Filtered
<1>2. RunningFiltered' BY <1>1 DEF Filtered, RunningFiltered
<1>3. ctr' \in CtrSet /\ raced' \in BOOLEAN BY DEF BootInv, BootTypes
<1> QED BY <1>1, <1>2, <1>3, OneMoves

LEMMA BootStartInv ==
    ASSUME BootInv, NEW p \in Brigs, BootStart(p)
    PROVE  BootInv'
<1>0. BootTypes /\ LockInv /\ SeenInv BY DEF BootInv
<1>1. brig[p].pc = "start" /\ UNCHANGED <<ctr, raced>>
  BY DEF BootStart
<1>2. lck = p /\ ~Filtered /\ brig[p].op = "run"
  BY <1>0, <1>1 DEF LockInv, PlaceOK, SeenInv, HeldBy, Locked
<1>3. PICK gone \in BOOLEAN : stopEgress(gone) /\ Goes(p, IF gone THEN "starting" ELSE "done")
  BY DEF BootStart
<1>4. tab' \in BOOLEAN
  BY <1>0, <1>3, StopTable DEF BootTypes
<1>5. CASE gone
  <2>1. Goes(p, "starting") /\ "starting" \in Places
    BY <1>3, <1>5 DEF Places
  <2>2. Moves(p) /\ lck' = lck /\ brig'[p].pc = "starting" /\ brig'[p].op = brig[p].op
    BY <1>0, <2>1, GoesOn
  <2>3. Stays(p) BY <1>2, <2>2 DEF Stays, HeldBy, Locked
  <2> QED BY <1>1, <1>2, <1>4, <2>2, <2>3, Seen DEF PlaceOK
<1>6. CASE ~gone
  <2>1. Moves(p) /\ BrigEnds(p)
    BY <1>0, <1>3, <1>6, GoesDone
  <2> QED BY <1>1, <1>2, <1>4, <2>1, Seen DEF BrigEnds, PlaceOK
<1> QED BY <1>5, <1>6

LEMMA BootStartedInv ==
    ASSUME BootInv, NEW p \in Brigs, BootStarted(p)
    PROVE  BootInv'
<1>0. BootTypes /\ LockInv /\ SeenInv BY DEF BootInv
<1>1. brig[p].pc = "starting" /\ UNCHANGED <<ctr, raced>> /\ tab' \in BOOLEAN
  BY DEF BootStarted
<1>2. lck = p /\ ~Filtered /\ brig[p].op = "run"
  BY <1>0, <1>1 DEF LockInv, PlaceOK, SeenInv, HeldBy, Locked
<1>3. CASE tab' = TRUE /\ Goes(p, "nerdctl")
  <2>1. "nerdctl" \in Places BY DEF Places
  <2>2. Moves(p) /\ lck' = lck /\ brig'[p].pc = "nerdctl" /\ brig'[p].op = brig[p].op
    BY <1>0, <1>3, <2>1, GoesOn
  <2>3. Stays(p) BY <1>2, <2>2 DEF Stays, HeldBy, Locked
  <2> QED BY <1>1, <1>2, <1>3, <2>2, <2>3, Seen DEF PlaceOK
<1>4. CASE Goes(p, "done")
  BY <1>0, <1>1, <1>2, <1>4, GoesDone, Seen DEF BrigEnds, PlaceOK
<1> QED BY <1>3, <1>4 DEF BootStarted

LEMMA BootStopOldInv ==
    ASSUME BootInv, NEW p \in Brigs, BootStopOld(p)
    PROVE  BootInv'
<1>0. BootTypes /\ LockInv /\ SeenInv /\ RunningFiltered BY DEF BootInv
<1>9. brig[p].op # "run"
  BY <1>0 DEF BootStopOld, LockInv, PlaceOK
<1>1. brig[p].pc = "stopold" /\ UNCHANGED ctr /\ raced' = (raced \/ (lck # p /\ hasEgressFiles))
  BY DEF BootStopOld
<1>2. PICK gone \in BOOLEAN : stopEgress(gone) /\ Goes(p, IF gone THEN "nerdctl" ELSE "done")
  BY DEF BootStopOld
<1>3. tab' \in BOOLEAN /\ (~hasEgressFiles => tab' = tab)
  BY <1>0, <1>2, StopTable DEF BootTypes
<1>4. /\ Moves(p) /\ (Stays(p) \/ BrigEnds(p))
      /\ brig'[p].pc \in {"nerdctl", "idle"} /\ brig'[p].op # "run"
  <2>1. CASE gone
    <3>1. Goes(p, "nerdctl") /\ "nerdctl" \in Places
      BY <1>2, <2>1 DEF Places
    <3>2. Moves(p) /\ lck' = lck /\ brig'[p].pc = "nerdctl" /\ brig'[p].op = brig[p].op
      BY <1>0, <3>1, GoesOn
    <3> QED BY <1>9, <3>2 DEF Stays, HeldBy, Locked
  <2>2. CASE ~gone
    BY <1>0, <1>2, <2>2, GoesDone DEF BrigEnds
  <2> QED BY <2>1, <2>2
<1>5. raced' \in BOOLEAN /\ ctr' \in CtrSet
  BY <1>0, <1>1 DEF BootTypes
<1>6. (raced => raced') /\ (Filtered' <=> Filtered)
  BY <1>1 DEF Filtered
<1>7. tab => tab' \/ raced' \/ lck = p
  BY <1>1, <1>3
<1>8. RunningFiltered'
  <2>1. lck = p => ~Filtered
    BY <1>0, <1>1 DEF SeenInv
  <2> QED BY <1>0, <1>1, <1>6, <1>7, <2>1 DEF RunningFiltered, Filtered
<1> QED BY <1>3, <1>4, <1>5, <1>6, <1>7, <1>8, OneMoves DEF PlaceOK
LEMMA BootRunInv ==
    ASSUME BootInv, NEW p \in Brigs, BootRun(p)
    PROVE  BootInv'
<1>0. BootTypes /\ LockInv /\ SeenInv /\ RunningFiltered BY DEF BootInv
<1>1. brig[p].pc = "nerdctl" /\ UNCHANGED raced
  BY DEF BootRun
<1>2. Managed(p) => HeldBy(p) /\ lck = p /\ (tab \/ raced)
  BY <1>0, <1>1 DEF Managed, HeldBy, LockInv, SeenInv
<1>3. CASE /\ ctr.state = "none"
           /\ ctr' = [state |-> "running", ruled |-> Managed(p)]
           /\ Goes(p, IF Managed(p) THEN "up" ELSE "done")
           /\ UNCHANGED <<res, tab, recs>>
  <2>1. ctr' \in CtrSet /\ tab' \in BOOLEAN /\ raced' \in BOOLEAN
    BY <1>0, <1>1, <1>3, Zenon DEF BootTypes, CtrSet, Managed
  <2>2. Filtered' => Managed(p)
    BY <1>3 DEF Filtered
  <2>3. RunningFiltered'
    BY <1>1, <1>2, <1>3, <2>2 DEF RunningFiltered, Filtered
  <2>4. CASE Managed(p)
    <3>1. Goes(p, "up") /\ "up" \in Places
      BY <1>3, <2>4 DEF Places
    <3>2. Moves(p) /\ lck' = lck /\ brig'[p].pc = "up" /\ brig'[p].op = brig[p].op
      BY <1>0, <3>1, GoesOn
    <3>3. Stays(p) BY <1>2, <2>4, <3>2 DEF Stays, HeldBy, Locked
    <3>4. brig[p].op = "run" BY <2>4 DEF Managed
    <3> QED BY <1>1, <1>2, <1>3, <2>1, <2>2, <2>3, <2>4, <3>2, <3>3, <3>4, OneMoves DEF PlaceOK
  <2>5. CASE ~Managed(p)
    <3>1. Moves(p) /\ BrigEnds(p)
      BY <1>0, <1>3, <2>5, GoesDone
    <3> QED BY <1>1, <1>3, <2>1, <2>2, <2>3, <2>5, <3>1, OneMoves DEF PlaceOK, BrigEnds
  <2> QED BY <2>4, <2>5
<1>4. CASE /\ IF Managed(p) THEN dropEgressLocked ELSE UNCHANGED <<res, tab, recs>>
           /\ Goes(p, "done")
           /\ UNCHANGED ctr
  <2>1. Moves(p) /\ BrigEnds(p)
    BY <1>0, <1>4, GoesDone
  <2>2. tab' \in BOOLEAN /\ (~Managed(p) \/ ctr.state = "running" => tab' = tab)
    BY <1>0, <1>4, DropTable DEF BootTypes
  <2>3. ctr' \in CtrSet /\ raced' \in BOOLEAN /\ (Filtered' <=> Filtered)
    BY <1>0, <1>1, <1>4 DEF BootTypes, Filtered
  <2>4. RunningFiltered'
    BY <1>0, <1>1, <1>4, <2>2 DEF RunningFiltered
  <2>5. tab => tab' \/ raced' \/ lck = p
    BY <1>2, <2>2
  <2> QED BY <1>1, <2>1, <2>2, <2>3, <2>4, <2>5, OneMoves DEF PlaceOK, BrigEnds
<1> QED BY <1>3, <1>4 DEF BootRun

(* A sandbox that stops or goes leaves nothing owed. *)
LEMMA StopInv ==
    ASSUME BootInv, NEW p \in Brigs, Moves(p), Stays(p) \/ BrigEnds(p),
           ctr' \in CtrSet, Filtered' => Filtered /\ ctr' = ctr, UNCHANGED <<tab, raced>>,
           brig'[p].pc \in {"idle", "drop", "droplock"}
    PROVE  BootInv'
<1>1. tab' \in BOOLEAN /\ raced' \in BOOLEAN
  BY DEF BootInv, BootTypes
<1>2. RunningFiltered'
  BY DEF BootInv, RunningFiltered, Filtered
<1>3. PlaceOK(brig'[p])
  BY DEF PlaceOK
<1> QED BY <1>1, <1>2, <1>3, OneMoves

LEMMA BootUpInv ==
    ASSUME BootInv, NEW p \in Brigs, BootUp(p)
    PROVE  BootInv'
<1>0. BootTypes /\ LockInv BY DEF BootInv
<1>1. brig[p].pc = "up" /\ UNCHANGED <<tab, raced>>
  BY DEF BootUp
<1>2. lck = p
  BY <1>0, <1>1 DEF LockInv, HeldBy, Locked
<1>3. CASE Goes(p, "done") /\ UNCHANGED ctr
  BY <1>0, <1>1, <1>3, GoesDone, OnlyMoves DEF BrigEnds, PlaceOK
<1>4. CASE ctr' = [state |-> "none", ruled |-> FALSE] /\ Goes(p, "drop")
  <2>1. "drop" \in Places BY DEF Places
  <2>2. Moves(p) /\ lck' = lck /\ brig'[p].pc = "drop"
    BY <1>0, <1>4, <2>1, GoesOn
  <2>3. Stays(p) BY <1>2, <2>2 DEF Stays, HeldBy, Locked
  <2>4. ctr' \in CtrSet /\ ~Filtered'
    BY <1>4 DEF CtrSet, Filtered
  <2> QED BY <1>1, <2>2, <2>3, <2>4, StopInv
<1> QED BY <1>3, <1>4 DEF BootUp

LEMMA StopCtrInv ==
    ASSUME BootInv, NEW p \in Brigs, StopCtr(p)
    PROVE  BootInv'
<1>0. BootTypes /\ LockInv BY DEF BootInv
<1>1. brig[p].pc \in {"stop", "remove"} /\ UNCHANGED <<tab, raced>>
  BY DEF StopCtr
<1>2. lck # p
  BY <1>0, <1>1 DEF LockInv, HeldBy, Locked
<1>3. ctr' \in CtrSet /\ (ctr' = ctr \/ ~Filtered')
  <2>1. ctr \in CtrSet BY <1>0 DEF BootTypes
  <2> DEFINE a == [ctr EXCEPT !.state = "stopped"]
             b == [state |-> "none", ruled |-> FALSE]
  <2>2. a \in CtrSet /\ a.state = "stopped"
    BY <2>1 DEF CtrSet
  <2>3. b \in CtrSet /\ b.state = "none"
    BY DEF CtrSet
  <2>4. ctr' = ctr \/ ctr' = a \/ ctr' = b
    BY DEF StopCtr
  <2> HIDE DEF a, b
  <2>5. ctr' = ctr \/ ctr'.state = "stopped" \/ ctr'.state = "none"
    BY <2>2, <2>3, <2>4
  <2>6. ctr' \in CtrSet
    BY <2>1, <2>2, <2>3, <2>4
  <2> QED BY <2>5, <2>6 DEF Filtered
<1>4. Filtered' => Filtered /\ ctr' = ctr
  BY <1>3 DEF Filtered
<1>5. CASE Goes(p, "droplock")
  <2>1. "droplock" \in Places BY DEF Places
  <2>2. Moves(p) /\ lck' = lck /\ brig'[p].pc = "droplock"
    BY <1>0, <1>5, <2>1, GoesOn
  <2>3. Stays(p) BY <1>2, <2>2 DEF Stays, HeldBy, Locked
  <2> QED BY <1>1, <1>3, <1>4, <2>2, <2>3, StopInv
<1>6. CASE Goes(p, "done")
  BY <1>0, <1>1, <1>3, <1>4, <1>6, GoesDone, StopInv DEF BrigEnds
<1> QED BY <1>5, <1>6 DEF StopCtr

LEMMA DropInv ==
    ASSUME BootInv, NEW p \in Brigs, Drop(p)
    PROVE  BootInv'
<1>0. BootTypes /\ LockInv /\ RunningFiltered BY DEF BootInv
<1>1. brig[p].pc = "drop" /\ UNCHANGED <<ctr, raced>> /\ dropEgressLocked /\ Goes(p, "done")
  BY DEF Drop
<1>2. lck = p
  BY <1>0, <1>1 DEF LockInv, HeldBy, Locked
<1>3. Moves(p) /\ BrigEnds(p)
  BY <1>0, <1>1, GoesDone
<1>4. tab' \in BOOLEAN /\ (ctr.state = "running" => tab' = tab)
  BY <1>0, <1>1, DropTable DEF BootTypes
<1>5. CASE ctr.state = "running"
  BY <1>1, <1>3, <1>4, <1>5, OnlyMoves DEF BrigEnds, PlaceOK
<1>6. CASE ctr.state # "running"
  <2>1. ~Filtered BY <1>6 DEF Filtered
  <2> QED BY <1>1, <1>2, <1>3, <1>4, <2>1, Seen DEF BrigEnds, PlaceOK
<1> QED BY <1>5, <1>6

LEMMA PruneLookInv ==
    ASSUME BootInv, NEW p \in Brigs, PruneLook(p)
    PROVE  BootInv'
<1>0. BootTypes /\ LockInv BY DEF BootInv
<1>1. brig[p].pc = "prune" /\ UNCHANGED <<ctr, tab, raced>>
  BY DEF PruneLook
<1>2. lck # p
  BY <1>0, <1>1 DEF LockInv, HeldBy, Locked
<1>3. CASE Goes(p, "done")
  BY <1>0, <1>1, <1>3, GoesDone, OnlyMoves DEF BrigEnds, PlaceOK
<1>4. CASE brig' = [brig EXCEPT ![p] = [@ EXCEPT !.pc = "droplock", !.table = tab]] /\ UNCHANGED lck
  <2> DEFINE k == [brig[p] EXCEPT !.pc = "droplock", !.table = tab]
  <2>1. k \in BrigSet /\ k.pc = "droplock"
    <3>1. brig[p] \in BrigSet /\ tab \in BOOLEAN BY <1>0 DEF BootTypes
    <3> QED BY <3>1 DEF BrigSet, Places
  <2>2. brig' = [brig EXCEPT ![p] = k]
    BY <1>4
  <2> HIDE DEF k
  <2>3. Moves(p) /\ brig'[p] = k
    BY <1>0, <2>1, <2>2 DEF Moves, BootTypes
  <2>4. Stays(p) BY <1>2, <1>4, <2>1, <2>3 DEF Stays, HeldBy, Locked
  <2> QED BY <1>1, <2>1, <2>3, <2>4, OnlyMoves DEF PlaceOK
<1> QED BY <1>3, <1>4 DEF PruneLook

LEMMA PruneDropInv ==
    ASSUME BootInv, NEW p \in Brigs, PruneDrop(p)
    PROVE  BootInv'
<1>0. BootTypes /\ LockInv BY DEF BootInv
<1>1. brig[p].pc = "drop" /\ UNCHANGED <<ctr, raced>>
  BY DEF PruneDrop
<1>2. lck = p
  BY <1>0, <1>1 DEF LockInv, HeldBy, Locked
<1>3. CASE /\ Confirmed
           /\ \E gone \in BOOLEAN : stopEgress(gone)
           /\ Goes(p, IF brig[p].table THEN "delete" ELSE "done")
  <2>1. ~Filtered BY <1>3 DEF Confirmed, Filtered
  <2>2. tab' \in BOOLEAN BY <1>0, <1>3, StopTable DEF BootTypes
  <2>3. CASE Goes(p, "delete")
    <3>1. "delete" \in Places BY DEF Places
    <3>2. Moves(p) /\ lck' = lck /\ brig'[p].pc = "delete"
      BY <1>0, <2>3, <3>1, GoesOn
    <3>3. Stays(p) BY <1>2, <3>2 DEF Stays, HeldBy, Locked
    <3> QED BY <1>1, <1>2, <2>1, <2>2, <3>2, <3>3, Seen DEF PlaceOK
  <2>4. CASE Goes(p, "done")
    BY <1>0, <1>1, <1>2, <2>1, <2>2, <2>4, GoesDone, Seen DEF BrigEnds, PlaceOK
  <2> QED BY <1>3, <2>3, <2>4
<1>4. CASE Goes(p, "done") /\ UNCHANGED <<res, tab, recs>>
  BY <1>0, <1>1, <1>4, GoesDone, OnlyMoves DEF BrigEnds, PlaceOK
<1> QED BY <1>3, <1>4 DEF PruneDrop

LEMMA PruneDeleteInv ==
    ASSUME BootInv, NEW p \in Brigs, PruneDelete(p)
    PROVE  BootInv'
<1>0. BootTypes /\ LockInv /\ SeenInv BY DEF BootInv
<1>1. brig[p].pc = "delete" /\ UNCHANGED <<ctr, raced>> /\ Goes(p, "done") /\ tab' \in {FALSE, tab}
  BY DEF PruneDelete
<1>2. lck = p /\ ~Filtered
  BY <1>0, <1>1 DEF LockInv, SeenInv, HeldBy, Locked
<1>3. tab' \in BOOLEAN
  BY <1>0, <1>1 DEF BootTypes
<1> QED BY <1>0, <1>1, <1>2, <1>3, GoesDone, Seen DEF BrigEnds, PlaceOK

(* The container ends, or the resolver dies: no process moves. *)
LEMMA NoneMoves ==
    ASSUME BootInv, UNCHANGED <<brig, lck, tab, raced>>, ctr' \in CtrSet,
           Filtered' => Filtered /\ ctr' = ctr
    PROVE  BootInv'
<1>1. BootTypes' BY DEF BootInv, BootTypes
<1>2. LockInv' BY DEF BootInv, LockInv, HeldBy
<1>3. SeenInv' BY DEF BootInv, SeenInv
<1>4. RunningFiltered' BY DEF BootInv, RunningFiltered, Filtered
<1> QED BY <1>1, <1>2, <1>3, <1>4 DEF BootInv

LEMMA BootInitInv == BootInit => BootInv
<1> SUFFICES ASSUME BootInit PROVE BootInv
  OBVIOUS
<1>1. BootTypes
  BY NoBrigType DEF BootInit, BootTypes, CtrSet
<1>2. LockInv
  BY NoBrigType, BootAssumption DEF BootInit, LockInv, HeldBy, Locked, PlaceOK
<1>3. SeenInv
  BY NoBrigType DEF BootInit, SeenInv
<1>4. RunningFiltered
  BY DEF BootInit, RunningFiltered
<1> QED BY <1>1, <1>2, <1>3, <1>4 DEF BootInv

LEMMA BootStep == BootInv /\ [BootNext]_bootVars => BootInv'
<1> SUFFICES ASSUME BootInv, [BootNext]_bootVars PROVE BootInv'
  OBVIOUS
<1>1. CASE Exits
  <2>1. ctr' \in CtrSet /\ ~Filtered'
    BY <1>1 DEF Exits, BootInv, BootTypes, CtrSet, Filtered
  <2> QED BY <1>1, <2>1, NoneMoves DEF Exits
<1>2. CASE ResolverDies
  BY <1>2, NoneMoves DEF ResolverDies, BootInv, BootTypes, Filtered
<1>3. CASE UNCHANGED bootVars
  BY <1>3, NoneMoves DEF bootVars, BootInv, BootTypes, Filtered
<1>4. ASSUME NEW p \in Brigs, NEW op \in {"run", "runopen", "stop", "remove", "prune"}, Begin(p, op)
      PROVE  BootInv'
  <2>1. op \in Ops \ {"none"} BY DEF Ops
  <2> QED BY <1>4, <2>1, BeginInv
<1>5. ASSUME NEW p \in Brigs, BootLock(p) PROVE BootInv'
  BY <1>5, LockTaken DEF BootLock
<1>6. ASSUME NEW p \in Brigs, DropLock(p) PROVE BootInv'
  BY <1>6, LockTaken DEF DropLock
<1> QED BY <1>1, <1>2, <1>3, <1>4, <1>5, <1>6, BootLookInv, BootCheckInv, BootStartInv,
           BootStartedInv, BootStopOldInv, BootRunInv, BootUpInv, StopCtrInv, DropInv,
           PruneLookInv, PruneDropInv, PruneDeleteInv DEF BootNext

(* While a sandbox that was booted under rules runs, its table is in place: no
   stop that failed, no prune with an old list and no second boot takes it
   (dropEgressLocked, startEgress, pruneEgress), with any number of brig
   processes at it at once. *)
THEOREM TableStays == BootSpec => []RunningFiltered
<1>1. BootInv => RunningFiltered
  BY DEF BootInv
<1> QED BY <1>1, BootInitInv, BootStep, PTL DEF BootSpec
-----------------------------------------------------------------------------
(* Policies: the types *)

Commands == {"none", "create", "edit", "rm", "attach", "detach", "run"}
Stages == {"idle", "editor", "write", "remove", "save", "load", "runs"}
Bindings == SUBSET (PNames \X Binders)
Denied == UNION {d.deny : d \in Documents}
UseSet == [pc : Stages, op : Commands, n : PNames \cup {0}, path : PNames \cup {0},
           force : BOOLEAN, doc : SUBSET Documents, bind : Bindings, snap : Bindings,
           names : SUBSET PNames, owed : SUBSET PNames, def : {"none", "allow", "deny"},
           deny : SUBSET Denied]

PolicyTypes ==
    /\ files \in [PNames -> SUBSET Documents] /\ spoilt \subseteq PNames
    /\ att \in Bindings /\ attBad \in BOOLEAN /\ promised \in Bindings
    /\ use \in [Users -> UseSet]

(* The record holds what was promised, and the names a run has read are those
   that it owes and more. *)
Covered(r) ==
    \A n \in r.owed : \E d \in r.doc : /\ d.name = n
                                       /\ d.def = "deny" => r.def = "deny"
                                       /\ d.deny \subseteq r.deny
UseOK(r) == /\ r.pc = "load" => r.owed \subseteq r.names
            /\ r.pc = "runs" => Covered(r)
            /\ r.pc \in {"editor", "write", "remove"} => r.path \in PNames
PolicyInv == /\ PolicyTypes
             /\ promised \subseteq att
             /\ \A u \in Users : UseOK(use[u])
-----------------------------------------------------------------------------
(* Reading the directory *)

(* The file that LoadAll takes a policy from is one that declares it. *)
LEMMA PathDeclares ==
    ASSUME NEW n, Loads(n)
    PROVE  PathOf(n) \in PNames /\ \E d \in files[PathOf(n)] : d.name = n
<1>1. Declaring(n) \in SUBSET PNames /\ Declaring(n) # {}
  BY DEF Declaring, Loads
<1>2. \E m \in Declaring(n) : \A k \in Declaring(n) : m >= k
  BY <1>1, PolicyAssumption
<1>3. PathOf(n) \in Declaring(n)
  BY <1>2 DEF PathOf, Max
<1> QED BY <1>3 DEF Declaring

LEMMA LoadedDeclares ==
    ASSUME NEW n, Loads(n), PolicyTypes
    PROVE  Loaded(n) \subseteq Documents /\ \E d \in Loaded(n) : d.name = n
<1>1. PathOf(n) \in PNames /\ \E d \in files[PathOf(n)] : d.name = n
  BY PathDeclares
<1>2. Loaded(n) = files[PathOf(n)]
  BY DEF Loaded
<1> QED BY <1>1, <1>2 DEF PolicyTypes

(* Merge keeps the strictest default and every deny rule. *)
LEMMA MergeKeeps ==
    ASSUME NEW ds, ds \subseteq Documents
    PROVE  /\ MergedDefault(ds) \in {"none", "allow", "deny"}
           /\ MergedDeny(ds) \subseteq Denied
           /\ \A d \in ds : /\ d.def = "deny" => MergedDefault(ds) = "deny"
                            /\ d.deny \subseteq MergedDeny(ds)
<1>1. MergedDefault(ds) \in {"none", "allow", "deny"}
  BY DEF MergedDefault
<1>2. MergedDeny(ds) \subseteq Denied
  BY DEF MergedDeny, Denied
<1>3. ASSUME NEW d \in ds PROVE /\ d.def = "deny" => MergedDefault(ds) = "deny"
                                /\ d.deny \subseteq MergedDeny(ds)
  <2>1. d.def = "deny" => MergedDefault(ds) = "deny"
    BY DEF MergedDefault
  <2>2. d.deny \subseteq MergedDeny(ds)
    BY DEF MergedDeny
  <2> QED BY <2>1, <2>2
<1> QED BY <1>1, <1>2, <1>3

-----------------------------------------------------------------------------
(* One process goes on *)

LEMMA IdleType == Idle \in UseSet /\ Idle.pc = "idle" /\ UseOK(Idle)
  BY DEF Idle, UseSet, Stages, Commands, Bindings, UseOK

UsesOK == use \in [Users -> UseSet] /\ \A u \in Users : UseOK(use[u])

LEMMA UserMoves ==
    ASSUME UsesOK, NEW u \in Users, NEW r \in UseSet, UseOK(r), use' = [use EXCEPT ![u] = r]
    PROVE  UsesOK'
  BY DEF UsesOK

LEMMA UserFinishes ==
    ASSUME UsesOK, NEW u \in Users, Finishes(u)
    PROVE  UsesOK'
  BY IdleType, UserMoves DEF Finishes

(* A record of a command that is no run owes nothing. *)
LEMMA UserStarts ==
    ASSUME UsesOK, NEW u \in Users, NEW r \in UseSet, Starts(u, r), r.pc \notin {"load", "runs"},
           r.pc \in {"editor", "remove"} => r.path \in PNames, r.pc # "write"
    PROVE  UsesOK'
<1>1. UseOK(r) BY DEF UseOK
<1> QED BY <1>1, UserMoves DEF Starts

(* The steps of the commands leave the directory typed and the record with
   what was promised. *)
StoreOK == /\ files \in [PNames -> SUBSET Documents] /\ spoilt \subseteq PNames
           /\ att \in Bindings /\ attBad \in BOOLEAN /\ promised \in Bindings
           /\ promised \subseteq att

LEMMA PolicyParts == PolicyInv <=> StoreOK /\ UsesOK
  BY DEF PolicyInv, PolicyTypes, StoreOK, UsesOK

LEMMA StoreStays == ASSUME StoreOK, UNCHANGED Store PROVE StoreOK'
  BY DEF StoreOK, Store

LEMMA WriteStore ==
    ASSUME StoreOK, NEW f \in PNames, NEW ds \in SUBSET Documents,
           files' = [files EXCEPT ![f] = ds], spoilt' \subseteq spoilt \cup {f},
           UNCHANGED <<att, promised>>, attBad' \in BOOLEAN
    PROVE  StoreOK'
  BY DEF StoreOK

LEMMA CommandStarts ==
    ASSUME StoreOK, UsesOK, NEW u \in Users, NEW n \in PNames, NEW force \in BOOLEAN,
           Create(u, n, force) \/ Edit(u, n, force) \/ RemoveCheck(u, n, force)
    PROVE  StoreOK' /\ UsesOK'
<1>1. UNCHANGED Store
  BY DEF Create, Edit, RemoveCheck
<1>2. CASE Create(u, n, force)
  <2> DEFINE r == [Idle EXCEPT !.pc = "editor", !.op = "create", !.n = n, !.path = n, !.force = force]
  <2>1. r \in UseSet /\ r.pc = "editor" /\ r.path \in PNames
    BY DEF Idle, UseSet, Stages, Commands, Bindings
  <2>2. Starts(u, r) BY <1>2 DEF Create
  <2> HIDE DEF r
  <2> QED BY <1>1, <2>1, <2>2, UserStarts, StoreStays
<1>3. CASE Edit(u, n, force)
  <2> DEFINE q == PathOf(n)
  <2>1. q \in PNames BY <1>3, PathDeclares DEF Edit
  <2> HIDE DEF q
  <2> DEFINE r == [Idle EXCEPT !.pc = "editor", !.op = "edit", !.n = n, !.path = q, !.force = force]
  <2>2. r \in UseSet /\ r.pc = "editor" /\ r.path \in PNames
    BY <2>1 DEF Idle, UseSet, Stages, Commands, Bindings
  <2>3. Starts(u, r) BY <1>3 DEF Edit, q
  <2> HIDE DEF r
  <2> QED BY <1>1, <2>2, <2>3, UserStarts, StoreStays
<1>4. CASE RemoveCheck(u, n, force)
  <2> DEFINE q == PathOf(n)
  <2>1. q \in PNames BY <1>4, PathDeclares DEF RemoveCheck
  <2> HIDE DEF q
  <2> DEFINE r == [Idle EXCEPT !.pc = "remove", !.op = "rm", !.n = n, !.path = q]
  <2>2. r \in UseSet /\ r.pc = "remove" /\ r.path \in PNames
    BY <2>1 DEF Idle, UseSet, Stages, Commands, Bindings
  <2>3. Starts(u, r) BY <1>4 DEF RemoveCheck, q
  <2> HIDE DEF r
  <2> QED BY <1>1, <2>2, <2>3, UserStarts, StoreStays
<1> QED BY <1>2, <1>3, <1>4
LEMMA BindingStarts ==
    ASSUME StoreOK, UsesOK, NEW u \in Users, NEW n \in PNames, NEW b \in Binders,
           AttachRead(u, n, b) \/ DetachRead(u, n, b)
    PROVE  StoreOK' /\ UsesOK'
<1>1. UNCHANGED Store
  BY DEF AttachRead, DetachRead
<1> DEFINE bs == {<<n, b>>}
<1>2. bs \in Bindings /\ att \in Bindings
  BY DEF Bindings, StoreOK
<1> HIDE DEF bs
<1>3. PICK o \in {"attach", "detach"} :
         Starts(u, [Idle EXCEPT !.pc = "save", !.op = o, !.bind = bs, !.snap = att])
  BY DEF AttachRead, DetachRead, bs
<1> DEFINE r == [Idle EXCEPT !.pc = "save", !.op = o, !.bind = bs, !.snap = att]
<1>4. r \in UseSet /\ r.pc = "save"
  BY <1>2 DEF Idle, UseSet, Stages, Commands, Bindings
<1>5. Starts(u, r) BY <1>3
<1> HIDE DEF r
<1> QED BY <1>1, <1>4, <1>5, UserStarts, StoreStays

LEMMA EditorSaves ==
    ASSUME StoreOK, UsesOK, NEW u \in Users, NEW d \in Documents,
           CreateSave(u, d) \/ EditCheck(u, d)
    PROVE  StoreOK' /\ UsesOK'
<1>1. use[u] \in UseSet /\ UseOK(use[u]) /\ use[u].pc = "editor"
  BY DEF CreateSave, EditCheck, UsesOK
<1>2. use[u].path \in PNames
  BY <1>1 DEF UseOK
<1>3. CASE CreateSave(u, d)
  <2>1. StoreOK'
    <3>1. {d} \in SUBSET Documents OBVIOUS
    <3>2. attBad' \in BOOLEAN BY <1>3 DEF CreateSave, StoreOK
    <3> QED BY <1>2, <1>3, <3>1, <3>2, WriteStore DEF CreateSave, Writes
  <2> QED BY <1>3, <2>1, UserFinishes DEF CreateSave
<1>4. CASE EditCheck(u, d)
  <2> DEFINE r == [use[u] EXCEPT !.pc = "write", !.doc = {d}]
  <2>1. r \in UseSet /\ r.pc = "write" /\ r.path = use[u].path
    BY <1>1 DEF UseSet, Stages
  <2>2. use' = [use EXCEPT ![u] = r]
    BY <1>4 DEF EditCheck, UsesOK
  <2> HIDE DEF r
  <2>3. UseOK(r) BY <1>2, <2>1 DEF UseOK
  <2> QED BY <1>4, <2>1, <2>2, <2>3, UserMoves, StoreStays DEF EditCheck
<1> QED BY <1>3, <1>4

LEMMA CommandEnds ==
    ASSUME StoreOK, UsesOK, NEW u \in Users,
           EditorQuits(u) \/ EditWrite(u) \/ RemoveFile(u) \/ SaveRecord(u) \/ RunEnds(u)
    PROVE  StoreOK' /\ UsesOK'
<1>1. UsesOK'
  BY UserFinishes DEF EditorQuits, EditWrite, RemoveFile, SaveRecord, RunEnds
<1>2. use[u] \in UseSet /\ UseOK(use[u])
  BY DEF UsesOK
<1>3. CASE EditorQuits(u) \/ RunEnds(u)
  BY <1>1, <1>3, StoreStays DEF EditorQuits, RunEnds
<1>4. CASE EditWrite(u)
  <2>1. PICK d \in use[u].doc : Writes(use[u].path, d)
    BY <1>4 DEF EditWrite
  <2>2. {d} \in SUBSET Documents /\ use[u].path \in PNames
    BY <1>2, <1>4 DEF UseSet, UseOK, EditWrite
  <2>3. attBad' \in BOOLEAN /\ UNCHANGED <<att, promised>>
    BY <1>4 DEF EditWrite, StoreOK
  <2> QED BY <1>1, <2>1, <2>2, <2>3, WriteStore DEF Writes
<1>5. CASE RemoveFile(u)
  <2>1. {} \in SUBSET Documents /\ use[u].path \in PNames
    BY <1>2, <1>5 DEF UseOK, RemoveFile
  <2>2. attBad' \in BOOLEAN
    BY <1>5 DEF RemoveFile, StoreOK
  <2> QED BY <1>1, <1>5, <2>1, <2>2, WriteStore DEF RemoveFile
<1>6. CASE SaveRecord(u)
  <2>1. use[u].snap \in Bindings /\ use[u].bind \in Bindings
    BY <1>2 DEF UseSet
  <2>2. Record(u) \in Bindings
    BY <2>1 DEF Record, Bindings
  <2>3. UNCHANGED <<files, spoilt>>
    BY <1>6 DEF SaveRecord
  <2>4. CASE UNCHANGED <<att, attBad, promised>>
    BY <1>1, <2>3, <2>4 DEF StoreOK
  <2>5. CASE /\ att' = Record(u) /\ attBad' = FALSE
             /\ promised' = Record(u) \cap (promised \cup use[u].bind)
    BY <1>1, <2>2, <2>3, <2>5 DEF StoreOK, Bindings
  <2> QED BY <1>6, <2>4, <2>5 DEF SaveRecord
<1> QED BY <1>3, <1>4, <1>5, <1>6

(* ResolvePolicies reads the names under which the run is, of those that are
   promised every one. *)
LEMMA RunReads ==
    ASSUME StoreOK, UsesOK, NEW u \in Users, NEW sess \in BOOLEAN, RunRead(u, sess)
    PROVE  StoreOK' /\ UsesOK'
<1> DEFINE ns == EffectivePolicies(att, sess)
           ow == Inline \cup {n \in PNames : <<n, "profile">> \in promised
                                             \/ (sess /\ <<n, "session">> \in promised)}
<1>1. ns \in SUBSET PNames /\ ow \in SUBSET PNames
  BY PolicyAssumption DEF EffectivePolicies
<1>2. ow \subseteq ns
  BY PolicyAssumption DEF EffectivePolicies, StoreOK
<1>3. UNCHANGED Store
        /\ Starts(u, [Idle EXCEPT !.pc = "load", !.op = "run", !.names = ns, !.owed = ow])
  BY DEF RunRead
<1> HIDE DEF ns, ow
<1> DEFINE r == [Idle EXCEPT !.pc = "load", !.op = "run", !.names = ns, !.owed = ow]
<1>4. r \in UseSet /\ r.pc = "load" /\ r.owed = ow /\ r.names = ns
  BY <1>1 DEF Idle, UseSet, Stages, Commands, Bindings
<1>5. use' = [use EXCEPT ![u] = r]
  BY <1>3 DEF Starts
<1> HIDE DEF r
<1>6. UseOK(r)
  BY <1>2, <1>4 DEF UseOK
<1> QED BY <1>3, <1>4, <1>5, <1>6, UserMoves, StoreStays

(* The run loads every one of them or is refused, and merges what it loaded. *)
LEMMA RunLoads ==
    ASSUME StoreOK, UsesOK, NEW u \in Users, RunLoad(u)
    PROVE  StoreOK' /\ UsesOK'
<1>0. PolicyTypes BY DEF PolicyTypes, StoreOK, UsesOK
<1>1. use[u] \in UseSet /\ UseOK(use[u]) /\ use[u].pc = "load" /\ UNCHANGED Store
  BY DEF RunLoad, UsesOK
<1>2. use[u].owed \subseteq use[u].names
  BY <1>1 DEF UseOK
<1>3. CASE \A n \in use[u].names : Loads(n)
  <2> DEFINE ds == UNION {Loaded(n) : n \in use[u].names}
             ow == UNION {Loaded(n) : n \in use[u].owed}
             def == MergedDefault(ds)
             dn == MergedDeny(ds)
  <2>1. \A n \in use[u].names : Loaded(n) \subseteq Documents /\ \E d \in Loaded(n) : d.name = n
    BY <1>0, <1>3, LoadedDeclares
  <2>2. ds \subseteq Documents /\ ow \subseteq ds
    BY <1>2, <2>1
  <2>3. \A n \in use[u].owed : \E d \in ow : d.name = n
    BY <1>2, <2>1
  <2>4. use' = [use EXCEPT ![u] = [use[u] EXCEPT !.pc = "runs", !.def = def, !.deny = dn, !.doc = ow]]
    BY <1>3 DEF RunLoad, UsesOK
  <2> HIDE DEF ds, ow
  <2>5. /\ def \in {"none", "allow", "deny"} /\ dn \subseteq Denied
        /\ \A d \in ow : (d.def = "deny" => def = "deny") /\ d.deny \subseteq dn
    BY <2>2, MergeKeeps
  <2> HIDE DEF def, dn
  <2> DEFINE r == [use[u] EXCEPT !.pc = "runs", !.def = def, !.deny = dn, !.doc = ow]
  <2>6. /\ r \in UseSet /\ r.pc = "runs" /\ r.def = def /\ r.deny = dn /\ r.doc = ow
        /\ r.owed = use[u].owed
    BY <1>1, <2>2, <2>5 DEF UseSet, Stages
  <2>7. use' = [use EXCEPT ![u] = r] BY <2>4
  <2> HIDE DEF r
  <2>8. Covered(r) BY <2>3, <2>5, <2>6 DEF Covered
  <2>9. UseOK(r) BY <2>6, <2>8 DEF UseOK
  <2> QED BY <1>1, <2>6, <2>7, <2>9, UserMoves, StoreStays
<1>4. CASE ~\A n \in use[u].names : Loads(n)
  BY <1>1, <1>4, UserFinishes, StoreStays DEF RunLoad
<1> QED BY <1>3, <1>4

LEMMA PolicyStep == PolicyInv /\ [PolicyNext]_policyVars => PolicyInv'
<1>0. PolicyInv' <=> StoreOK' /\ UsesOK'
  BY DEF PolicyInv, PolicyTypes, StoreOK, UsesOK
<1> SUFFICES ASSUME StoreOK, UsesOK, [PolicyNext]_policyVars PROVE StoreOK' /\ UsesOK'
  BY <1>0, PolicyParts
<1>1. CASE Spoil
  <2>1. UsesOK' BY <1>1 DEF Spoil, UsesOK
  <2>2. ASSUME NEW f \in PNames, files' = [files EXCEPT ![f] = {}], spoilt' = spoilt \cup {f},
               UNCHANGED attBad
        PROVE  StoreOK'
    <3>1. {} \in SUBSET Documents /\ attBad' \in BOOLEAN BY <2>2 DEF StoreOK
    <3> QED BY <1>1, <2>2, <3>1, WriteStore DEF Spoil
  <2>3. CASE attBad' = ~attBad /\ UNCHANGED <<files, spoilt>>
    <3>1. attBad' \in BOOLEAN BY <2>3
    <3>2. UNCHANGED <<files, spoilt, att, promised>> BY <1>1, <2>3 DEF Spoil
    <3> QED BY <2>1, <3>1, <3>2 DEF StoreOK
  <2> QED BY <1>1, <2>1, <2>2, <2>3 DEF Spoil
<1>2. CASE UNCHANGED policyVars
  BY <1>2 DEF policyVars, StoreOK, UsesOK
<1> QED BY <1>1, <1>2, CommandStarts, BindingStarts, EditorSaves, CommandEnds, RunReads, RunLoads
        DEF PolicyNext

LEMMA PolicyInitInv == PolicyInit => PolicyInv
  BY IdleType DEF PolicyInit, PolicyInv, PolicyTypes, Bindings

(* A run starts under every policy that a user was told is bound to it, with
   its default and its deny rules (ResolvePolicies, Merge), whatever other
   processes create, edit, rename, remove, attach and detach meanwhile. *)
THEOREM RunsFiltered == PolicySpec => []RunFiltered
<1>1. PolicyInv => RunFiltered
  BY DEF PolicyInv, UseOK, Covered, RunFiltered
<1> QED BY <1>1, PolicyInitInv, PolicyStep, PTL DEF PolicySpec
-----------------------------------------------------------------------------
(* The table of a resolver: the types *)

Sets == {"allow_ip", "deny_ip"}
HostSets == {"allow_host", "deny_host"}
TableSet == [on : BOOLEAN, div : SUBSET Addrs, allow_ip : [Addrs -> Nat], deny_ip : [Addrs -> Nat],
             allow_host : [Addrs -> Nat], deny_host : [Addrs -> Nat], alive : Nat, pinned : BOOLEAN]
AskSet == [pc : {"idle", "add", "push", "pin"}, name : Names, addr : Addrs \cup {"none"}]
LearnedSet == [name : Names, addr : Addrs, ttl : 0..PinTTL, pin : Sets \cup {"none"}]

TableTypes ==
    /\ tbl \in TableSet
    /\ mem \subseteq Addrs /\ copy \subseteq Addrs
    /\ ask \in [Adders -> AskSet]
    /\ \A q \in Adders : ask[q].pc # "idle" => ask[q].addr \in Addrs
    /\ learned \subseteq LearnedSet
    /\ conn \in [Addrs -> {"none", "marked"}]

(* What the memory of the resolver holds: everything that the table diverts,
   that a query is about to divert or to answer, and that the guest was told;
   and the script of an install has the whole of it, under the mutex. *)
DivertInv ==
    /\ keeper = "run" => mu = "keeper" /\ copy = mem
    /\ tbl.div \subseteq mem
    /\ \A q \in Adders :
          /\ ask[q].pc = "push" => ask[q].addr \in mem
          /\ ask[q].pc = "pin" /\ ask[q].name = "d" =>
                ask[q].addr \in mem /\ (tbl.on => ask[q].addr \in tbl.div)
    /\ \A l \in learned : l.name = "d" => l.addr \in mem /\ (tbl.on => l.addr \in tbl.div)

(* A pin has at least as long to live as the answer that it is for. *)
PinInv == \A l \in learned : l.ttl > 0 /\ l.pin # "none" => tbl[l.pin][l.addr] >= l.ttl

(* A table is alive, and left to a resolver that beats, only with its literal
   hosts pinned. *)
EarlyInv ==
    /\ keeper \notin {"pin", "gone"} /\ tbl.on => tbl.pinned
    /\ tbl.alive > 0 => tbl.on /\ tbl.pinned

TableInv == TableTypes /\ DivertInv /\ PinInv /\ EarlyInv
-----------------------------------------------------------------------------
(* Tables *)

(* u differs from t in the sets of literal hosts at most. *)
Alike(t, u) == /\ u.on = t.on /\ u.div = t.div /\ u.alive = t.alive /\ u.pinned = t.pinned
               /\ u.allow_ip = t.allow_ip /\ u.deny_ip = t.deny_ip

LEMMA NoTableType ==
    /\ NoTable \in TableSet
    /\ NoTable.on = FALSE /\ NoTable.div = {} /\ NoTable.alive = 0 /\ NoTable.pinned = FALSE
  BY DEF NoTable, TableSet, None

LEMMA NewTableType ==
    ASSUME NEW c \in SUBSET Addrs, NEW t, t = [NoTable EXCEPT !.on = TRUE, !.div = c]
    PROVE  t \in TableSet /\ t.on = TRUE /\ t.div = c /\ t.alive = 0
  BY DEF NoTable, TableSet, None

LEMMA HostSetType ==
    ASSUME NEW t \in TableSet, NEW s \in HostSets, NEW a \in Addrs
    PROVE  [t EXCEPT ![s][a] = Retention] \in TableSet /\ Alike(t, [t EXCEPT ![s][a] = Retention])
<1>1. Retention \in Nat BY EgressAssumption
<1>2. CASE s = "allow_host"
  <2> DEFINE g == [t.allow_host EXCEPT ![a] = Retention]
  <2>1. g \in [Addrs -> Nat] BY <1>1 DEF TableSet
  <2>2. [t EXCEPT ![s][a] = Retention] = [t EXCEPT !.allow_host = g]
    BY <1>2 DEF TableSet
  <2> HIDE DEF g
  <2>3. [t EXCEPT !.allow_host = g] \in TableSet /\ Alike(t, [t EXCEPT !.allow_host = g])
    BY <2>1 DEF TableSet, Alike
  <2> QED BY <2>2, <2>3
<1>3. CASE s = "deny_host"
  <2> DEFINE g == [t.deny_host EXCEPT ![a] = Retention]
  <2>1. g \in [Addrs -> Nat] BY <1>1 DEF TableSet
  <2>2. [t EXCEPT ![s][a] = Retention] = [t EXCEPT !.deny_host = g]
    BY <1>3 DEF TableSet
  <2> HIDE DEF g
  <2>3. [t EXCEPT !.deny_host = g] \in TableSet /\ Alike(t, [t EXCEPT !.deny_host = g])
    BY <2>1 DEF TableSet, Alike
  <2> QED BY <2>2, <2>3
<1> QED BY <1>2, <1>3 DEF HostSets

LEMMA PinHostsType ==
    ASSUME NEW t \in TableSet, NEW s \in HostSets, NEW names, NEW u \in PinHosts(t, s, names)
    PROVE  u \in TableSet /\ Alike(t, u)
<1>1. u = t \/ \E a \in Addrs : u = [t EXCEPT ![s][a] = Retention]
  BY DEF PinHosts
<1>2. Alike(t, t) BY DEF Alike
<1> QED BY <1>1, <1>2, HostSetType

(* The two sets of literal hosts one after the other. *)
LEMMA RefreshType ==
    ASSUME NEW t \in TableSet, NEW u \in PinHosts(t, "allow_host", pol.allow),
           NEW w \in PinHosts(u, "deny_host", pol.deny)
    PROVE  w \in TableSet /\ Alike(t, w)
<1>1. "allow_host" \in HostSets /\ "deny_host" \in HostSets BY DEF HostSets
<1>2. u \in TableSet /\ Alike(t, u) BY <1>1, PinHostsType
<1>3. w \in TableSet /\ Alike(u, w) BY <1>1, <1>2, PinHostsType
<1> QED BY <1>2, <1>3 DEF Alike

LEMMA TableFields ==
    ASSUME NEW t \in TableSet
    PROVE  /\ [t EXCEPT !.alive = HeartbeatLapse] \in TableSet
           /\ [t EXCEPT !.alive = HeartbeatLapse].on = t.on
           /\ [t EXCEPT !.alive = HeartbeatLapse].div = t.div
           /\ [t EXCEPT !.alive = HeartbeatLapse].pinned = t.pinned
           /\ [t EXCEPT !.alive = HeartbeatLapse].allow_ip = t.allow_ip
           /\ [t EXCEPT !.alive = HeartbeatLapse].deny_ip = t.deny_ip
           /\ [t EXCEPT !.pinned = t.on] \in TableSet
           /\ [t EXCEPT !.pinned = t.on].on = t.on
           /\ [t EXCEPT !.pinned = t.on].pinned = t.on
           /\ [t EXCEPT !.pinned = t.on].div = t.div
           /\ [t EXCEPT !.pinned = t.on].alive = t.alive
           /\ [t EXCEPT !.pinned = t.on].allow_ip = t.allow_ip
           /\ [t EXCEPT !.pinned = t.on].deny_ip = t.deny_ip
  BY EgressAssumption DEF TableSet

LEMMA AgedType ==
    ASSUME NEW f \in [Addrs -> Nat]
    PROVE  Aged(f) \in [Addrs -> Nat] /\ \A a \in Addrs : Aged(f)[a] = Less(f[a])
  BY DEF Aged, Less

LEMMA TickType ==
    ASSUME tbl \in TableSet, EgressTick
    PROVE  /\ tbl' \in TableSet
           /\ tbl'.on = tbl.on /\ tbl'.div = tbl.div /\ tbl'.alive = Less(tbl.alive)
           /\ tbl'.pinned = tbl.pinned
           /\ \A z \in Sets, b \in Addrs : tbl'[z][b] = Less(tbl[z][b])
<1>1. /\ tbl.allow_ip \in [Addrs -> Nat] /\ tbl.deny_ip \in [Addrs -> Nat]
      /\ tbl.allow_host \in [Addrs -> Nat] /\ tbl.deny_host \in [Addrs -> Nat] /\ tbl.alive \in Nat
  BY DEF TableSet
<1> DEFINE a == Aged(tbl.allow_ip)  d == Aged(tbl.deny_ip)
           g == Aged(tbl.allow_host)  h == Aged(tbl.deny_host)  n == Less(tbl.alive)
<1>2. /\ a \in [Addrs -> Nat] /\ d \in [Addrs -> Nat] /\ g \in [Addrs -> Nat] /\ h \in [Addrs -> Nat]
      /\ \A b \in Addrs : a[b] = Less(tbl.allow_ip[b]) /\ d[b] = Less(tbl.deny_ip[b])
  BY <1>1, AgedType
<1>3. n \in Nat BY <1>1 DEF Less
<1>4. tbl' = [tbl EXCEPT !.allow_ip = a, !.deny_ip = d, !.allow_host = g, !.deny_host = h, !.alive = n]
  BY DEF EgressTick
<1> HIDE DEF a, d, g, h, n
<1>5. /\ tbl' \in TableSet /\ tbl'.allow_ip = a /\ tbl'.deny_ip = d
      /\ tbl'.on = tbl.on /\ tbl'.div = tbl.div /\ tbl'.alive = n /\ tbl'.pinned = tbl.pinned
  BY <1>2, <1>3, <1>4 DEF TableSet
<1>6. \A z \in Sets, b \in Addrs : tbl'[z][b] = Less(tbl[z][b])
  BY <1>2, <1>5 DEF Sets
<1> QED BY <1>5, <1>6 DEF n
-----------------------------------------------------------------------------
(* The keeper of the table *)

(* The pins are the same, and no query moves. *)
LEMMA KeeperSteps ==
    ASSUME TableInv, UNCHANGED <<ask, learned, conn>>, tbl' \in TableSet,
           tbl'.on = tbl.on, tbl'.div = tbl.div,
           tbl'.allow_ip = tbl.allow_ip, tbl'.deny_ip = tbl.deny_ip,
           mem \subseteq mem', mem' \subseteq Addrs, copy' \subseteq Addrs,
           keeper' = "run" => mu' = "keeper" /\ copy' = mem',
           EarlyInv'
    PROVE  TableInv'
<1>1. TableTypes' BY DEF TableInv, TableTypes
<1>2. DivertInv' BY DEF TableInv, DivertInv
<1>3. PinInv'
  <2>1. \A z \in Sets : tbl'[z] = tbl[z] BY DEF Sets
  <2>2. \A l \in learned : l.pin \in Sets \cup {"none"}
    BY DEF TableInv, TableTypes, LearnedSet
  <2> QED BY <2>1, <2>2 DEF TableInv, PinInv
<1> QED BY <1>1, <1>2, <1>3 DEF TableInv

LEMMA ResolveInv == ASSUME TableInv, Resolve PROVE TableInv'
<1>1. keeper = "resolve" /\ keeper' \in {"copy", "gone"} /\ UNCHANGED <<tbl, mu, copy, ask, learned, conn>>
  BY DEF Resolve
<1>2. mem \subseteq mem' /\ mem' \subseteq Addrs
  BY DEF Resolve, TableInv, TableTypes
<1>3. EarlyInv' BY <1>1 DEF TableInv, EarlyInv
<1> QED BY <1>1, <1>2, <1>3, KeeperSteps DEF TableInv, TableTypes

LEMMA InstallCopyInv == ASSUME TableInv, InstallCopy PROVE TableInv'
<1>1. keeper = "copy" /\ keeper' = "run" /\ mu' = "keeper" /\ copy' = mem
        /\ UNCHANGED <<tbl, mem, ask, learned, conn>>
  BY DEF InstallCopy
<1>2. EarlyInv' BY <1>1 DEF TableInv, EarlyInv
<1> QED BY <1>1, <1>2, KeeperSteps DEF TableInv, TableTypes

LEMMA InstallPinInv == ASSUME TableInv, InstallPin PROVE TableInv'
<1>1. PICK t \in PinHosts(tbl, "allow_host", pol.allow) : \E u \in PinHosts(t, "deny_host", pol.deny) :
         tbl' = [u EXCEPT !.pinned = u.on]
  BY DEF InstallPin
<1>2. PICK u \in PinHosts(t, "deny_host", pol.deny) : tbl' = [u EXCEPT !.pinned = u.on]
  BY <1>1
<1>3. tbl \in TableSet BY DEF TableInv, TableTypes
<1>4. u \in TableSet /\ Alike(tbl, u) BY <1>3, RefreshType
<1>5. /\ tbl' \in TableSet /\ tbl'.on = u.on /\ tbl'.pinned = u.on /\ tbl'.div = u.div
      /\ tbl'.alive = u.alive /\ tbl'.allow_ip = u.allow_ip /\ tbl'.deny_ip = u.deny_ip
  BY <1>2, <1>4, TableFields
<1>6. keeper = "pin" /\ keeper' = "beat" /\ UNCHANGED <<mem, mu, copy, ask, learned, conn>>
  BY DEF InstallPin
<1>7. tbl.alive > 0 => tbl.on
  BY DEF TableInv, EarlyInv
<1>8. EarlyInv' BY <1>4, <1>5, <1>6, <1>7 DEF EarlyInv, Alike
<1> QED BY <1>4, <1>5, <1>6, <1>8, KeeperSteps DEF TableInv, TableTypes, Alike
LEMMA RefreshHostsInv == ASSUME TableInv, RefreshHosts PROVE TableInv'
<1>1. PICK t \in PinHosts(tbl, "allow_host", pol.allow) : \E u \in PinHosts(t, "deny_host", pol.deny) :
         tbl' = u
  BY DEF RefreshHosts
<1>2. tbl \in TableSet BY DEF TableInv, TableTypes
<1>3. tbl' \in TableSet /\ Alike(tbl, tbl') BY <1>1, <1>2, RefreshType
<1>4. UNCHANGED <<keeper, mem, mu, copy, ask, learned, conn>>
  BY DEF RefreshHosts
<1>5. EarlyInv' BY <1>3, <1>4 DEF TableInv, EarlyInv, Alike
<1>6. keeper' = "run" => mu' = "keeper" /\ copy' = mem'
  BY <1>4 DEF TableInv, DivertInv
<1> QED BY <1>3, <1>4, <1>5, <1>6, KeeperSteps DEF TableInv, TableTypes, Alike

LEMMA BeatInv ==
    ASSUME TableInv, InstallBeat \/ Heartbeat
    PROVE  TableInv'
<1>1. tbl \in TableSet BY DEF TableInv, TableTypes
<1>2. /\ keeper \in {"beat", "serving"} /\ keeper' \in {"serving", "gone", "copy"}
      /\ UNCHANGED <<mem, mu, copy, ask, learned, conn>>
  BY DEF InstallBeat, Heartbeat, Failed
<1>3. CASE UNCHANGED tbl
  <2>1. EarlyInv' BY <1>2, <1>3 DEF TableInv, EarlyInv
  <2> QED BY <1>1, <1>2, <1>3, <2>1, KeeperSteps DEF TableInv, TableTypes
<1>4. CASE tbl.on /\ tbl' = [tbl EXCEPT !.alive = HeartbeatLapse]
  <2>1. /\ tbl' \in TableSet /\ tbl'.on = tbl.on /\ tbl'.pinned = tbl.pinned /\ tbl'.div = tbl.div
        /\ tbl'.allow_ip = tbl.allow_ip /\ tbl'.deny_ip = tbl.deny_ip
    BY <1>1, <1>4, TableFields
  <2>2. EarlyInv' BY <1>2, <1>4, <2>1 DEF TableInv, EarlyInv
  <2> QED BY <1>2, <2>1, <2>2, KeeperSteps DEF TableInv, TableTypes
<1> QED BY <1>3, <1>4 DEF InstallBeat, Heartbeat

(* The answers that the guest keeps when the table goes. *)
LEMMA UnpinnedType ==
    ASSUME TableTypes
    PROVE  /\ Unpinned \subseteq LearnedSet
           /\ \A l \in Unpinned : l.ttl = 0 /\ \E k \in learned : k.name = "d" /\ k.addr = l.addr
<1>1. ASSUME NEW k \in learned, k.name = "d", NEW l, l = [k EXCEPT !.pin = "none", !.ttl = 0]
      PROVE  l \in LearnedSet /\ l.ttl = 0 /\ l.addr = k.addr
  <2>1. k \in LearnedSet BY DEF TableTypes
  <2>2. 0 \in 0..PinTTL BY EgressAssumption
  <2> QED BY <1>1, <2>1, <2>2 DEF LearnedSet
<1> QED BY <1>1 DEF Unpinned

(* A table in the place of another: it diverts at least what memory did when
   its script was put together, or it is none. *)
LEMMA TableReplaced ==
    ASSUME TableInv, UNCHANGED <<mem, ask, conn>>, learned' = Unpinned, tbl' \in TableSet,
           tbl'.div \subseteq mem, tbl'.on => tbl'.div = mem, copy' \subseteq Addrs,
           keeper' = "run" => mu' = "keeper" /\ copy' = mem,
           EarlyInv'
    PROVE  TableInv'
<1>0. TableTypes /\ DivertInv BY DEF TableInv
<1>1. /\ Unpinned \subseteq LearnedSet
      /\ \A l \in Unpinned : l.ttl = 0 /\ \E k \in learned : k.name = "d" /\ k.addr = l.addr
  BY <1>0, UnpinnedType
<1>2. TableTypes' BY <1>0, <1>1 DEF TableTypes
<1>3. PinInv' BY <1>1 DEF PinInv
<1>4. \A l \in learned' : l.addr \in mem
  BY <1>0, <1>1 DEF DivertInv
<1>5. DivertInv' BY <1>0, <1>4 DEF DivertInv
<1> QED BY <1>2, <1>3, <1>5 DEF TableInv

LEMMA InstallRunInv == ASSUME TableInv, InstallRun PROVE TableInv'
<1>0. TableTypes /\ DivertInv /\ EarlyInv BY DEF TableInv
<1>1. keeper = "run" /\ copy = mem /\ copy' = {} /\ UNCHANGED <<mem, ask, conn>>
  BY <1>0 DEF InstallRun, DivertInv
<1>2. CASE /\ tbl' = AfterInstall([NoTable EXCEPT !.on = TRUE, !.div = copy])
           /\ keeper' = "pin" /\ learned' = Unpinned
  <2>1. tbl' = [NoTable EXCEPT !.on = TRUE, !.div = copy] /\ copy \in SUBSET Addrs
    BY <1>0, <1>2 DEF AfterInstall, TableTypes
  <2>2. tbl' \in TableSet /\ tbl'.on = TRUE /\ tbl'.div = copy /\ tbl'.alive = 0
    BY <2>1, NewTableType
  <2>3. EarlyInv' BY <1>2, <2>2 DEF EarlyInv
  <2> QED BY <1>1, <1>2, <2>2, <2>3, TableReplaced
<1>3. CASE keeper' = Failed /\ UNCHANGED <<tbl, learned>>
  <2>1. keeper' \in {"serving", "gone"} BY <1>3 DEF Failed
  <2>2. EarlyInv' BY <1>0, <1>1, <1>3, <2>1 DEF EarlyInv
  <2> QED BY <1>0, <1>1, <1>3, <2>1, <2>2, KeeperSteps DEF TableTypes
<1> QED BY <1>2, <1>3 DEF InstallRun

LEMMA FlushInv == ASSUME TableInv, Flush PROVE TableInv'
<1>0. TableTypes /\ DivertInv BY DEF TableInv
<1>1. tbl' = NoTable /\ learned' = Unpinned /\ UNCHANGED <<keeper, mem, mu, copy, ask, conn>>
  BY DEF Flush
<1>2. EarlyInv' BY <1>1, NoTableType DEF EarlyInv
<1> QED BY <1>0, <1>1, <1>2, NoTableType, TableReplaced DEF TableTypes, DivertInv
-----------------------------------------------------------------------------
(* The queries *)

LEMMA IdleAskType == IdleAsk \in AskSet /\ IdleAsk.pc = "idle"
  BY DEF IdleAsk, AskSet, Names

(* What a query may be at, in a table t with m in memory. *)
AskOK(r, t, m) ==
    /\ r.pc # "idle" => r.addr \in Addrs
    /\ r.pc = "push" => r.addr \in m
    /\ r.pc = "pin" /\ r.name = "d" => r.addr \in m /\ (t.on => r.addr \in t.div)

(* One query moves; memory and the diverts of the table only grow. *)
LEMMA QueryMoves ==
    ASSUME TableInv, NEW q \in Adders, NEW r \in AskSet, AskOK(r, tbl', mem'),
           ask' = [ask EXCEPT ![q] = r], UNCHANGED <<keeper, learned, conn>>,
           mem \subseteq mem', mem' \subseteq Addrs, copy' = copy,
           keeper = "run" => mem' = mem /\ mu' = mu,
           tbl' \in TableSet, tbl'.on = tbl.on, tbl.div \subseteq tbl'.div, tbl'.div \subseteq mem',
           tbl'.allow_ip = tbl.allow_ip, tbl'.deny_ip = tbl.deny_ip,
           tbl'.alive = tbl.alive, tbl'.pinned = tbl.pinned
    PROVE  TableInv'
<1>0. TableTypes /\ DivertInv /\ PinInv /\ EarlyInv BY DEF TableInv
<1>1. ask' \in [Adders -> AskSet] /\ ask'[q] = r /\ \A p \in Adders \ {q} : ask'[p] = ask[p]
  BY <1>0 DEF TableTypes
<1>2. TableTypes' BY <1>0, <1>1 DEF TableTypes, AskOK
<1>3. \A p \in Adders :
         /\ ask'[p].pc = "push" => ask'[p].addr \in mem'
         /\ ask'[p].pc = "pin" /\ ask'[p].name = "d" =>
               ask'[p].addr \in mem' /\ (tbl'.on => ask'[p].addr \in tbl'.div)
  BY <1>0, <1>1 DEF DivertInv, AskOK
<1>4. DivertInv' BY <1>0, <1>3 DEF DivertInv
<1>5. PinInv'
  <2>1. \A z \in Sets : tbl'[z] = tbl[z] BY DEF Sets
  <2>2. \A l \in learned : l.pin \in Sets \cup {"none"} BY <1>0 DEF TableTypes, LearnedSet
  <2> QED BY <1>0, <2>1, <2>2 DEF PinInv
<1>6. EarlyInv' BY <1>0 DEF EarlyInv
<1> QED BY <1>2, <1>4, <1>5, <1>6 DEF TableInv

LEMMA AskInv ==
    ASSUME TableInv, NEW q \in Adders, NEW name \in Names, NEW a \in Addrs, Ask(q, name, a)
    PROVE  TableInv'
<1>0. TableTypes /\ DivertInv BY DEF TableInv
<1> DEFINE r == [pc |-> IF name = "d" THEN "add" ELSE "pin", name |-> name, addr |-> a]
<1>1. r \in AskSet /\ r.pc = (IF name = "d" THEN "add" ELSE "pin") /\ r.name = name /\ r.addr = a
  BY DEF AskSet
<1>2. ask' = [ask EXCEPT ![q] = r] /\ UNCHANGED <<keeper, tbl, mem, mu, copy, learned, conn>>
  BY DEF Ask
<1> HIDE DEF r
<1>3. AskOK(r, tbl', mem') BY <1>1 DEF AskOK
<1> QED BY <1>0, <1>1, <1>2, <1>3, QueryMoves DEF TableTypes, DivertInv

(* The names of the queries are not those of the holders of the mutex. *)
LEMMA AdderNames == \A q \in Adders : q # "none" /\ q # "keeper"
  BY EgressAssumption DEF Adders

LEMMA AddMemInv == ASSUME TableInv, NEW q \in Adders, AddMem(q) PROVE TableInv'
<1>0. TableTypes /\ DivertInv BY DEF TableInv
<1>1. /\ ask[q].pc = "add" /\ ask[q] \in AskSet /\ ask[q].addr \in Addrs /\ mu = "none"
      /\ UNCHANGED <<keeper, tbl, copy, learned, conn>>
  BY <1>0 DEF AddMem, TableTypes, Free
<1>2. keeper # "run" BY <1>0, <1>1 DEF DivertInv
<1>3. CASE mem' = mem \cup {ask[q].addr} /\ ask' = [ask EXCEPT ![q].pc = "push"]
  <2> DEFINE r == [ask[q] EXCEPT !.pc = "push"]
  <2>1. r \in AskSet /\ r.pc = "push" /\ r.addr = ask[q].addr
    BY <1>1 DEF AskSet
  <2>2. ask' = [ask EXCEPT ![q] = r] BY <1>3
  <2> HIDE DEF r
  <2>3. AskOK(r, tbl', mem') BY <1>1, <1>3, <2>1 DEF AskOK
  <2>4. mem \subseteq mem' /\ mem' \subseteq Addrs BY <1>0, <1>1, <1>3 DEF TableTypes
  <2> QED BY <1>0, <1>1, <1>2, <2>1, <2>2, <2>3, <2>4, QueryMoves DEF TableTypes, DivertInv
<1>4. CASE ask' = [ask EXCEPT ![q] = IdleAsk] /\ UNCHANGED <<mu, mem>>
  <2>1. AskOK(IdleAsk, tbl', mem') BY IdleAskType DEF AskOK
  <2> QED BY <1>0, <1>1, <1>4, <2>1, IdleAskType, QueryMoves DEF TableTypes, DivertInv
<1> QED BY <1>3, <1>4 DEF AddMem

LEMMA AddTableInv == ASSUME TableInv, NEW q \in Adders, AddTable(q) PROVE TableInv'
<1>0. TableTypes /\ DivertInv BY DEF TableInv
<1>1. /\ ask[q].pc = "push" /\ ask[q] \in AskSet /\ ask[q].addr \in Addrs /\ ask[q].addr \in mem
      /\ UNCHANGED <<keeper, mem, copy, learned, conn>> /\ mu' = IF mu = q THEN "none" ELSE mu
  BY <1>0 DEF AddTable, TableTypes, DivertInv
<1>2. keeper = "run" => mem' = mem /\ mu' = mu
  BY <1>0, <1>1, AdderNames DEF DivertInv
<1>3. CASE ask' = [ask EXCEPT ![q] = IdleAsk] /\ UNCHANGED tbl
  <2>1. AskOK(IdleAsk, tbl', mem') BY IdleAskType DEF AskOK
  <2> QED BY <1>0, <1>1, <1>2, <1>3, <2>1, IdleAskType, QueryMoves DEF TableTypes, DivertInv
<1>4. CASE /\ tbl.on
           /\ tbl' = [tbl EXCEPT !.div = @ \cup {ask[q].addr}]
           /\ ask' = [ask EXCEPT ![q] = IF q = "watch" THEN IdleAsk ELSE [@ EXCEPT !.pc = "pin"]]
  <2> DEFINE dv == tbl.div \cup {ask[q].addr}
             k == [ask[q] EXCEPT !.pc = "pin"]
             r == IF q = "watch" THEN IdleAsk ELSE k
  <2>1. dv \in SUBSET Addrs /\ dv \subseteq mem /\ tbl.div \subseteq dv /\ ask[q].addr \in dv
    BY <1>0, <1>1 DEF TableTypes, TableSet, DivertInv
  <2>2. tbl' = [tbl EXCEPT !.div = dv] BY <1>4
  <2>3. ask' = [ask EXCEPT ![q] = r] BY <1>4
  <2>4. k \in AskSet /\ k.pc = "pin" /\ k.addr = ask[q].addr
    BY <1>1 DEF AskSet
  <2> HIDE DEF dv, k
  <2>5. /\ tbl' \in TableSet /\ tbl'.on = tbl.on /\ tbl'.div = dv /\ tbl'.allow_ip = tbl.allow_ip
        /\ tbl'.deny_ip = tbl.deny_ip /\ tbl'.alive = tbl.alive /\ tbl'.pinned = tbl.pinned
    BY <1>0, <2>1, <2>2 DEF TableTypes, TableSet
  <2>6. r \in AskSet /\ AskOK(r, tbl', mem')
    BY <1>1, <2>1, <2>4, <2>5, IdleAskType DEF AskOK
  <2> HIDE DEF r
  <2> QED BY <1>0, <1>1, <1>2, <2>1, <2>3, <2>5, <2>6, QueryMoves DEF TableTypes, DivertInv
<1> QED BY <1>3, <1>4 DEF AddTable

LEMMA KillInv == ASSUME TableInv, Kill PROVE TableInv'
<1>0. TableTypes /\ DivertInv /\ PinInv /\ EarlyInv BY DEF TableInv
<1>1. keeper' = "gone" /\ copy' = {} /\ ask' = [q \in Adders |-> IdleAsk]
        /\ UNCHANGED <<tbl, mem, learned, conn>>
  BY DEF Kill
<1>2. TableTypes' BY <1>0, <1>1, IdleAskType DEF TableTypes
<1>3. DivertInv' BY <1>0, <1>1, IdleAskType DEF DivertInv
<1>4. PinInv' BY <1>0, <1>1 DEF PinInv
<1>5. EarlyInv' BY <1>0, <1>1 DEF EarlyInv
<1> QED BY <1>2, <1>3, <1>4, <1>5 DEF TableInv

(* A table that admits a connection has its hosts pinned. *)
LEMMA PacketInv == ASSUME TableInv, NEW a \in Addrs, Packet(a) PROVE TableInv'
<1>0. TableTypes /\ DivertInv /\ PinInv /\ EarlyInv BY DEF TableInv
<1>1. UNCHANGED <<keeper, tbl, mem, mu, copy, ask, learned>>
  BY DEF Packet
<1>2. conn[a] \in {"none", "marked"} BY <1>0 DEF TableTypes
<1>3. Verdict(a, conn[a]) = "admit" => conn[a] = "marked" \/ tbl.pinned
  <2>1. tbl.alive \in Nat BY <1>0 DEF TableTypes, TableSet
  <2> QED BY <1>0, <2>1 DEF Verdict, EarlyInv
<1>4. \E v \in {"none", "marked"} : conn' = [conn EXCEPT ![a] = v]
  BY <1>2, <1>3 DEF Packet
<1>5. conn' \in [Addrs -> {"none", "marked"}]
  BY <1>0, <1>4 DEF TableTypes
<1>6. TableTypes' BY <1>0, <1>1, <1>5 DEF TableTypes
<1>7. DivertInv' BY <1>0, <1>1 DEF DivertInv
<1>8. PinInv' BY <1>0, <1>1 DEF PinInv
<1>9. EarlyInv' BY <1>0, <1>1 DEF EarlyInv
<1> QED BY <1>6, <1>7, <1>8, <1>9 DEF TableInv

(* A tick ages the pins and the answers alike. *)
LEMMA TickInv == ASSUME TableInv, EgressTick PROVE TableInv'
<1>0. TableTypes /\ DivertInv /\ PinInv /\ EarlyInv BY DEF TableInv
<1>1. UNCHANGED <<keeper, mem, mu, copy, ask, conn>>
  BY DEF EgressTick
<1>2. tbl \in TableSet BY <1>0 DEF TableTypes
<1>3. /\ tbl' \in TableSet
      /\ tbl'.on = tbl.on /\ tbl'.div = tbl.div /\ tbl'.alive = Less(tbl.alive) /\ tbl'.pinned = tbl.pinned
      /\ \A z \in Sets, b \in Addrs : tbl'[z][b] = Less(tbl[z][b])
  BY <1>2, TickType
<1>4. \A l \in learned' : \E k \in learned : l = [k EXCEPT !.ttl = Less(@), !.pin = IF k.ttl > 1 THEN @ ELSE "none"]
  BY DEF EgressTick
<1>5. ASSUME NEW l \in learned'
      PROVE  /\ l \in LearnedSet
             /\ \E k \in learned : /\ l.name = k.name /\ l.addr = k.addr /\ l.ttl = Less(k.ttl)
                                   /\ l.pin # "none" => l.pin = k.pin /\ k.ttl > 1
  <2>1. PICK k \in learned : l = [k EXCEPT !.ttl = Less(@), !.pin = IF k.ttl > 1 THEN @ ELSE "none"]
    BY <1>4
  <2> DEFINE n == Less(k.ttl)  z == IF k.ttl > 1 THEN k.pin ELSE "none"
  <2>2. k \in LearnedSet BY <1>0 DEF TableTypes
  <2>3. n \in 0..PinTTL /\ z \in Sets \cup {"none"}
    BY <2>2, EgressAssumption DEF LearnedSet, Less
  <2>4. l = [k EXCEPT !.ttl = n, !.pin = z] BY <2>1
  <2>5. z # "none" => z = k.pin /\ k.ttl > 1 OBVIOUS
  <2> HIDE DEF n, z
  <2>6. l \in LearnedSet /\ l.name = k.name /\ l.addr = k.addr /\ l.ttl = n /\ l.pin = z
    BY <2>2, <2>3, <2>4 DEF LearnedSet
  <2> QED BY <2>5, <2>6 DEF n
<1>6. TableTypes' BY <1>0, <1>1, <1>3, <1>5 DEF TableTypes
<1>7. DivertInv' BY <1>0, <1>1, <1>3, <1>5 DEF DivertInv
<1>8. PinInv'
  <2> SUFFICES ASSUME NEW l \in learned', l.ttl > 0, l.pin # "none" PROVE tbl'[l.pin][l.addr] >= l.ttl
    BY DEF PinInv
  <2>1. PICK k \in learned : /\ l.addr = k.addr /\ l.ttl = Less(k.ttl) /\ l.pin = k.pin /\ k.ttl > 1
    BY <1>5
  <2>2. k \in LearnedSet /\ k.pin \in Sets /\ k.addr \in Addrs /\ k.ttl \in Nat
    BY <1>0, <2>1 DEF TableTypes, LearnedSet
  <2>3. tbl[k.pin][k.addr] >= k.ttl /\ tbl[k.pin][k.addr] \in Nat
    <3>0. k.ttl > 0 /\ k.pin # "none" BY <2>1, <2>2 DEF Sets
    <3>1. tbl[k.pin][k.addr] >= k.ttl BY <1>0, <3>0 DEF PinInv
    <3>2. tbl.allow_ip \in [Addrs -> Nat] /\ tbl.deny_ip \in [Addrs -> Nat] BY <1>2 DEF TableSet
    <3> QED BY <2>2, <3>1, <3>2 DEF Sets
  <2>4. tbl'[l.pin][l.addr] = Less(tbl[k.pin][k.addr])
    BY <1>3, <2>1, <2>2
  <2> QED BY <2>1, <2>2, <2>3, <2>4 DEF Less
<1>9. EarlyInv'
  <2>1. tbl.alive \in Nat BY <1>2 DEF TableSet
  <2> QED BY <1>0, <1>1, <1>3, <2>1 DEF EarlyInv, Less
<1> QED BY <1>6, <1>7, <1>8, <1>9 DEF TableInv
(* The answer: the address is pinned for longer than the answer may live, and
   no other answer loses by it. *)
LEMMA PinAnswerInv == ASSUME TableInv, NEW q \in Queries, PinAnswer(q) PROVE TableInv'
<1>0. TableTypes /\ DivertInv /\ PinInv /\ EarlyInv BY DEF TableInv
<1> DEFINE r == ask[q]
           set == pinSet(r.name)
           n == PinTTL + PinGrace
<1>1. q \in Adders /\ IdleAsk \in AskSet BY IdleAskType DEF Adders
<1>2. /\ r.pc = "pin" /\ r \in AskSet /\ r.addr \in Addrs /\ r.name \in Names
      /\ ask' = [ask EXCEPT ![q] = IdleAsk] /\ UNCHANGED <<keeper, mem, mu, copy, conn>>
  BY <1>0, <1>1 DEF PinAnswer, TableTypes, AskSet
<1>3. set \in Sets \cup {"none"} BY DEF pinSet, Sets
<1>4. CASE UNCHANGED <<tbl, learned>>
  <2>1. AskOK(IdleAsk, tbl', mem') BY IdleAskType DEF AskOK
  <2> QED BY <1>0, <1>1, <1>2, <1>4, <2>1, QueryMoves DEF TableTypes, DivertInv
<1>5. CASE /\ set = "none" \/ tbl.on
           /\ tbl' = IF set = "none" THEN tbl ELSE [tbl EXCEPT ![set][r.addr] = Pinned(@, n)]
           /\ learned' = {l \in learned : l.name # r.name \/ l.addr # r.addr}
                           \cup {[name |-> r.name, addr |-> r.addr,
                                  ttl |-> IF set = "none" THEN 0 ELSE PinTTL, pin |-> set]}
  <2> DEFINE e == [name |-> r.name, addr |-> r.addr, ttl |-> IF set = "none" THEN 0 ELSE PinTTL, pin |-> set]
  <2>1. n \in Nat /\ PinTTL \in Nat /\ PinTTL <= n BY EgressAssumption
  <2>2. tbl \in TableSet BY <1>0 DEF TableTypes
  <2>3. /\ e \in LearnedSet /\ e.name = r.name /\ e.addr = r.addr /\ e.pin = set
        /\ (set # "none" => e.ttl = PinTTL) /\ (set = "none" => e.ttl = 0)
    BY <1>2, <1>3, <2>1 DEF LearnedSet
  <2>4. \A l \in learned' : l \in learned \/ l = e
    BY <1>5
  <2> HIDE DEF set, n, r
  <2>5. /\ tbl' \in TableSet
        /\ tbl'.on = tbl.on /\ tbl'.div = tbl.div /\ tbl'.alive = tbl.alive /\ tbl'.pinned = tbl.pinned
        /\ \A z \in Sets, b \in Addrs :
              tbl'[z][b] = IF z = set /\ b = r.addr THEN n ELSE tbl[z][b]
    <3>1. CASE set = "none"
      BY <1>5, <2>2, <3>1 DEF Sets
    <3>2. CASE set # "none"
      <4>1. set \in Sets /\ r.addr \in Addrs BY <1>2, <1>3, <3>2
      <4>2. tbl' = [tbl EXCEPT ![set][r.addr] = n] BY <1>5, <3>2 DEF Pinned
      <4>3. CASE set = "allow_ip"
        <5> DEFINE g == [tbl.allow_ip EXCEPT ![r.addr] = n]
        <5>1. g \in [Addrs -> Nat] /\ \A b \in Addrs : g[b] = IF b = r.addr THEN n ELSE tbl.allow_ip[b]
          BY <2>1, <2>2, <4>1 DEF TableSet
        <5>2. tbl' = [tbl EXCEPT !.allow_ip = g]
          BY <2>2, <4>2, <4>3 DEF TableSet
        <5> HIDE DEF g
        <5>3. /\ tbl' \in TableSet /\ tbl'.allow_ip = g /\ tbl'.deny_ip = tbl.deny_ip
              /\ tbl'.on = tbl.on /\ tbl'.div = tbl.div /\ tbl'.alive = tbl.alive
              /\ tbl'.pinned = tbl.pinned
          BY <2>2, <5>1, <5>2 DEF TableSet
        <5> QED BY <4>3, <5>1, <5>3 DEF Sets
      <4>4. CASE set = "deny_ip"
        <5> DEFINE g == [tbl.deny_ip EXCEPT ![r.addr] = n]
        <5>1. g \in [Addrs -> Nat] /\ \A b \in Addrs : g[b] = IF b = r.addr THEN n ELSE tbl.deny_ip[b]
          BY <2>1, <2>2, <4>1 DEF TableSet
        <5>2. tbl' = [tbl EXCEPT !.deny_ip = g]
          BY <2>2, <4>2, <4>4 DEF TableSet
        <5> HIDE DEF g
        <5>3. /\ tbl' \in TableSet /\ tbl'.deny_ip = g /\ tbl'.allow_ip = tbl.allow_ip
              /\ tbl'.on = tbl.on /\ tbl'.div = tbl.div /\ tbl'.alive = tbl.alive
              /\ tbl'.pinned = tbl.pinned
          BY <2>2, <5>1, <5>2 DEF TableSet
        <5> QED BY <4>4, <5>1, <5>3 DEF Sets
      <4> QED BY <4>1, <4>3, <4>4 DEF Sets
    <3> QED BY <3>1, <3>2
  <2> HIDE DEF e
  <2>6. \A p \in Adders : ask'[p] = IdleAsk \/ ask'[p] = ask[p]
    BY <1>0, <1>1, <1>2 DEF TableTypes
  <2>7. TableTypes'
    <3>1. ask' \in [Adders -> AskSet] BY <1>0, <1>1, <1>2 DEF TableTypes
    <3>2. \A p \in Adders : ask'[p].pc # "idle" => ask'[p].addr \in Addrs
      BY <1>0, <2>6, IdleAskType DEF TableTypes
    <3>3. learned' \subseteq LearnedSet BY <1>0, <2>3, <2>4 DEF TableTypes
    <3> QED BY <1>0, <1>2, <2>5, <3>1, <3>2, <3>3 DEF TableTypes
  <2>8. DivertInv'
    <3>1. r.name = "d" => r.addr \in mem /\ (tbl.on => r.addr \in tbl.div)
      BY <1>0, <1>1, <1>2 DEF DivertInv, r
    <3>2. \A l \in learned' : l.name = "d" => l.addr \in mem /\ (tbl.on => l.addr \in tbl.div)
      BY <1>0, <2>3, <2>4, <3>1 DEF DivertInv
    <3>3. \A p \in Adders :
             /\ ask'[p].pc = "push" => ask'[p].addr \in mem
             /\ ask'[p].pc = "pin" /\ ask'[p].name = "d" =>
                   ask'[p].addr \in mem /\ (tbl.on => ask'[p].addr \in tbl.div)
      BY <1>0, <2>6, IdleAskType DEF DivertInv
    <3> QED BY <1>0, <1>2, <2>5, <3>2, <3>3 DEF DivertInv
  <2>9. PinInv'
    <3> SUFFICES ASSUME NEW l \in learned', l.ttl > 0, l.pin # "none" PROVE tbl'[l.pin][l.addr] >= l.ttl
      BY DEF PinInv
    <3>1. l \in LearnedSet BY <1>0, <2>3, <2>4 DEF TableTypes
    <3>2. l.pin \in Sets /\ l.addr \in Addrs /\ l.ttl \in Nat /\ l.ttl <= PinTTL
      BY <2>1, <3>1 DEF LearnedSet
    <3>3. CASE l.pin = set /\ l.addr = r.addr
      BY <2>1, <2>5, <3>2, <3>3
    <3>4. CASE ~(l.pin = set /\ l.addr = r.addr)
      <4>1. l \in learned BY <2>3, <2>4, <3>4
      <4>2. tbl[l.pin][l.addr] >= l.ttl BY <1>0, <4>1 DEF PinInv
      <4> QED BY <2>5, <3>2, <3>4, <4>2
    <3> QED BY <3>3, <3>4
  <2>10. EarlyInv' BY <1>0, <1>2, <2>5 DEF EarlyInv
  <2> QED BY <2>7, <2>8, <2>9, <2>10 DEF TableInv
<1> QED BY <1>4, <1>5 DEF PinAnswer

LEMMA TableStep == TableInv /\ [EgressNext]_egressVars => TableInv'
<1> SUFFICES ASSUME TableInv, [EgressNext]_egressVars PROVE TableInv'
  OBVIOUS
<1>1. CASE UNCHANGED egressVars
  BY <1>1 DEF egressVars, TableInv, TableTypes, DivertInv, PinInv, EarlyInv
<1> QED BY <1>1, ResolveInv, InstallCopyInv, InstallRunInv, InstallPinInv, BeatInv, RefreshHostsInv,
           AskInv, AddMemInv, AddTableInv, PinAnswerInv, PacketInv, FlushInv, KillInv, TickInv
        DEF EgressNext

LEMMA TableInit == EgressInit => TableInv
<1> SUFFICES ASSUME EgressInit PROVE TableInv
  OBVIOUS
<1>1. TableTypes BY NoTableType, IdleAskType DEF EgressInit, TableTypes
<1>2. DivertInv BY NoTableType, IdleAskType DEF EgressInit, DivertInv
<1>3. PinInv BY DEF EgressInit, PinInv
<1>4. EarlyInv BY NoTableType DEF EgressInit, EarlyInv
<1> QED BY <1>1, <1>2, <1>3, <1>4 DEF TableInv

(* The table, the memory of the resolver and what the guest was told agree at
   every moment (Diverts.add and install, Resolver.Answer, tableKeeper), for
   any addresses, queries, policies and lifetimes: a table in place diverts
   every address of the diverted host that the guest has, an address is pinned
   for as long as its answer lives, and no table admits before its literal
   hosts are pinned. *)
THEOREM TableAgrees == EgressSpec => []TableSound
<1>1. TableInv => TableSound
  <2> SUFFICES ASSUME TableInv PROVE TableSound
    OBVIOUS
  <2>1. DivertsAgree BY DEF TableInv, DivertInv, DivertsAgree
  <2>2. PinOutlivesAnswer
    <3> SUFFICES ASSUME NEW l \in learned, l.ttl > 0, l.pin # "none" PROVE tbl[l.pin][l.addr] > 0
      BY DEF PinOutlivesAnswer
    <3>1. l \in LearnedSet /\ tbl[l.pin][l.addr] >= l.ttl
      BY DEF TableInv, TableTypes, PinInv
    <3>2. l.pin \in Sets /\ l.addr \in Addrs /\ l.ttl \in Nat
      BY <3>1, EgressAssumption DEF LearnedSet
    <3>3. tbl[l.pin][l.addr] \in Nat
      <4>1. tbl.allow_ip \in [Addrs -> Nat] /\ tbl.deny_ip \in [Addrs -> Nat]
        BY DEF TableInv, TableTypes, TableSet
      <4> QED BY <3>2, <4>1 DEF Sets
    <3> QED BY <3>1, <3>2, <3>3
  <2>3. NoEarlyAdmit BY DEF TableInv, TableTypes, NoEarlyAdmit
  <2> QED BY <2>1, <2>2, <2>3 DEF TableSound
<1> QED BY <1>1, TableInit, TableStep, PTL DEF EgressSpec

-----------------------------------------------------------------------------
(* Induction over numbers. *)

(* The least number of a set, which stands for induction. *)
LEMMA LeastNat == ASSUME NEW T \in SUBSET Nat, T # {} PROVE \E x \in T : \A y \in T : x <= y
<1> DEFINE R == {ss \in Nat \X Nat : ss[1] < ss[2]}
<1>1. IsWellFoundedOn(R, Nat) BY NatLessThanWellFounded DEF OpToRel
<1>2. PICK x \in T : \A y \in T : ~(<<y, x>> \in R) BY <1>1, WFMin
<1>3. ASSUME NEW y \in T PROVE x <= y
  <2>1. x \in Nat /\ y \in Nat /\ <<y, x>> \notin R BY <1>2
  <2> QED BY <2>1
<1> QED BY <1>3

(* A function that goes on from what the number before had, exists. *)
StepsIn(F, S, N) == \A n \in 1..N : \A t \in S : F[n][t] \in S
RunsIn(F, S, N, a) == \E g \in [0..N -> S] : g[0] = a /\ \A n \in 1..N : g[n] = F[n][g[n - 1]]

LEMMA StepsExist ==
    ASSUME NEW S, NEW a \in S, NEW N \in Nat, NEW F, StepsIn(F, S, N)
    PROVE  RunsIn(F, S, N, a)
<1> DEFINE Begins(g, m) == g[0] = a /\ \A n \in 1..m : g[n] = F[n][g[n - 1]]
           T == {m \in 0..N : \A g \in [0..m -> S] : ~Begins(g, m)}
<1> HIDE DEF Begins
<1>1. T = {}
  <2> SUFFICES ASSUME T # {} PROVE FALSE OBVIOUS
  <2>1. PICK x \in T : \A y \in T : x <= y
    <3>1. T \in SUBSET Nat OBVIOUS
    <3> QED BY <3>1, LeastNat
  <2>2. x # 0
    <3> SUFFICES ASSUME x = 0 PROVE FALSE OBVIOUS
    <3>1. [n \in 0..0 |-> a] \in [0..x -> S] /\ Begins([n \in 0..0 |-> a], x) BY DEF Begins
    <3> QED BY <2>1, <3>1
  <2>3. x \in 1..N /\ x - 1 \in 0..N /\ x - 1 \notin T BY <2>1, <2>2
  <2>4. PICK g \in [0..(x - 1) -> S] : Begins(g, x - 1) BY <2>3
  <2> DEFINE h == [n \in 0..x |-> IF n = x THEN F[x][g[x - 1]] ELSE g[n]]
  <2>5. h \in [0..x -> S]
    <3>1. F[x][g[x - 1]] \in S BY <2>3 DEF StepsIn
    <3>2. ASSUME NEW n \in 0..x, n # x PROVE g[n] \in S BY <2>3, <3>2
    <3> QED BY <3>1, <3>2
  <2>6. h[0] = a /\ \A n \in 1..x : h[n] = F[n][h[n - 1]]
    <3>1. h[0] = g[0] /\ g[0] = a BY <2>3, <2>4 DEF Begins
    <3>2. ASSUME NEW n \in 1..x PROVE h[n] = F[n][h[n - 1]]
      <4>1. n - 1 \in 0..x /\ n - 1 # x /\ n \in 0..x BY <2>3
      <4>2. h[n - 1] = g[n - 1] BY <4>1
      <4>3. CASE n = x BY <4>1, <4>2, <4>3
      <4>4. CASE n # x
        <5>1. n \in 1..(x - 1) BY <4>4, <2>3
        <5>2. g[n] = F[n][g[n - 1]] BY <5>1, <2>4 DEF Begins
        <5> QED BY <5>2, <4>1, <4>2, <4>4
      <4> QED BY <4>3, <4>4
    <3> QED BY <3>1, <3>2
  <2> HIDE DEF h
  <2>7. Begins(h, x) BY <2>6 DEF Begins
  <2> QED BY <2>1, <2>5, <2>7
<1>2. N \in 0..N /\ N \notin T BY <1>1
<1> QED BY <1>2 DEF Begins, RunsIn

(* Induction from m, for a set of numbers up to N. *)
LEMMA Upward ==
    ASSUME NEW N \in Nat, NEW m \in 0..N, NEW U, m \in U, \A n \in (m + 1)..N : n - 1 \in U => n \in U
    PROVE  \A n \in m..N : n \in U
<1> DEFINE T == {n \in m..N : n \notin U}
<1> SUFFICES ASSUME T # {} PROVE FALSE OBVIOUS
<1>1. T \in SUBSET Nat OBVIOUS
<1>2. PICK x \in T : \A y \in T : x <= y BY <1>1, LeastNat
<1>3. x \in (m + 1)..N /\ x - 1 \in m..N BY <1>2
<1>4. x - 1 \notin T BY <1>2, <1>3
<1> QED BY <1>2, <1>3, <1>4

-----------------------------------------------------------------------------
(* The answers of the resolver (DnsAnswer). *)

LEMMA PassSteps ==
    ASSUME NEW records \in Seq(AliasOrAddr), NEW names \in SUBSET HostNames
    PROVE  \E g \in [0..Len(records) -> SUBSET HostNames] :
             /\ Pass(names, records) = g[Len(records)] /\ g[0] = names
             /\ \A n \in 1..Len(records) : g[n] = Alias(g[n - 1], records[n])
<1> DEFINE N == Len(records)
           body(g) == [n \in 0..N |-> IF n = 0 THEN names ELSE Alias(g[n - 1], records[n])]
           after == CHOOSE g : g = body(g)
           F == [n \in 1..N |-> [t \in SUBSET HostNames |-> Alias(t, records[n])]]
<1>1. Pass(names, records) = after[N] BY DEF Pass
<1> HIDE DEF after, body, N, F
<1>2. N \in Nat /\ N = Len(records) BY DEF N
<1>3. ASSUME NEW n \in 1..N, NEW t \in SUBSET HostNames PROVE Alias(t, records[n]) \in SUBSET HostNames
  <2>1. records[n] \in AliasOrAddr BY <1>2
  <2>2. records[n].target = "none" \/ records[n].target \in HostNames BY <2>1 DEF AliasOrAddr
  <2> QED BY <2>2 DEF Alias
<1>4. F \in [1..N -> [SUBSET HostNames -> SUBSET HostNames]] BY <1>3 DEF F
<1>5. PICK g \in [0..N -> SUBSET HostNames] : g[0] = names /\ \A n \in 1..N : g[n] = F[n][g[n - 1]]
  <2> DEFINE S == SUBSET HostNames
  <2>1. names \in S /\ StepsIn(F, S, N) BY <1>4 DEF StepsIn
  <2> HIDE DEF S
  <2>2. RunsIn(F, S, N, names) BY <2>1, <1>2, StepsExist
  <2> QED BY <2>2 DEF RunsIn, S
<1>6. \A n \in 1..N : g[n] = Alias(g[n - 1], records[n])
  <2> SUFFICES ASSUME NEW n \in 1..N PROVE g[n] = Alias(g[n - 1], records[n]) OBVIOUS
  <2>1. n - 1 \in 0..N /\ g[n - 1] \in SUBSET HostNames BY <1>2
  <2> QED BY <2>1, <1>5 DEF F
<1>7. g = body(g)
  <2>1. \A n \in 0..N : g[n] = IF n = 0 THEN names ELSE Alias(g[n - 1], records[n]) BY <1>5, <1>6, <1>2
  <2> QED BY <2>1 DEF body
<1>8. after = body(after) BY <1>7 DEF after
<1>9. \A n \in 0..N : after[n] = g[n]
  <2> DEFINE U == {k \in 0..N : after[k] = g[k]}
  <2>1. after[0] = names BY <1>8, <1>2 DEF body
  <2>2. ASSUME NEW n \in 1..N, n - 1 \in U PROVE n \in U
    <3>1. after[n] = Alias(after[n - 1], records[n]) BY <1>8, <1>2 DEF body
    <3> QED BY <3>1, <2>2, <1>6, <1>2
  <2>3. 0 \in 0..N /\ 0 \in U BY <2>1, <1>2, <1>5
  <2> HIDE DEF U
  <2>4. \A n \in (0 + 1)..N : n - 1 \in U => n \in U BY <2>2
  <2>5. \A n \in 0..N : n \in U BY <2>4, <2>3, <1>2, Upward
  <2> QED BY <2>5 DEF U
<1>10. after[N] = g[N] BY <1>9, <1>2
<1> QED BY <1>1, <1>5, <1>6, <1>10, <1>2

LEMMA PassReaches ==
    ASSUME NEW records \in Seq(AliasOrAddr), NEW names \in SUBSET HostNames
    PROVE  /\ Pass(names, records) \in SUBSET HostNames /\ names \subseteq Pass(names, records)
           /\ \A S \in SUBSET HostNames :
                names \subseteq S /\ UnderAliases(S, records) => Pass(names, records) \subseteq S
           /\ \A i \in 1..Len(records) :
                records[i].owner \in names /\ records[i].target # "none" => records[i].target \in Pass(names, records)
<1> DEFINE N == Len(records)
<1>1. PICK g \in [0..N -> SUBSET HostNames] :
        /\ Pass(names, records) = g[N] /\ g[0] = names
        /\ \A n \in 1..N : g[n] = Alias(g[n - 1], records[n])
  BY PassSteps
<1>2. N \in Nat OBVIOUS
<1> HIDE DEF N
<1>3. ASSUME NEW m \in 0..N PROVE g[m] \subseteq g[N]
  <2> DEFINE U == {n \in 0..N : g[m] \subseteq g[n]}
  <2>1. ASSUME NEW n \in (m + 1)..N, n - 1 \in U PROVE n \in U
    <3>1. n \in 1..N /\ n - 1 \in 0..N BY <1>2
    <3>2. g[n - 1] \subseteq g[n] BY <3>1, <1>1 DEF Alias
    <3> QED BY <3>1, <3>2, <2>1
  <2>2. m \in U OBVIOUS
  <2> HIDE DEF U
  <2>3. \A n \in m..N : n \in U BY <2>1, <2>2, <1>2, Upward
  <2> QED BY <2>3, <1>2 DEF U
<1>4. ASSUME NEW S \in SUBSET HostNames, names \subseteq S, UnderAliases(S, records) PROVE g[N] \subseteq S
  <2> DEFINE U == {n \in 0..N : g[n] \subseteq S}
  <2>1. ASSUME NEW n \in (0 + 1)..N, n - 1 \in U PROVE n \in U
    <3>1. n \in 1..N /\ n - 1 \in 0..N BY <1>2
    <3>2. n \in 1..Len(records) BY <3>1 DEF N
    <3>3. records[n].owner \in S /\ records[n].target # "none" => records[n].target \in S
      BY <3>2, <1>4 DEF UnderAliases
    <3>4. g[n] \subseteq S BY <3>1, <3>3, <1>1, <2>1 DEF Alias
    <3> QED BY <3>1, <3>4
  <2>2. 0 \in U /\ 0 \in 0..N BY <1>1, <1>2, <1>4
  <2> HIDE DEF U
  <2>4. \A n \in (0 + 1)..N : n - 1 \in U => n \in U BY <2>1
  <2>3. \A n \in 0..N : n \in U BY <2>4, <2>2, <1>2, Upward
  <2> QED BY <2>3, <1>2 DEF U
<1>5. ASSUME NEW i \in 1..N, records[i].owner \in names, records[i].target # "none"
      PROVE  records[i].target \in g[N]
  <2> DEFINE U == {n \in 0..N : names \subseteq g[n]}
  <2>1. i - 1 \in 0..N /\ i \in 0..N BY <1>2
  <2>2. names \subseteq g[i - 1]
    <3>1. ASSUME NEW n \in (0 + 1)..N, n - 1 \in U PROVE n \in U
      <4>1. n \in 1..N /\ n - 1 \in 0..N BY <1>2
      <4>2. g[n - 1] \subseteq g[n] BY <4>1, <1>1 DEF Alias
      <4> QED BY <4>1, <4>2, <3>1
    <3>2. 0 \in U /\ 0 \in 0..N BY <1>1, <1>2
    <3> HIDE DEF U
    <3>4. \A n \in (0 + 1)..N : n - 1 \in U => n \in U BY <3>1
    <3>3. \A n \in 0..N : n \in U BY <3>4, <3>2, <1>2, Upward
    <3> QED BY <3>3, <2>1 DEF U
  <2>3. records[i].target \in g[i] BY <2>2, <1>5, <1>1 DEF Alias
  <2> QED BY <2>1, <2>3, <1>3
<1>6. names \subseteq g[N] BY <1>1, <1>2, <1>3
<1>7. N \in 0..N /\ g[N] \in SUBSET HostNames BY <1>2
<1> QED BY <1>1, <1>4, <1>5, <1>6, <1>7 DEF N

LEMMA ChainSteps ==
    ASSUME NEW records \in Seq(AliasOrAddr)
    PROVE  \E g \in [0..Len(records) -> SUBSET HostNames] :
             /\ chain(records) = g[Len(records)] /\ g[0] = {"d"}
             /\ \A n \in 1..Len(records) : g[n] = Pass(g[n - 1], records)
<1> DEFINE N == Len(records)
           body(g) == [n \in 0..N |-> IF n = 0 THEN {"d"} ELSE Pass(g[n - 1], records)]
           reached == CHOOSE g : g = body(g)
           S == SUBSET HostNames
           F == [n \in 1..N |-> [t \in S |-> Pass(t, records)]]
<1>1. chain(records) = reached[N] BY DEF chain
<1>2. N \in Nat OBVIOUS
<1>3. \A t \in S : Pass(t, records) \in S BY PassReaches
<1>4. {"d"} \in S BY DnsAssumption
<1> HIDE DEF reached, body, N, F, S
<1>5. StepsIn(F, S, N) BY <1>3 DEF StepsIn, F
<1>6. PICK g \in [0..N -> S] : g[0] = {"d"} /\ \A n \in 1..N : g[n] = F[n][g[n - 1]]
  <2> DEFINE a == {"d"}
  <2>1. a \in S BY <1>2, <1>4
  <2> HIDE DEF a
  <2>2. RunsIn(F, S, N, a) BY <1>2, <1>5, <2>1, StepsExist
  <2> QED BY <2>2 DEF RunsIn, a
<1>7. \A n \in 1..N : g[n] = Pass(g[n - 1], records)
  <2> SUFFICES ASSUME NEW n \in 1..N PROVE g[n] = Pass(g[n - 1], records) OBVIOUS
  <2>1. n - 1 \in 0..N /\ g[n - 1] \in S BY <1>2
  <2> QED BY <2>1, <1>6 DEF F
<1>8. g = body(g)
  <2>1. \A n \in 0..N : g[n] = IF n = 0 THEN {"d"} ELSE Pass(g[n - 1], records) BY <1>6, <1>7, <1>2
  <2> QED BY <2>1 DEF body
<1>9. reached = body(reached) BY <1>8 DEF reached
<1>10. reached[N] = g[N]
  <2> DEFINE U == {k \in 0..N : reached[k] = g[k]}
  <2>1. reached[0] = {"d"} BY <1>9, <1>2 DEF body
  <2>2. ASSUME NEW n \in (0 + 1)..N, n - 1 \in U PROVE n \in U
    <3>1. n \in 1..N BY <1>2
    <3>2. reached[n] = Pass(reached[n - 1], records) BY <3>1, <1>9, <1>2 DEF body
    <3> QED BY <3>1, <3>2, <2>2, <1>7, <1>2
  <2>3. 0 \in 0..N /\ 0 \in U
    <3>1. 0 \in 0..N BY <1>2
    <3>2. reached[0] = g[0] BY <2>1, <1>6
    <3> QED BY <3>1, <3>2
  <2> HIDE DEF U
  <2>4. \A n \in (0 + 1)..N : n - 1 \in U => n \in U BY <2>2
  <2>5. \A n \in 0..N : n \in U BY <2>4, <2>3, <1>2, Upward
  <2> QED BY <2>5, <1>2 DEF U
<1> QED BY <1>1, <1>6, <1>7, <1>10 DEF N, S

(* The aliases whose target was reached. *)
Used(names, records) ==
    {i \in 1..Len(records) : records[i].target # "none" /\ records[i].target \in names}

(* As many passes as there are records close what was reached: a pass that is
   not over uses an alias that no pass before it did. *)
LEMMA ChainCloses ==
    ASSUME NEW records \in Seq(AliasOrAddr)
    PROVE  /\ chain(records) \in SUBSET HostNames /\ "d" \in chain(records)
           /\ UnderAliases(chain(records), records)
           /\ \A S \in SUBSET HostNames :
                "d" \in S /\ UnderAliases(S, records) => chain(records) \subseteq S
<1> DEFINE N == Len(records)
<1>1. PICK g \in [0..N -> SUBSET HostNames] :
        /\ chain(records) = g[N] /\ g[0] = {"d"}
        /\ \A n \in 1..N : g[n] = Pass(g[n - 1], records)
  BY ChainSteps
<1>2. N \in Nat /\ N = Len(records) OBVIOUS
<1> HIDE DEF N
<1>3. ASSUME NEW n \in 1..N
      PROVE  /\ n - 1 \in 0..N /\ n \in 0..N /\ g[n - 1] \in SUBSET HostNames /\ g[n] \in SUBSET HostNames
             /\ g[n - 1] \subseteq g[n]
             /\ \A S \in SUBSET HostNames :
                  g[n - 1] \subseteq S /\ UnderAliases(S, records) => g[n] \subseteq S
             /\ \A i \in 1..N :
                  records[i].owner \in g[n - 1] /\ records[i].target # "none" => records[i].target \in g[n]
  <2>1. n - 1 \in 0..N /\ n \in 0..N BY <1>2
  <2>2. g[n - 1] \in SUBSET HostNames /\ g[n] \in SUBSET HostNames BY <2>1
  <2>3. g[n] = Pass(g[n - 1], records) BY <1>1
  <2> QED BY <2>1, <2>2, <2>3, <1>2, PassReaches
<1>4. ASSUME NEW n \in 0..N
      PROVE  /\ IsFiniteSet(Used(g[n], records)) /\ Cardinality(Used(g[n], records)) \in Nat
             /\ Cardinality(Used(g[n], records)) <= N
             /\ Cardinality(Used(g[n], records)) = N => UnderAliases(g[n], records)
  <2>1. Used(g[n], records) \subseteq 1..N BY <1>2 DEF Used
  <2>2. IsFiniteSet(1..N) /\ Cardinality(1..N) = N
    <3>1. 1 \in Int /\ N \in Int BY <1>2
    <3>2. IsFiniteSet(1..N) /\ Cardinality(1..N) = IF 1 > N THEN 0 ELSE N - 1 + 1 BY <3>1, FS_Interval
    <3> QED BY <3>2, <1>2
  <2>3. /\ IsFiniteSet(Used(g[n], records)) /\ Cardinality(Used(g[n], records)) <= N
        /\ Cardinality(Used(g[n], records)) = N => Used(g[n], records) = 1..N
    BY <2>1, <2>2, FS_Subset
  <2>4. Used(g[n], records) = 1..N => UnderAliases(g[n], records) BY <1>2 DEF Used, UnderAliases
  <2> QED BY <2>3, <2>4, FS_CardinalityType
<1> DEFINE U == {n \in 0..N : UnderAliases(g[n], records) \/ Cardinality(Used(g[n], records)) >= n}
<1>5. ASSUME NEW n \in (0 + 1)..N, n - 1 \in U PROVE n \in U
  <2>0. n \in 1..N BY <1>2
  <2>1. CASE UnderAliases(g[n - 1], records)
    <3>1. g[n] = g[n - 1] BY <2>0, <2>1, <1>3
    <3> QED BY <2>0, <3>1, <2>1, <1>3
  <2>2. CASE ~UnderAliases(g[n - 1], records)
    <3>1. PICK i \in 1..N : /\ records[i].owner \in g[n - 1] /\ records[i].target # "none"
                            /\ records[i].target \notin g[n - 1]
      BY <2>2, <1>2 DEF UnderAliases
    <3>2. i \in Used(g[n], records) /\ i \notin Used(g[n - 1], records) BY <3>1, <2>0, <1>2, <1>3 DEF Used
    <3>3. Used(g[n - 1], records) \subseteq Used(g[n], records) BY <2>0, <1>3 DEF Used
    <3>4. Used(g[n - 1], records) \cup {i} \subseteq Used(g[n], records) BY <3>2, <3>3
    <3>5. Cardinality(Used(g[n - 1], records) \cup {i}) = Cardinality(Used(g[n - 1], records)) + 1
      BY <3>2, <2>0, <1>3, <1>4, FS_AddElement
    <3>6. Cardinality(Used(g[n - 1], records)) >= n - 1 BY <2>2, <1>5
    <3>7. Cardinality(Used(g[n - 1], records) \cup {i}) <= Cardinality(Used(g[n], records))
      BY <3>4, <2>0, <1>3, <1>4, FS_Subset
    <3>8. Cardinality(Used(g[n - 1], records)) \in Nat /\ Cardinality(Used(g[n], records)) \in Nat
      BY <2>0, <1>3, <1>4
    <3> QED BY <3>5, <3>6, <3>7, <3>8, <2>0, <1>2
  <2> QED BY <2>1, <2>2
<1>6. 0 \in 0..N /\ 0 \in U
  <2>1. 0 \in 0..N BY <1>2
  <2> QED BY <2>1, <1>4
<1>7. UnderAliases(g[N], records)
  <2> HIDE DEF U
  <2>1. \A n \in 0..N : n \in U BY <1>5, <1>6, <1>2, Upward
  <2>2. N \in 0..N BY <1>2
  <2>3. UnderAliases(g[N], records) \/ Cardinality(Used(g[N], records)) >= N BY <2>1, <2>2 DEF U
  <2> QED BY <2>2, <2>3, <1>4, <1>2
<1>8. "d" \in g[N]
  <2> DEFINE V == {n \in 0..N : "d" \in g[n]}
  <2>1. ASSUME NEW n \in (0 + 1)..N, n - 1 \in V PROVE n \in V
    <3>1. n \in 1..N BY <1>2
    <3> QED BY <3>1, <2>1, <1>3
  <2>2. 0 \in V BY <1>1, <1>6
  <2> HIDE DEF V
  <2>3. \A n \in 0..N : n \in V BY <2>1, <2>2, <1>6, <1>2, Upward
  <2> QED BY <2>3, <1>2 DEF V
<1>9. ASSUME NEW S \in SUBSET HostNames, "d" \in S, UnderAliases(S, records) PROVE g[N] \subseteq S
  <2> DEFINE V == {n \in 0..N : g[n] \subseteq S}
  <2>1. ASSUME NEW n \in (0 + 1)..N, n - 1 \in V PROVE n \in V
    <3>1. n \in 1..N BY <1>2
    <3> QED BY <3>1, <2>1, <1>3, <1>9
  <2>2. 0 \in V BY <1>1, <1>6, <1>9
  <2> HIDE DEF V
  <2>3. \A n \in 0..N : n \in V BY <2>1, <2>2, <1>6, <1>2, Upward
  <2> QED BY <2>3, <1>2 DEF V
<1>10. g[N] \in SUBSET HostNames BY <1>2
<1> QED BY <1>1, <1>7, <1>8, <1>9, <1>10

DnsSpec == DnsInit /\ [][DnsTry]_dns

DnsInv ==
    \/ dns = <<>>
    \/ \E m \in QueryMsg, local, allowed \in BOOLEAN : dns = <<"query", m, Answer(m, local, allowed)>>
    \/ \E r \in RespMsg : dns = <<"response", r, inspectAnswer(r)>>
    \/ \E s \in Seq(AliasOrAddr) : dns = <<"chain", s, chainAddrs(s)>>

\* The resolver reads the name that it judges, and forwards nothing else; and it lets
\* through the addresses of exactly the names that the aliases of an answer lead to
\* from the name asked, in any order of any number of records: as many passes as there
\* are records are enough (dns.go:66-118, 160-190, 345-410).
THEOREM ResolverIsRight == DnsSpec => []ResolverJudges
<1>1. DnsInit => DnsInv BY DEF DnsInit, DnsInv
<1>2. DnsInv /\ [DnsTry]_dns => DnsInv'
  <2> SUFFICES ASSUME DnsInv, [DnsTry]_dns PROVE DnsInv' OBVIOUS
  <2>1. CASE UNCHANGED dns BY <2>1 DEF DnsInv
  <2>2. ASSUME NEW k \in 1..MaxRecords, NEW s \in [1..k -> AliasOrAddr], dns' = <<"chain", s, chainAddrs(s)>>
        PROVE  DnsInv'
    <3>1. s \in Seq(AliasOrAddr) BY DnsAssumption
    <3> QED BY <3>1, <2>2 DEF DnsInv
  <2>3. ASSUME NEW m \in QueryMsg, NEW local \in BOOLEAN, NEW allowed \in BOOLEAN,
               dns' = <<"query", m, Answer(m, local, allowed)>>
        PROVE  DnsInv'
    BY <2>3 DEF DnsInv
  <2>4. ASSUME NEW r \in RespMsg, dns' = <<"response", r, inspectAnswer(r)>> PROVE DnsInv'
    BY <2>4 DEF DnsInv
  <2> QED BY <2>1, <2>2, <2>3, <2>4 DEF DnsTry
<1>3. DnsInv => ResolverJudges
  <2> SUFFICES ASSUME DnsInv PROVE ResolverJudges OBVIOUS
  <2>1. ASSUME NEW m \in QueryMsg, NEW local \in BOOLEAN, NEW allowed \in BOOLEAN,
               dns = <<"query", m, Answer(m, local, allowed)>>
        PROVE  ResolverJudges
    <3>1. Answer(m, local, allowed) = "forward" => m.name = "plain" /\ m.tail = "clean"
      BY DEF Answer, parseQuery, nameOK
    <3>2. dns[1] = "query" /\ dns[2] = m /\ dns[3] = Answer(m, local, allowed) BY <2>1
    <3> QED BY <3>1, <3>2 DEF ResolverJudges, NameRead, NameJudged
  <2>2. ASSUME NEW r \in RespMsg, dns = <<"response", r, inspectAnswer(r)>> PROVE ResolverJudges
    BY <2>2 DEF ResolverJudges
  <2>3. ASSUME NEW s \in Seq(AliasOrAddr), dns = <<"chain", s, chainAddrs(s)>> PROVE ResolverJudges
    <3>1. dns[1] = "chain" /\ dns[2] = s /\ dns[3] = chainAddrs(s) BY <2>3
    <3>2. HostsOf(s) = chain(s) BY ChainCloses DEF HostsOf
    <3>3. \A i \in 1..Len(s) : s[i].target = "none" => s[i].addr = s[i].owner
      <4> SUFFICES ASSUME NEW i \in 1..Len(s) PROVE s[i].target = "none" => s[i].addr = s[i].owner OBVIOUS
      <4>1. s[i] \in AliasOrAddr OBVIOUS
      <4> QED BY <4>1, DnsAssumption DEF AliasOrAddr
    <3>4. chainAddrs(s) = chain(s) \cap {s[i].addr : i \in {j \in 1..Len(s) : s[j].target = "none"}}
      BY <3>3 DEF chainAddrs
    <3> QED BY <3>1, <3>2, <3>4 DEF ResolverJudges
  <2> QED BY <2>1, <2>2, <2>3 DEF DnsInv, ResolverJudges
<1> QED BY <1>1, <1>2, <1>3, PTL DEF DnsSpec

-----------------------------------------------------------------------------
(* What a route makes of a request (RouteRules). *)

RulesSpec == RulesInit /\ [][RulesServe]_rq

(* A path that is canonical is read segment by segment, up to an empty last one. *)
SeenAs(s, folds, cuts) ==
    IF (s.as = "folded" /\ ~folds) \/ (s.param /\ ~cuts) THEN "raw" ELSE s.base

NamesRead == Bases \cup {"raw"}

SegmentsOf(p) == p \in Seq(Segment) /\ \A i \in DOMAIN p : p[i].base = "own/.." => p[i].as # "plain"

Simple(s) == s \in Segment /\ s.base \notin {"..", "own/.."} /\ s.as # "twice"

LEMMA SegmentsSimple ==
    ASSUME NEW path, SegmentsOf(path), NEW repos, canonical(path, repos), NEW i \in 1..Len(path)
    PROVE  Simple(path[i])
<1>1. path[i] \in Segment /\ i \in DOMAIN path BY DEF SegmentsOf
<1>2. path[i].base # ".." /\ path[i].as # "twice" BY DEF canonical
<1>3. path[i].base # "own/.."
  <2> SUFFICES ASSUME path[i].base = "own/.." PROVE FALSE OBVIOUS
  <2>1. path[i].as # "plain" BY <1>1 DEF SegmentsOf
  <2>2. path[i].as \in {"escaped", "folded"} BY <1>1, <1>2, <2>1 DEF Segment, Writings
  <2>3. path[i].as # "escaped" BY DEF canonical, DotsOrSlash
  <2>4. path[i].as # "folded" BY DEF canonical
  <2> QED BY <2>2, <2>3, <2>4
<1> QED BY <1>1, <1>2, <1>3 DEF Simple

LEMMA ReadsSegment ==
    ASSUME NEW s, Simple(s), NEW names, NEW d, NEW f, NEW c
    PROVE  /\ SeenAs(s, f, c) = "empty" => ReadOne(names, s, d, f, c) = names
           /\ SeenAs(s, f, c) # "empty" => ReadOne(names, s, d, f, c) = Append(names, SeenAs(s, f, c))
  BY DEF Simple, ReadOne, Enter, SeenAs, Segment, Writings, Bases

LEMMA ReadsPath ==
    ASSUME NEW path, SegmentsOf(path), NEW repos, canonical(path, repos),
           NEW d, NEW f, NEW c,
           NEW k \in 1..Len(path), \A i \in 1..k : path[i].base # "empty"
    PROVE  /\ Reading(path, d, f, c) \in Seq(NamesRead)
           /\ Len(Reading(path, d, f, c)) >= k
           /\ \A i \in 1..k : Reading(path, d, f, c)[i] = SeenAs(path[i], f, c)
<1> DEFINE N == Len(path)
           body(g) == [n \in 0..N |-> IF n = 0 THEN <<>> ELSE ReadOne(g[n - 1], path[n], d, f, c)]
           upTo == CHOOSE g : g = body(g)
           last == IF SeenAs(path[N], f, c) = "empty" THEN N - 1 ELSE N
           least(n) == IF n > last THEN last ELSE n
           names(n) == [j \in 1..n |-> SeenAs(path[j], f, c)]
           w == [n \in 0..N |-> names(least(n))]
<1>1. Reading(path, d, f, c) = upTo[N] BY DEF Reading
<1> HIDE DEF canonical, w, upTo, last, least, names, body, N
<1>2. N \in Nat /\ N >= 1 /\ k <= N /\ N = Len(path) /\ DOMAIN path = 1..N BY DEF SegmentsOf, N
<1>3. ASSUME NEW n \in 1..N PROVE SeenAs(path[n], f, c) \in NamesRead /\ (SeenAs(path[n], f, c) = "empty" => n = N)
  <2>1. path[n] \in Segment /\ n \in 1..Len(path) BY <1>2 DEF SegmentsOf
  <2>2. path[n].base \in Bases BY <2>1 DEF Segment
  <2>3. path[n].base = "empty" => n = N BY <1>2, <2>1 DEF canonical
  <2> QED BY <2>2, <2>3 DEF SeenAs, NamesRead
<1>0. last \in 0..N /\ N - 1 <= last /\ (last = N - 1 <=> SeenAs(path[N], f, c) = "empty")
  <2>1. CASE SeenAs(path[N], f, c) = "empty"
    <3>1. last = N - 1 BY <2>1 DEF last
    <3> QED BY <2>1, <3>1, <1>2
  <2>2. CASE SeenAs(path[N], f, c) # "empty"
    <3>1. last = N BY <2>2 DEF last
    <3> QED BY <2>2, <3>1, <1>2
  <2> QED BY <2>1, <2>2
<1>4. ASSUME NEW n \in 1..N PROVE w[n] = ReadOne(w[n - 1], path[n], d, f, c)
  <2>1. n \in Nat /\ n - 1 \in 0..N /\ n \in 0..N /\ n - 1 <= last /\ last \in Nat BY <1>2, <1>0
  <2>0. n \in 1..Len(path) BY <1>2
  <2>2. w[n - 1] = names(n - 1) /\ w[n] = names(least(n)) 
    <3>0. ~(n - 1 > last) BY <2>1
    <3>1. least(n - 1) = n - 1 BY <3>0 DEF least
    <3>2. w[n - 1] = names(least(n - 1)) /\ w[n] = names(least(n)) BY <2>1 DEF w
    <3> QED BY <3>1, <3>2
  <2>5. /\ SeenAs(path[n], f, c) = "empty" => ReadOne(w[n - 1], path[n], d, f, c) = w[n - 1]
        /\ SeenAs(path[n], f, c) # "empty" =>
             ReadOne(w[n - 1], path[n], d, f, c) = Append(w[n - 1], SeenAs(path[n], f, c))
    <3>1. Simple(path[n]) BY <2>0, SegmentsSimple
    <3> QED BY <3>1, ReadsSegment
  <2>3. CASE SeenAs(path[n], f, c) = "empty"
    <3>1. n = N /\ last = N - 1 BY <2>3, <1>3, <1>0
    <3>2. least(n) = n - 1 BY <3>1, <1>2 DEF least
    <3>3. w[n] = names(n - 1) BY <2>2, <3>2
    <3>4. ReadOne(w[n - 1], path[n], d, f, c) = w[n - 1] BY <2>3, <2>5
    <3> QED BY <2>2, <3>3, <3>4
  <2>4. CASE SeenAs(path[n], f, c) # "empty"
    <3>1. least(n) = n BY <2>4, <1>2, <1>0, <2>1 DEF least
    <3>2. names(n) = Append(names(n - 1), SeenAs(path[n], f, c)) 
      <4>1. names(n - 1) \in Seq(NamesRead) /\ Len(names(n - 1)) = n - 1 BY <2>1, <1>2, <1>3 DEF names
      <4>2. Append(names(n - 1), SeenAs(path[n], f, c)) =
              [j \in 1..n |-> IF j = n THEN SeenAs(path[n], f, c) ELSE names(n - 1)[j]]
        BY <4>1, <1>3, <2>1
      <4>3. \A j \in 1..n : j # n => names(n - 1)[j] = SeenAs(path[j], f, c) BY <2>1 DEF names
      <4> QED BY <4>2, <4>3 DEF names
    <3> QED BY <2>2, <2>4, <3>1, <3>2, <2>5
  <2> QED BY <2>3, <2>4
<1>5. w = body(w)
  <2>1. w[0] = <<>> BY <1>2, <1>0 DEF w, names, least
  <2>2. w = [n \in 0..N |-> w[n]] BY DEF w
  <2>3. \A n \in 0..N : w[n] = IF n = 0 THEN <<>> ELSE ReadOne(w[n - 1], path[n], d, f, c)
    BY <1>4, <2>1, <1>2
  <2> QED BY <2>2, <2>3 DEF body
<1>6. upTo = body(upTo) BY <1>5 DEF upTo
<1>7. upTo[N] = w[N]
  <2> DEFINE T == {n \in 0..N : upTo[n] # w[n]}
  <2> SUFFICES ASSUME T # {} PROVE FALSE BY <1>2
  <2>0. T \in SUBSET Nat BY <1>2
  <2>1. PICK x \in T : \A y \in T : x <= y BY <2>0, LeastNat
  <2>a. \A n \in 0..N : /\ w[n] = IF n = 0 THEN <<>> ELSE ReadOne(w[n - 1], path[n], d, f, c)
                        /\ upTo[n] = IF n = 0 THEN <<>> ELSE ReadOne(upTo[n - 1], path[n], d, f, c)
    BY <1>5, <1>6 DEF body
  <2>2. x # 0 /\ x \in 0..N BY <2>a, <2>1
  <2>3. x - 1 \in 0..N /\ x - 1 \notin T BY <2>1, <2>2, <1>2
  <2>4. upTo[x - 1] = w[x - 1] BY <2>3
  <2> QED BY <2>1, <2>2, <2>4, <2>a
<1>8. w[N] = names(last) /\ k <= last
  <2>1. path[k].base # "empty" OBVIOUS
  <2>2. SeenAs(path[k], f, c) # "empty" BY <2>1 DEF SeenAs
  <2>3. k <= last BY <2>2, <1>0, <1>2
  <2> QED BY <2>3, <1>2, <1>0 DEF w, least
<1>9. names(last) \in Seq(NamesRead) /\ Len(names(last)) = last BY <1>2, <1>0, <1>3 DEF names
<1>10. \A i \in 1..k : names(last)[i] = SeenAs(path[i], f, c) BY <1>8, <1>0 DEF names
<1> QED BY <1>1, <1>7, <1>8, <1>9, <1>2, <1>10

(* An upstream reads a request that was checked as the rules read it. *)
RequestOf(r) == /\ r.kind \in RouteKinds /\ SegmentsOf(r.path) /\ r.headers \subseteq HeaderNames
                /\ r.token \subseteq TokenPlaces

LEMMA AllowedHolds ==
    ASSUME NEW r, RequestOf(r), Serve(r).check = "passed", rq = <<r, Serve(r)>>
    PROVE  AllowedIsServed
<1> DEFINE route == RouteOf(r.kind)
           w == Written(r.path)
<1> HIDE DEF route, w
<1>1. /\ canonical(r.path, route.repos # {})
      /\ IF route.services = {} THEN allow(route, r.method, w)
         ELSE serviceTarget(route, r) /\ allow(route, r.method, Tail(w))
  BY DEF Serve, route, w
<1>2. SegmentsOf(r.path) BY DEF RequestOf
<1>3. Len(w) = Len(r.path) /\ Len(w) \in Nat BY <1>2 DEF w, Written, SegmentsOf
<1>4. SUFFICES ASSUME NEW d \in BOOLEAN, NEW f \in BOOLEAN, NEW c \in BOOLEAN
      PROVE  WithinRules(route, Reading(r.path, d, f, c))
  <2>1. rq[1] = r OBVIOUS
  <2> QED BY <2>1 DEF AllowedIsServed, route
<1> DEFINE p == Reading(r.path, d, f, c)
<1> HIDE DEF p
<1>5. ASSUME NEW i \in 1..Len(w), \A j \in 1..i : w[j] \in {"own", "repo"}
      PROVE  p \in Seq(NamesRead) /\ Len(p) >= i /\ \A j \in 1..i : p[j] = w[j]
  <2>1. i \in 1..Len(r.path) BY <1>3
  <2>2. ASSUME NEW j \in 1..i PROVE r.path[j].base = w[j] /\ SeenAs(r.path[j], f, c) = w[j]
    <3>1. j \in 1..Len(r.path) BY <2>1
    <3>2. w[j] = IF r.path[j].param \/ r.path[j].as \in {"twice", "folded"} THEN "raw" ELSE r.path[j].base
      BY <3>1 DEF w, Written
    <3>3. w[j] \in {"own", "repo"} BY <1>5
    <3> QED BY <3>2, <3>3 DEF SeenAs
  <2>3. \A j \in 1..i : r.path[j].base # "empty" BY <2>2, <1>5
  <2>4. /\ p \in Seq(NamesRead) /\ Len(p) >= i /\ \A j \in 1..i : p[j] = SeenAs(r.path[j], f, c)
    BY <1>1, <1>2, <2>1, <2>3, ReadsPath DEF p
  <2> QED BY <2>2, <2>4
<1>6. ASSUME route.repos # {} PROVE Len(p) >= 2 /\ <<p[1], p[2]>> \in route.repos
  <2>1. route.services = {} /\ route.repos = {<<"own", "repo">>} BY <1>6 DEF route, RouteOf
  <2>2. Len(w) >= 2 /\ Match(<<"own", "repo">>, <<w[1], w[2]>>) BY <1>1, <2>1 DEF allow
  <2>4. w[1] = "own" /\ w[2] = "repo" BY <2>2 DEF Match
  <2>5. p \in Seq(NamesRead) /\ Len(p) >= 2 /\ p[1] = "own" /\ p[2] = "repo"
    <3>1. 2 \in 1..Len(w) /\ \A j \in 1..2 : w[j] \in {"own", "repo"} BY <2>2, <1>3, <2>4
    <3> QED BY <3>1, <1>5, <2>4
  <2>6. <<p[1], p[2]>> = <<"own", "repo">> BY <2>5
  <2> QED BY <2>1, <2>5, <2>6
<1>9. ASSUME Len(w) >= 1, w[1] \in {"own", "repo"} PROVE p # <<>> /\ p[1] = w[1]
  <2>1. 1 \in 1..Len(w) /\ \A j \in 1..1 : w[j] \in {"own", "repo"} BY <1>9, <1>3
  <2>2. p \in Seq(NamesRead) /\ Len(p) >= 1 /\ p[1] = w[1] BY <2>1, <1>5
  <2> QED BY <2>2
<1>7. ASSUME route.paths # {} PROVE p # <<>> /\ p[1] = "own"
  <2>1. route.services = {} /\ route.paths = {<<"own", "*">>, <<"own">>} BY <1>7 DEF route, RouteOf
  <2>2. PICK g \in {<<"own", "*">>, <<"own">>} : Match(g, w) BY <1>1, <2>1 DEF allow
  <2>3. Len(g) >= 1 /\ g[1] = "own" /\ Len(g) \in Nat OBVIOUS
  <2>4. Len(w) >= 1 /\ w[1] = "own" BY <2>2, <2>3 DEF Match
  <2> QED BY <2>4, <1>9
<1>8. ASSUME route.services # {} PROVE p # <<>> /\ p[1] \in route.services
  <2>1. route.services = {"own", "repo"} BY <1>8 DEF route, RouteOf
  <2>2. serviceTarget(route, r) BY <1>1, <1>8
  <2>3. /\ r.path # <<>> /\ r.path[1].as = "plain" /\ ~r.path[1].param
        /\ r.path[1].base \in {"own", "repo"}
    BY <2>1, <2>2 DEF serviceTarget
  <2>4. Len(w) >= 1 /\ w[1] = r.path[1].base BY <2>3, <1>2, <1>3 DEF w, Written, SegmentsOf
  <2> QED BY <2>1, <2>3, <2>4, <1>9
<1> QED BY <1>6, <1>7, <1>8 DEF p, WithinRules

LEMMA CleanHolds ==
    ASSUME NEW r, RequestOf(r), Serve(r).check = "passed", rq = <<r, Serve(r)>>
    PROVE  UpstreamClean
<1>1. rq[1] = r /\ rq[2] = Serve(r) OBVIOUS
<1>2. sessionToken(r) /\ ~findPlaceholder(r) BY DEF Serve
<1>3. r.token = {"carrier"} BY <1>2 DEF sessionToken, findPlaceholder, RequestOf, TokenPlaces
<1>4. Serve(r).headers = (r.headers \ Dropped(RouteOf(r.kind), r)) \cup Injected(RouteOf(r.kind)) BY DEF Serve
<1> HIDE DEF Serve
<1> QED BY <1>1, <1>3, <1>4 DEF UpstreamClean, Dropped, fold

RulesInv == rq = <<>> \/ \E r : RequestOf(r) /\ rq = <<r, Serve(r)>>

\* What goes upstream is what the rules allowed and what they looked at, whichever of
\* the escapes and parameters of its path the upstream decodes, folds or cuts, for
\* every path: its repository, tree or service is one of the route's, no header of the
\* guest's survives under a name the route owns, and the session token is not in it
\* (proxy.go:722-783, allow.go, inject.go:189-243).
THEOREM SentIsAllowed == RulesSpec => []SentAsAllowed
<1>1. RulesInit => RulesInv BY DEF RulesInit, RulesInv
<1>2. RulesInv /\ [RulesServe]_rq => RulesInv'
  <2> SUFFICES ASSUME RulesInv, [RulesServe]_rq PROVE RulesInv' OBVIOUS
  <2>1. CASE UNCHANGED rq BY <2>1 DEF RulesInv
  <2>2. ASSUME NEW k \in RouteKinds, NEW m \in {"GET", "DELETE"}, NEW p \in SamplePaths,
               rq' = <<Request(k, m, p, {}, {"carrier"}, "plain"),
                       Serve(Request(k, m, p, {}, {"carrier"}, "plain"))>>
        PROVE  RulesInv'
    <3>1. RequestOf(Request(k, m, p, {}, {"carrier"}, "plain"))
      BY PathAssumption DEF RequestOf, Request, SegmentsOf, TokenPlaces
    <3> HIDE DEF Request
    <3> QED BY <2>2, <3>1 DEF RulesInv
  <2>3. ASSUME NEW k \in RouteKinds, NEW hs \in SUBSET HeaderNames, NEW t \in SUBSET TokenPlaces,
               NEW q \in {"plain", "override"}, NEW path,
               path = <<[base |-> "own", as |-> "plain", param |-> FALSE],
                        [base |-> "repo", as |-> "plain", param |-> FALSE]>>,
               rq' = <<Request(k, "GET", path, hs, t, q), Serve(Request(k, "GET", path, hs, t, q))>>
        PROVE  RulesInv'
    <3>1. path \in Seq(Segment) BY <2>3 DEF Segment, Bases, Writings
    <3>2. \A i \in DOMAIN path : path[i].base # "own/.." BY <2>3
    <3>3. RequestOf(Request(k, "GET", path, hs, t, q)) BY <3>1, <3>2 DEF RequestOf, Request, SegmentsOf
    <3> HIDE DEF Request
    <3> QED BY <2>3, <3>3 DEF RulesInv
  <2> QED BY <2>1, <2>2, <2>3 DEF RulesServe
<1>3. RulesInv => SentAsAllowed
  <2>1. ASSUME NEW r, RequestOf(r), rq = <<r, Serve(r)>> PROVE SentAsAllowed
    <3>1. rq[2] = Serve(r) BY <2>1
    <3>2. CASE Serve(r).check = "passed" BY <2>1, <3>2, AllowedHolds, CleanHolds DEF SentAsAllowed
    <3>3. CASE Serve(r).check # "passed" BY <3>1, <3>3 DEF SentAsAllowed, AllowedIsServed, UpstreamClean
    <3> QED BY <3>2, <3>3
  <2>2. CASE rq = <<>> BY <2>2 DEF SentAsAllowed, AllowedIsServed, UpstreamClean
  <2> QED BY <2>1, <2>2 DEF RulesInv
<1> QED BY <1>1, <1>2, <1>3, PTL DEF RulesSpec

-----------------------------------------------------------------------------
(* Bodies in pieces (BodyScan). *)

(* Words. *)

(* The lengths of the words of a finite set are bounded. *)
LEMMA LengthsBounded ==
    ASSUME NEW S, IsFiniteSet(S), \A s \in S : Len(s) \in Nat
    PROVE  \E b \in Nat : \A s \in S : Len(s) <= b
<1>1. PICK N \in Nat : ExistsBijection(1..N, S) BY FS_NatBijection
<1>2. PICK f : f \in [1..N -> S] /\ \A s \in S : \E i \in 1..N : f[i] = s
  BY <1>1 DEF ExistsBijection, Bijection, Surjection
<1> DEFINE U == {n \in 0..N : \E b \in Nat : \A i \in 1..n : Len(f[i]) <= b}
<1>3. ASSUME NEW n \in (0 + 1)..N, n - 1 \in U PROVE n \in U
  <2>1. n \in 1..N /\ n - 1 \in 0..N OBVIOUS
  <2>2. PICK b \in Nat : \A i \in 1..(n - 1) : Len(f[i]) <= b BY <1>3
  <2>3. Len(f[n]) \in Nat BY <1>2, <2>1
  <2>4. PICK c \in Nat : b <= c /\ Len(f[n]) <= c
    <3>1. b + Len(f[n]) \in Nat /\ b <= b + Len(f[n]) /\ Len(f[n]) <= b + Len(f[n]) BY <2>3
    <3> QED BY <3>1
  <2>5. ASSUME NEW i \in 1..n PROVE Len(f[i]) <= c
    <3>1. CASE i = n BY <2>4, <3>1
    <3>2. CASE i # n
      <4>1. i \in 1..(n - 1) /\ i \in 1..N BY <3>2, <2>1
      <4>2. Len(f[i]) <= b /\ Len(f[i]) \in Nat BY <4>1, <2>2, <1>2
      <4> QED BY <4>2, <2>4
    <3> QED BY <3>1, <3>2
  <2>6. \E e \in Nat : \A i \in 1..n : Len(f[i]) <= e BY <2>4, <2>5
  <2>7. n \in 0..N OBVIOUS
  <2> QED BY <2>6, <2>7
<1>4. 0 \in 0..N /\ 0 \in U
  <2>1. \A i \in 1..0 : Len(f[i]) <= 0 OBVIOUS
  <2> QED BY <2>1
<1> HIDE DEF U
<1>5. N \in U BY <1>3, <1>4, Upward
<1>6. PICK b \in Nat : \A i \in 1..N : Len(f[i]) <= b BY <1>5 DEF U
<1> QED BY <1>6, <1>2

LEMMA MaxIs ==
    ASSUME NEW S \in SUBSET Nat, S # {}, NEW b \in Nat, \A x \in S : x <= b
    PROVE  Max(S) \in S /\ \A x \in S : x <= Max(S)
<1> DEFINE T == {k \in Nat : b - k \in S}
<1>1. PICK y \in S : TRUE OBVIOUS
<1>2. b - y \in T
  <2>1. y \in Nat /\ y <= b BY <1>1
  <2>2. b - y \in Nat /\ b - (b - y) = y BY <2>1
  <2> QED BY <2>2
<1>3. T \in SUBSET Nat /\ T # {} BY <1>2
<1>4. PICK k \in T : \A j \in T : k <= j BY <1>3, LeastNat
<1>5. b - k \in S /\ b - k \in Nat /\ k \in Nat BY <1>4
<1>6. ASSUME NEW x \in S PROVE b - k >= x
  <2>1. x \in Nat /\ x <= b OBVIOUS
  <2>2. b - x \in Nat /\ b - (b - x) = x BY <2>1
  <2>3. b - x \in T BY <2>2
  <2>4. k <= b - x BY <2>3, <1>4
  <2> QED BY <2>1, <2>4, <1>5
<1>7. \E x \in S : \A z \in S : x >= z BY <1>5, <1>6
<1>8. Max(S) \in S /\ \A z \in S : Max(S) >= z BY <1>7 DEF Max
<1> QED
  <2>1. ASSUME NEW x \in S PROVE x <= Max(S)
    <3>1. x \in Nat /\ Max(S) \in Nat BY <1>8
    <3> QED BY <3>1, <1>8
  <2> QED BY <2>1, <1>8

LEMMA LongestIs == Longest \in Nat /\ \A s \in Anchored : Len(s) <= Longest
<1> DEFINE L == {0} \cup {Len(s) : s \in Anchored}
<1>1. PICK b \in Nat : \A s \in Spellings : Len(s) <= b
  <2>1. \A s \in Spellings : Len(s) \in Nat BY BodyAssumption
  <2> QED BY <2>1, BodyAssumption, LengthsBounded
<1>2. L \in SUBSET Nat /\ L # {} /\ \A x \in L : x <= b
  <2>1. \A s \in Anchored : Len(s) \in Nat /\ Len(s) <= b BY <1>1, BodyAssumption DEF Anchored
  <2> QED BY <2>1
<1>3. Max(L) \in L /\ \A x \in L : x <= Max(L) BY <1>1, <1>2, MaxIs
<1> QED BY <1>2, <1>3 DEF Longest

-----------------------------------------------------------------------------
(* The scan of a request. *)

States == [work : Seq(Letters), slashes : Nat]

LEMMA AddsIs ==
    ASSUME NEW slashes \in Nat, NEW c \in Letters
    PROVE  Adds(slashes, c) \in Seq(Letters)
<1>1. [i \in 1..slashes |-> "backslash"] \in Seq(Letters) BY DEF Letters
<1>2. <<>> \in Seq(Letters) /\ <<c>> \in Seq(Letters) /\ <<"slash">> \in Seq(Letters) BY DEF Letters
<1> QED BY <1>1, <1>2 DEF Adds

LEMMA SqueezedIs ==
    ASSUME NEW st \in States, NEW c \in Letters
    PROVE  /\ Squeezed(st, c) \in States
           /\ Squeezed(st, c).work = st.work \o Adds(st.slashes, c)
           /\ Squeezed(st, c).slashes = IF c = "backslash" THEN st.slashes + 1 ELSE 0
<1>1. st.work \in Seq(Letters) /\ st.slashes \in Nat BY DEF States
<1>2. st.work \o Adds(st.slashes, c) \in Seq(Letters) BY <1>1, AddsIs
<1>3. (IF c = "backslash" THEN st.slashes + 1 ELSE 0) \in Nat BY <1>1
<1> QED BY <1>2, <1>3 DEF States, Squeezed

LEMMA SqueezeSteps ==
    ASSUME NEW st \in States, NEW chunk \in Seq(Letters)
    PROVE  \E g \in [0..Len(chunk) -> States] :
             /\ Squeeze(st, chunk) = g[Len(chunk)] /\ g[0] = st
             /\ \A n \in 1..Len(chunk) : g[n] = Squeezed(g[n - 1], chunk[n])
<1> DEFINE N == Len(chunk)
           body(g) == [n \in 0..N |-> IF n = 0 THEN st ELSE Squeezed(g[n - 1], chunk[n])]
           after == CHOOSE g : g = body(g)
           F == [n \in 1..N |-> [t \in States |-> Squeezed(t, chunk[n])]]
<1>1. Squeeze(st, chunk) = after[N] BY DEF Squeeze
<1>2. N \in Nat OBVIOUS
<1>3. \A n \in 1..N : chunk[n] \in Letters OBVIOUS
<1> HIDE DEF after, body, N, F
<1>5. StepsIn(F, States, N) BY <1>3, SqueezedIs DEF StepsIn, F
<1>6. PICK g \in [0..N -> States] : g[0] = st /\ \A n \in 1..N : g[n] = F[n][g[n - 1]]
  <2>1. RunsIn(F, States, N, st) BY <1>2, <1>5, StepsExist
  <2> QED BY <2>1 DEF RunsIn
<1>7. \A n \in 1..N : g[n] = Squeezed(g[n - 1], chunk[n])
  <2> SUFFICES ASSUME NEW n \in 1..N PROVE g[n] = Squeezed(g[n - 1], chunk[n]) OBVIOUS
  <2>1. n - 1 \in 0..N /\ g[n - 1] \in States BY <1>2
  <2> QED BY <2>1, <1>6 DEF F
<1>8. g = body(g)
  <2>1. \A n \in 0..N : g[n] = IF n = 0 THEN st ELSE Squeezed(g[n - 1], chunk[n]) BY <1>6, <1>7, <1>2
  <2> QED BY <2>1 DEF body
<1>9. after = body(after) BY <1>8 DEF after
<1>10. after[N] = g[N]
  <2> DEFINE U == {k \in 0..N : after[k] = g[k]}
  <2>1. after[0] = st BY <1>9, <1>2 DEF body
  <2>2. ASSUME NEW n \in (0 + 1)..N, n - 1 \in U PROVE n \in U
    <3>1. n \in 1..N BY <1>2
    <3>2. after[n] = Squeezed(after[n - 1], chunk[n]) BY <3>1, <1>9, <1>2 DEF body
    <3> QED BY <3>1, <3>2, <2>2, <1>7, <1>2
  <2>3. 0 \in 0..N /\ 0 \in U
    <3>1. 0 \in 0..N BY <1>2
    <3>2. after[0] = g[0] BY <2>1, <1>6
    <3> QED BY <3>1, <3>2
  <2> HIDE DEF U
  <2>4. \A n \in (0 + 1)..N : n - 1 \in U => n \in U BY <2>2
  <2>5. \A n \in 0..N : n \in U BY <2>4, <2>3, <1>2, Upward
  <2> QED BY <2>5, <1>2 DEF U
<1> QED BY <1>1, <1>6, <1>7, <1>10 DEF N

LEMMA SqueezeType ==
    ASSUME NEW st \in States, NEW chunk \in Seq(Letters)
    PROVE  Squeeze(st, chunk) \in States
<1>1. PICK g \in [0..Len(chunk) -> States] : Squeeze(st, chunk) = g[Len(chunk)] BY SqueezeSteps
<1> QED BY <1>1

(* A body in two pieces is squeezed as one. *)
LEMMA SqueezeJoins ==
    ASSUME NEW st \in States, NEW a \in Seq(Letters), NEW b \in Seq(Letters)
    PROVE  Squeeze(st, a \o b) = Squeeze(Squeeze(st, a), b)
<1> DEFINE N == Len(a)
           M == Len(b)
           w == a \o b
<1>1. /\ w \in Seq(Letters) /\ Len(w) = N + M /\ N \in Nat /\ M \in Nat
      /\ \A i \in 1..N : w[i] = a[i]
      /\ \A i \in 1..M : w[N + i] = b[i]
  OBVIOUS
<1> HIDE DEF w
<1>2. PICK g \in [0..(N + M) -> States] :
        /\ Squeeze(st, w) = g[N + M] /\ g[0] = st
        /\ \A n \in 1..(N + M) : g[n] = Squeezed(g[n - 1], w[n])
  <2>1. \E g \in [0..Len(w) -> States] :
        /\ Squeeze(st, w) = g[Len(w)] /\ g[0] = st
        /\ \A n \in 1..Len(w) : g[n] = Squeezed(g[n - 1], w[n])
    BY <1>1, SqueezeSteps
  <2> QED BY <1>1, <2>1
<1>3. PICK h \in [0..N -> States] :
        Squeeze(st, a) = h[N] /\ h[0] = st /\ \A n \in 1..N : h[n] = Squeezed(h[n - 1], a[n])
  BY SqueezeSteps
<1>4. PICK k \in [0..M -> States] :
        /\ Squeeze(Squeeze(st, a), b) = k[M] /\ k[0] = Squeeze(st, a)
        /\ \A n \in 1..M : k[n] = Squeezed(k[n - 1], b[n])
  BY SqueezeType, SqueezeSteps
<1> HIDE DEF N, M
<1>5. g[N] = h[N]
  <2> DEFINE U == {n \in 0..N : g[n] = h[n]}
  <2>1. ASSUME NEW n \in (0 + 1)..N, n - 1 \in U PROVE n \in U
    <3>1. n \in 1..N /\ n \in 1..(N + M) /\ n <= N BY <1>1
    <3>2. w[n] = a[n] BY <3>1, <1>1
    <3> QED BY <3>1, <3>2, <2>1, <1>2, <1>3
  <2>2. 0 \in 0..N /\ 0 \in U BY <1>1, <1>2, <1>3
  <2> HIDE DEF U
  <2>3. \A n \in (0 + 1)..N : n - 1 \in U => n \in U BY <2>1
  <2>4. N \in 0..N BY <1>1
  <2>5. N \in U BY <2>2, <2>3, <2>4, <1>1, Upward
  <2> QED BY <2>5 DEF U
<1>6. g[N + M] = k[M]
  <2> DEFINE U == {n \in 0..M : g[N + n] = k[n]}
  <2>1. ASSUME NEW n \in (0 + 1)..M, n - 1 \in U PROVE n \in U
    <3> DEFINE m == N + n
    <3>1. n \in 1..M /\ m \in 1..(N + M) /\ m - 1 = N + (n - 1) BY <1>1
    <3>2. w[m] = b[n] BY <3>1, <1>1
    <3> HIDE DEF m
    <3>3. g[m] = Squeezed(g[m - 1], b[n]) BY <3>1, <3>2, <1>2
    <3>4. g[N + n] = Squeezed(g[N + (n - 1)], b[n]) BY <3>1, <3>3 DEF m
    <3>5. k[n] = Squeezed(k[n - 1], b[n]) BY <3>1, <1>4
    <3> QED BY <3>1, <3>4, <3>5, <2>1
  <2>2. 0 \in 0..M /\ 0 \in U
    <3>1. N + 0 = N BY <1>1
    <3> QED BY <3>1, <1>1, <1>3, <1>4, <1>5
  <2> HIDE DEF U
  <2>3. \A n \in (0 + 1)..M : n - 1 \in U => n \in U BY <2>1
  <2>4. M \in 0..M BY <1>1
  <2>5. M \in U BY <2>2, <2>3, <2>4, <1>1, Upward
  <2> QED BY <2>5 DEF U
<1> QED BY <1>2, <1>4, <1>6 DEF w

Fresh(slashes) == [work |-> <<>>, slashes |-> slashes]

(* What is squeezed is added to work, whatever work holds. *)
LEMMA SqueezeAppends ==
    ASSUME NEW st \in States, NEW chunk \in Seq(Letters)
    PROVE  /\ Fresh(st.slashes) \in States
           /\ Squeeze(st, chunk).work = st.work \o Squeeze(Fresh(st.slashes), chunk).work
           /\ Squeeze(st, chunk).slashes = Squeeze(Fresh(st.slashes), chunk).slashes
<1> DEFINE N == Len(chunk)
           W == st.work
<1>1. Fresh(st.slashes) \in States /\ W \in Seq(Letters) BY DEF States, Fresh
<1>2. PICK g \in [0..N -> States] :
        /\ Squeeze(st, chunk) = g[N] /\ g[0] = st
        /\ \A n \in 1..N : g[n] = Squeezed(g[n - 1], chunk[n])
  BY SqueezeSteps
<1>3. PICK h \in [0..N -> States] :
        /\ Squeeze(Fresh(st.slashes), chunk) = h[N] /\ h[0] = Fresh(st.slashes)
        /\ \A n \in 1..N : h[n] = Squeezed(h[n - 1], chunk[n])
  BY <1>1, SqueezeSteps
<1>4. N \in Nat /\ \A n \in 1..N : chunk[n] \in Letters OBVIOUS
<1> HIDE DEF N, W
<1> DEFINE U == {n \in 0..N : g[n].work = W \o h[n].work /\ g[n].slashes = h[n].slashes}
<1>5. ASSUME NEW n \in (0 + 1)..N, n - 1 \in U PROVE n \in U
  <2>1. n \in 1..N /\ n - 1 \in 0..N /\ n \in 0..N BY <1>4
  <2>2. g[n - 1] \in States /\ h[n - 1] \in States /\ chunk[n] \in Letters BY <2>1, <1>4
  <2>3. g[n - 1].work = W \o h[n - 1].work /\ g[n - 1].slashes = h[n - 1].slashes BY <1>5
  <2> DEFINE A == Adds(h[n - 1].slashes, chunk[n])
             H == h[n - 1].work
  <2>4. A \in Seq(Letters) /\ H \in Seq(Letters) BY <2>2, AddsIs DEF States
  <2>5. g[n].work = g[n - 1].work \o A /\ h[n].work = H \o A /\ g[n].slashes = h[n].slashes
    <3> DEFINE G == g[n - 1]
               K == h[n - 1]
               c == chunk[n]
    <3>1. g[n] = Squeezed(G, c) /\ h[n] = Squeezed(K, c) BY <2>1, <1>2, <1>3
    <3>5. G \in States /\ K \in States /\ c \in Letters /\ G.slashes = K.slashes BY <2>2, <2>3
    <3>6. A = Adds(K.slashes, c) /\ H = K.work OBVIOUS
    <3>7. g[n - 1] = G OBVIOUS
    <3> HIDE DEF G, K, c, A, H
    <3>2. g[n].work = g[n - 1].work \o A
      <4>1. Squeezed(G, c).work = G.work \o Adds(G.slashes, c) BY <3>5, SqueezedIs
      <4> QED BY <4>1, <3>1, <3>5, <3>6, <3>7
    <3>3. h[n].work = H \o A
      <4>1. Squeezed(K, c).work = K.work \o Adds(K.slashes, c) BY <3>5, SqueezedIs
      <4> QED BY <4>1, <3>1, <3>6
    <3>4. g[n].slashes = h[n].slashes
      <4>1. Squeezed(G, c).slashes = IF c = "backslash" THEN G.slashes + 1 ELSE 0 BY <3>5, SqueezedIs
      <4>2. Squeezed(K, c).slashes = IF c = "backslash" THEN K.slashes + 1 ELSE 0 BY <3>5, SqueezedIs
      <4> QED BY <4>1, <4>2, <3>1, <3>5
    <3> QED BY <3>2, <3>3, <3>4
  <2> HIDE DEF A, H
  <2>6. (W \o H) \o A = W \o (H \o A) BY <2>4, <1>1, ConcatAssociative
  <2>7. g[n].work = W \o h[n].work BY <2>3, <2>5, <2>6 DEF H
  <2> QED BY <2>1, <2>5, <2>7
<1>6. 0 \in 0..N /\ 0 \in U
  <2>1. 0 \in 0..N BY <1>4
  <2>2. g[0].work = W /\ h[0].work = <<>> /\ g[0].slashes = h[0].slashes BY <1>2, <1>3 DEF W, Fresh
  <2>3. W \o <<>> = W BY <1>1, ConcatEmptySeq
  <2> QED BY <2>1, <2>2, <2>3
<1> HIDE DEF U
<1>7. \A n \in (0 + 1)..N : n - 1 \in U => n \in U BY <1>5
<1>8. N \in 0..N BY <1>4
<1>9. N \in U BY <1>6, <1>7, <1>8, <1>4, Upward
<1>10. g[N].work = W \o h[N].work /\ g[N].slashes = h[N].slashes BY <1>9 DEF U
<1> QED BY <1>1, <1>2, <1>3, <1>10 DEF W

(* The ends of a word. *)
LEMMA EndsOf ==
    ASSUME NEW L, NEW w \in Seq(L), NEW n \in 0..Len(w)
    PROVE  /\ Beginning(w, n) \in Seq(L) /\ Len(Beginning(w, n)) = n
           /\ Ending(w, n) \in Seq(L) /\ Len(Ending(w, n)) = n
           /\ \A i \in 1..n : Beginning(w, n)[i] = w[i] /\ Ending(w, n)[i] = w[Len(w) - n + i]
           /\ Beginning(w, Len(w) - n) \o Ending(w, n) = w
<1>1. Len(w) \in Nat /\ n \in Nat /\ n <= Len(w) OBVIOUS
<1>2. ASSUME NEW m \in 0..Len(w)
      PROVE  /\ Beginning(w, m) \in Seq(L) /\ Len(Beginning(w, m)) = m
             /\ \A i \in 1..m : Beginning(w, m)[i] = w[i]
  <2>1. \A i \in 1..m : w[i] \in L BY <1>1
  <2> QED BY <2>1, <1>1, SubSeqProperties DEF Beginning
<1>3. /\ Ending(w, n) \in Seq(L) /\ Len(Ending(w, n)) = n
      /\ \A i \in 1..n : Ending(w, n)[i] = w[Len(w) - n + i]
  <2>1. \A i \in (Len(w) - n + 1)..Len(w) : w[i] \in L BY <1>1
  <2> QED BY <2>1, <1>1, SubSeqProperties DEF Ending
<1>4. Len(w) - n \in 0..Len(w) BY <1>1
<1>5. Beginning(w, Len(w) - n) \o Ending(w, n) = w
  <2> DEFINE a == Beginning(w, Len(w) - n)
             b == Ending(w, n)
  <2>1. a \in Seq(L) /\ Len(a) = Len(w) - n /\ \A i \in 1..(Len(w) - n) : a[i] = w[i] BY <1>2, <1>4
  <2>2. b \in Seq(L) /\ Len(b) = n /\ \A i \in 1..n : b[i] = w[Len(w) - n + i] BY <1>3
  <2> HIDE DEF a, b
  <2>3. a \o b \in Seq(L) /\ Len(a \o b) = Len(w) BY <2>1, <2>2, <1>1
  <2>4. ASSUME NEW i \in 1..Len(w) PROVE (a \o b)[i] = w[i]
    <3>1. CASE i <= Len(w) - n BY <3>1, <2>1, <2>2, <1>1
    <3>2. CASE ~(i <= Len(w) - n)
      <4>1. (a \o b)[i] = b[i - (Len(w) - n)] BY <3>2, <2>1, <2>2, <1>1
      <4>2. i - (Len(w) - n) \in 1..n /\ Len(w) - n + (i - (Len(w) - n)) = i BY <3>2, <1>1
      <4> QED BY <4>1, <4>2, <2>2
    <3> QED BY <3>1, <3>2
  <2>5. a \o b = w BY <2>3, <2>4, SeqEqual
  <2> QED BY <2>5 DEF a, b
<1> QED BY <1>2, <1>3, <1>5

(* A word holds what is in its end, and what it holds is there unless it ends
   before or is longer than what the end and the rest have room for. *)
LEMMA HoldsInEnd ==
    ASSUME NEW L, NEW pre \in Seq(L), NEW w \in Seq(L), NEW s, Len(s) \in Nat, Holds(w, s)
    PROVE  Holds(pre \o w, s)
<1>1. PICK i \in 0..(Len(w) - Len(s)) : HoldsAt(w, s, i) BY DEF Holds
<1>2. Len(pre) \in Nat /\ Len(w) \in Nat /\ Len(pre \o w) = Len(pre) + Len(w) OBVIOUS
<1>3. Len(pre) + i \in 0..(Len(pre \o w) - Len(s)) BY <1>2
<1>4. HoldsAt(pre \o w, s, Len(pre) + i)
  <2> SUFFICES ASSUME NEW j \in 1..Len(s) PROVE (pre \o w)[Len(pre) + i + j] = s[j] BY DEF HoldsAt
  <2>1. i + j \in 1..Len(w) BY <1>2
  <2>2. (pre \o w)[Len(pre) + (i + j)] = w[i + j] BY <2>1
  <2>3. w[i + j] = s[j] BY <1>1 DEF HoldsAt
  <2>4. Len(pre) + (i + j) = Len(pre) + i + j BY <1>2
  <2> QED BY <2>2, <2>3, <2>4
<1> QED BY <1>3, <1>4 DEF Holds

LEMMA HoldsSplits ==
    ASSUME NEW L, NEW pre \in Seq(L), NEW w \in Seq(L), NEW d \in Seq(L), NEW s, Len(s) \in Nat,
           Holds(pre \o (w \o d), s), ~Holds(pre \o w, s), pre = <<>> \/ Len(w) >= Len(s) - 1
    PROVE  Holds(w \o d, s)
<1> DEFINE P == Len(pre)
           W == Len(w)
           D == Len(d)
           all == pre \o (w \o d)
<1>1. /\ P \in Nat /\ W \in Nat /\ D \in Nat /\ Len(w \o d) = W + D /\ Len(all) = P + (W + D)
      /\ Len(pre \o w) = P + W
      /\ \A i \in 1..(W + D) : all[P + i] = (w \o d)[i]
      /\ \A i \in 1..(P + W) : all[i] = (pre \o w)[i]
  <2>1. P \in Nat /\ W \in Nat /\ D \in Nat /\ Len(pre \o w) = P + W OBVIOUS
  <2>2. w \o d \in Seq(L) /\ Len(w \o d) = W + D OBVIOUS
  <2> DEFINE r == w \o d
  <2>3. r \in Seq(L) /\ Len(r) = W + D /\ all = pre \o r BY <2>2
  <2>4. \A i \in 1..W : r[i] = w[i] OBVIOUS
  <2> HIDE DEF r
  <2>5. Len(pre \o r) = P + (W + D) /\ \A i \in 1..(W + D) : (pre \o r)[P + i] = r[i] BY <2>3
  <2>6. ASSUME NEW i \in 1..(P + W) PROVE (pre \o r)[i] = (pre \o w)[i]
    <3>1. CASE i <= P BY <3>1, <2>3, <2>1
    <3>2. CASE ~(i <= P)
      <4> DEFINE k == i - P
      <4>1. k \in 1..W /\ k \in 1..(W + D) /\ i = P + k BY <3>2, <2>1
      <4> HIDE DEF k
      <4>2. (pre \o r)[P + k] = r[k] BY <4>1, <2>5
      <4>3. (pre \o w)[P + k] = w[k] BY <4>1
      <4> QED BY <4>1, <4>2, <4>3, <2>4
    <3> QED BY <3>1, <3>2
  <2> QED BY <2>1, <2>2, <2>3, <2>5, <2>6 DEF r
<1>2. PICK i \in 0..(Len(all) - Len(s)) : HoldsAt(all, s, i) BY DEF Holds
<1> HIDE DEF P, W, D, all
<1>3. i + Len(s) > P + W
  <2> SUFFICES ASSUME i + Len(s) <= P + W PROVE FALSE BY <1>1
  <2>1. i \in 0..(Len(pre \o w) - Len(s)) BY <1>1, <1>2
  <2>2. HoldsAt(pre \o w, s, i)
    <3> SUFFICES ASSUME NEW j \in 1..Len(s) PROVE (pre \o w)[i + j] = s[j] BY DEF HoldsAt
    <3>1. i + j \in 1..(P + W) BY <1>1
    <3>2. all[i + j] = s[j] BY <1>2 DEF HoldsAt
    <3> QED BY <3>1, <3>2, <1>1
  <2> QED BY <2>1, <2>2 DEF Holds
<1>4. i >= P
  <2>1. P \in Nat /\ W \in Nat /\ i \in Nat /\ i + Len(s) > P + W BY <1>1, <1>2, <1>3
  <2>2. CASE P = 0 BY <2>1, <2>2
  <2>3. CASE W >= Len(s) - 1 BY <2>1, <2>3
  <2>4. P = 0 \/ W >= Len(s) - 1
    <3>1. pre = <<>> => P = 0 BY DEF P
    <3> QED BY <3>1 DEF W
  <2> QED BY <2>2, <2>3, <2>4
<1>5. i - P \in 0..(Len(w \o d) - Len(s))
  <2>1. i \in Nat /\ i + Len(s) <= P + (W + D) BY <1>1, <1>2
  <2>2. i - P \in Nat /\ i - P + Len(s) <= W + D BY <2>1, <1>1, <1>4
  <2> QED BY <2>2, <1>1
<1>6. HoldsAt(w \o d, s, i - P)
  <2> SUFFICES ASSUME NEW j \in 1..Len(s) PROVE (w \o d)[i - P + j] = s[j] BY DEF HoldsAt
  <2>1. i - P + j \in 1..(W + D) /\ P + (i - P + j) = i + j BY <1>1, <1>4, <1>5
  <2>2. all[i + j] = s[j] BY <1>2 DEF HoldsAt
  <2> QED BY <2>1, <2>2, <1>1
<1> QED BY <1>5, <1>6 DEF Holds

-----------------------------------------------------------------------------
(* What is between two writes of the scan. *)
Zero == [work |-> <<>>, slashes |-> 0]
ReadWhole(fed) == Squeeze(Zero, fed)

ScanInv ==
    /\ scn.fed \in Seq(Letters)
    /\ scn.hit \in BOOLEAN
    /\ scn.hit => Find(ReadWhole(scn.fed).work)
    /\ ~scn.hit =>
         /\ ~Find(ReadWhole(scn.fed).work)
         /\ scn.work \in Seq(Letters)
         /\ scn.slashes = ReadWhole(scn.fed).slashes
         /\ \E pre \in Seq(Letters) : /\ ReadWhole(scn.fed).work = pre \o scn.work
                                      /\ pre = <<>> \/ Len(scn.work) >= Longest - 1

LEMMA KeptIs ==
    ASSUME NEW w \in Seq(Letters)
    PROVE  \E cut \in Seq(Letters) : /\ Kept(w) \in Seq(Letters) /\ w = cut \o Kept(w)
                                     /\ \/ cut = <<>> /\ Kept(w) = w
                                        \/ Len(Kept(w)) >= Longest - 1
<1> DEFINE keep == IF Longest = 0 THEN 0 ELSE Longest - 1
<1>1. keep \in Nat /\ keep >= Longest - 1 BY LongestIs
<1>2. Kept(w) = IF Len(w) > keep THEN Ending(w, keep) ELSE w BY DEF Kept
<1> HIDE DEF keep
<1>3. CASE Len(w) > keep
  <2>1. keep \in 0..Len(w) /\ Len(w) - keep \in 0..Len(w) BY <1>1, <1>3
  <2>2. /\ Ending(w, keep) \in Seq(Letters) /\ Len(Ending(w, keep)) = keep
        /\ Beginning(w, Len(w) - keep) \o Ending(w, keep) = w
    BY <2>1, EndsOf
  <2>3. Beginning(w, Len(w) - keep) \in Seq(Letters) BY <2>1, EndsOf
  <2> QED BY <1>2, <1>3, <1>1, <2>2, <2>3
<1>4. CASE ~(Len(w) > keep)
  <2>1. Kept(w) = w /\ <<>> \o w = w /\ <<>> \in Seq(Letters) BY <1>2, <1>4, ConcatEmptySeq
  <2> QED BY <2>1
<1> QED BY <1>3, <1>4

LEMMA ScanStep ==
    ASSUME ScanInv, NEW chunk \in Seq(Letters), ScanWrite(chunk)
    PROVE  ScanInv'
<1> DEFINE full == ReadWhole(scn.fed)
           st == Squeeze([work |-> scn.work, slashes |-> scn.slashes], chunk)
           add == Squeeze(Fresh(scn.slashes), chunk)
<1>1. /\ ~scn.hit /\ scn.fed \in Seq(Letters) /\ scn.work \in Seq(Letters)
      /\ ~Find(full.work) /\ scn.slashes = full.slashes
  BY DEF ScanInv, ScanWrite
<1>2. PICK pre \in Seq(Letters) : /\ full.work = pre \o scn.work
                                  /\ pre = <<>> \/ Len(scn.work) >= Longest - 1
  BY <1>1 DEF ScanInv
<1>3. Zero \in States /\ full \in States
  <2>1. <<>> \in Seq(Letters) OBVIOUS
  <2>2. Zero \in States BY <2>1 DEF Zero, States
  <2> QED BY <1>1, <2>2, SqueezeType DEF ReadWhole
<1>4. /\ scn'.fed = scn.fed \o chunk /\ scn'.hit = Find(st.work)
      /\ ~Find(st.work) => scn'.work = Kept(st.work) /\ scn'.slashes = st.slashes
  BY DEF ScanWrite
<1> HIDE DEF full, st, add
<1>5. [work |-> scn.work, slashes |-> scn.slashes] \in States BY <1>1, <1>3 DEF States
<1>6. add \in States /\ st.work = scn.work \o add.work /\ st.slashes = add.slashes
  BY <1>5, SqueezeAppends, SqueezeType DEF st, add
<1>7. ReadWhole(scn.fed \o chunk) = Squeeze(full, chunk) BY <1>1, <1>3, SqueezeJoins DEF ReadWhole, full
<1>8. Squeeze(full, chunk).work = full.work \o add.work /\ Squeeze(full, chunk).slashes = add.slashes
  BY <1>1, <1>3, SqueezeAppends DEF add
<1>9. add.work \in Seq(Letters) BY <1>6 DEF States
<1>10. ReadWhole(scn'.fed).work = pre \o st.work /\ ReadWhole(scn'.fed).slashes = st.slashes
  <2>1. (pre \o scn.work) \o add.work = pre \o (scn.work \o add.work)
    <3> DEFINE x == scn.work
               y == add.work
    <3>1. x \in Seq(Letters) /\ y \in Seq(Letters) BY <1>1, <1>9
    <3> HIDE DEF x, y
    <3>2. (pre \o x) \o y = pre \o (x \o y) BY <3>1, ConcatAssociative
    <3> QED BY <3>2 DEF x, y
  <2> QED BY <2>1, <1>2, <1>4, <1>6, <1>7, <1>8
<1>11. st.work \in Seq(Letters) /\ scn'.fed \in Seq(Letters) BY <1>1, <1>4, <1>6, <1>9
<1>12. Find(ReadWhole(scn'.fed).work) <=> Find(st.work)
  <2>1. ASSUME NEW s \in Anchored, Holds(pre \o st.work, s) PROVE Holds(st.work, s)
    <3>1. Len(s) \in Nat /\ Len(s) <= Longest /\ Longest \in Nat BY BodyAssumption, LongestIs DEF Anchored
    <3>2. ~Holds(pre \o scn.work, s) BY <1>1, <1>2 DEF Find
    <3>3. pre = <<>> \/ Len(scn.work) >= Len(s) - 1 BY <1>1, <1>2, <3>1
    <3> QED BY <2>1, <3>1, <3>2, <3>3, <1>1, <1>6, <1>9, HoldsSplits
  <2>2. ASSUME NEW s \in Anchored, Holds(st.work, s) PROVE Holds(pre \o st.work, s)
    <3>1. Len(s) \in Nat BY BodyAssumption DEF Anchored
    <3> QED BY <2>2, <3>1, <1>11, HoldsInEnd
  <2> QED BY <2>1, <2>2, <1>10 DEF Find
<1>13. scn'.hit \in BOOLEAN BY <1>4 DEF Find
<1>14. ASSUME ~scn'.hit
       PROVE  /\ scn'.work \in Seq(Letters) /\ scn'.slashes = ReadWhole(scn'.fed).slashes
              /\ \E p \in Seq(Letters) : /\ ReadWhole(scn'.fed).work = p \o scn'.work
                                         /\ p = <<>> \/ Len(scn'.work) >= Longest - 1
  <2>1. scn'.work = Kept(st.work) /\ scn'.slashes = st.slashes BY <1>4, <1>14
  <2>2. PICK cut \in Seq(Letters) : /\ Kept(st.work) \in Seq(Letters) /\ st.work = cut \o Kept(st.work)
                                    /\ \/ cut = <<>> /\ Kept(st.work) = st.work
                                       \/ Len(Kept(st.work)) >= Longest - 1
    BY <1>11, KeptIs
  <2>3. pre \o st.work = (pre \o cut) \o scn'.work /\ pre \o cut \in Seq(Letters)
    <3> DEFINE k == Kept(st.work)
    <3>1. k \in Seq(Letters) /\ st.work = cut \o k /\ scn'.work = k BY <2>1, <2>2
    <3> HIDE DEF k
    <3>2. pre \o (cut \o k) = (pre \o cut) \o k BY <3>1, ConcatAssociative
    <3>3. pre \o cut \in Seq(Letters) OBVIOUS
    <3> QED BY <3>1, <3>2, <3>3
  <2>4. CASE cut = <<>> /\ Kept(st.work) = st.work
    <3>1. Len(st.work) >= Len(scn.work) /\ Len(scn.work) \in Nat /\ Len(st.work) \in Nat
      <4> DEFINE x == scn.work
                 y == add.work
      <4>1. x \in Seq(Letters) /\ y \in Seq(Letters) /\ st.work = x \o y BY <1>1, <1>6, <1>9
      <4>2. scn.work = x OBVIOUS
      <4> HIDE DEF x, y
      <4>3. Len(x \o y) = Len(x) + Len(y) /\ Len(x) \in Nat /\ Len(y) \in Nat BY <4>1
      <4> QED BY <4>1, <4>2, <4>3
    <3>2. pre \o cut = pre BY <2>4, ConcatEmptySeq
    <3>3. pre = <<>> \/ Len(scn'.work) >= Longest - 1 BY <3>1, <1>2, <2>1, <2>4, LongestIs
    <3> QED BY <2>1, <2>2, <2>3, <3>2, <3>3, <1>10
  <2>5. CASE Len(Kept(st.work)) >= Longest - 1
    BY <2>1, <2>2, <2>3, <2>5, <1>10
  <2> QED BY <2>2, <2>4, <2>5
<1> QED BY <1>4, <1>10, <1>11, <1>12, <1>13, <1>14 DEF ScanInv

(* A piece is a word. *)
LEMMA PieceIs ==
    ASSUME NEW L \in SUBSET Letters, NEW k \in Nat, NEW chunk \in [1..k -> L]
    PROVE  chunk \in Seq(Letters) /\ Len(chunk) = k
<1>1. chunk \in Seq(L) /\ Len(chunk) = k OBVIOUS
<1>2. \A i \in 1..Len(chunk) : chunk[i] \in Letters BY <1>1
<1> QED BY <1>1, <1>2

LEMMA ScanStarts == ASSUME scn = ScanStart PROVE ScanInv
<1>1. <<>> \in Seq(Letters) /\ Len(<<>>) = 0 OBVIOUS
<1>2. Zero \in States BY <1>1 DEF Zero, States
<1>3. PICK g \in [0..Len(<<>>) -> States] : ReadWhole(<<>>) = g[Len(<<>>)] /\ g[0] = Zero
  BY <1>1, <1>2, SqueezeSteps DEF ReadWhole
<1>4. ReadWhole(<<>>) = Zero BY <1>1, <1>3
<1>5. scn.fed = <<>> /\ scn.work = <<>> /\ scn.slashes = 0 /\ scn.hit = FALSE BY DEF ScanStart
<1>6. ~Find(<<>>)
  <2> SUFFICES ASSUME NEW s \in Anchored, Holds(<<>>, s) PROVE FALSE BY DEF Find
  <2>1. Len(s) \in Nat /\ Len(s) >= AnchorLen /\ AnchorLen \in Nat \ {0} BY BodyAssumption DEF Anchored
  <2> QED BY <1>1, <2>1 DEF Holds
<1>7. ReadWhole(scn.fed).work = <<>> /\ ReadWhole(scn.fed).slashes = 0 BY <1>4, <1>5 DEF Zero
<1>8. <<>> = <<>> \o <<>> BY <1>1, ConcatEmptySeq
<1> QED BY <1>1, <1>5, <1>6, <1>7, <1>8 DEF ScanInv

-----------------------------------------------------------------------------
(* The redaction of a response. *)

Hidden == Seq(Letters \ {Redacted})

(* One letter more: what is left of the word read, and the letter or the mark. *)
LEMMA ReplaceOneIs ==
    ASSUME NEW acc \in Seq(Letters), NEW c \in Letters, NEW s \in Hidden, s # <<>>
    PROVE  /\ ReplaceOne(acc, c, s) \in Seq(Letters)
           /\ \E m \in 0..Len(acc) :
                /\ Len(ReplaceOne(acc, c, s)) = m + 1
                /\ \A j \in 1..m : ReplaceOne(acc, c, s)[j] = acc[j]
                /\ \/ ReplaceOne(acc, c, s)[m + 1] = Redacted
                   \/ /\ m = Len(acc) /\ ReplaceOne(acc, c, s)[m + 1] = c
                      /\ ~EndsIn(ReplaceOne(acc, c, s), s)
<1> DEFINE d == Append(acc, c)
           N == Len(acc)
           S == Len(s)
<1>1. /\ d \in Seq(Letters) /\ Len(d) = N + 1 /\ N \in Nat /\ d[N + 1] = c
      /\ \A j \in 1..N : d[j] = acc[j]
  OBVIOUS
<1>2. S \in Nat /\ S # 0 BY DEF Hidden
<1>3. ReplaceOne(acc, c, s) = IF EndsIn(d, s) THEN Append(Beginning(d, Len(d) - S), Redacted) ELSE d
  BY DEF ReplaceOne
<1>4. N = Len(acc) OBVIOUS
<1>5. S = Len(s) OBVIOUS
<1> HIDE DEF d, N, S
<1>6. CASE EndsIn(d, s)
  <2> DEFINE m == N + 1 - S
             b == Beginning(d, m)
  <2>1. S <= N + 1 BY <1>6, <1>1, <1>5 DEF EndsIn
  <2>2. m \in 0..N /\ m \in 0..Len(d) /\ Len(d) - S = m BY <2>1, <1>1, <1>2
  <2>3. b \in Seq(Letters) /\ Len(b) = m /\ \A j \in 1..m : b[j] = d[j] BY <2>2, <1>1, EndsOf
  <2>4. ReplaceOne(acc, c, s) = Append(b, Redacted) BY <1>3, <1>6, <2>2
  <2> HIDE DEF m, b
  <2>5. Redacted \in Letters BY DEF Letters
  <2>6. /\ Append(b, Redacted) \in Seq(Letters) /\ Len(Append(b, Redacted)) = m + 1
        /\ Append(b, Redacted)[m + 1] = Redacted /\ \A j \in 1..m : Append(b, Redacted)[j] = b[j]
    BY <2>3, <2>5
  <2>7. \A j \in 1..m : b[j] = acc[j] BY <2>2, <2>3, <1>1
  <2> QED BY <2>2, <2>4, <2>6, <2>7, <1>4
<1>7. CASE ~EndsIn(d, s)
  <2>1. N \in 0..N BY <1>1
  <2> QED BY <1>1, <1>3, <1>4, <1>7, <2>1
<1> QED BY <1>6, <1>7

LEMMA ReplaceSteps ==
    ASSUME NEW t \in Seq(Letters), NEW s \in Hidden, s # <<>>
    PROVE  \E g \in [0..Len(t) -> Seq(Letters)] :
             /\ Replaced(t, s) = g[Len(t)] /\ g[0] = <<>>
             /\ \A n \in 1..Len(t) : g[n] = ReplaceOne(g[n - 1], t[n], s)
<1> DEFINE N == Len(t)
           S == Seq(Letters)
           body(g) == [n \in 0..N |-> IF n = 0 THEN <<>> ELSE ReplaceOne(g[n - 1], t[n], s)]
           after == CHOOSE g : g = body(g)
           F == [n \in 1..N |-> [a \in S |-> ReplaceOne(a, t[n], s)]]
<1>1. Replaced(t, s) = after[N] BY DEF Replaced
<1>2. N \in Nat /\ <<>> \in S OBVIOUS
<1>3. \A n \in 1..N : t[n] \in Letters OBVIOUS
<1>4. \A a \in S, n \in 1..N : ReplaceOne(a, t[n], s) \in S BY <1>3, ReplaceOneIs
<1> HIDE DEF after, body, N, F, S
<1>5. StepsIn(F, S, N) BY <1>4 DEF StepsIn, F
<1>6. PICK g \in [0..N -> S] : g[0] = <<>> /\ \A n \in 1..N : g[n] = F[n][g[n - 1]]
  <2> DEFINE a == <<>>
  <2>1. a \in S BY <1>2
  <2>2. a = <<>> OBVIOUS
  <2> HIDE DEF a
  <2>3. RunsIn(F, S, N, a) BY <1>2, <1>5, <2>1, StepsExist
  <2>4. \E g \in [0..N -> S] : g[0] = a /\ \A n \in 1..N : g[n] = F[n][g[n - 1]] BY <2>3 DEF RunsIn
  <2> QED BY <2>2, <2>4
<1>7. \A n \in 1..N : g[n] = ReplaceOne(g[n - 1], t[n], s)
  <2> SUFFICES ASSUME NEW n \in 1..N PROVE g[n] = ReplaceOne(g[n - 1], t[n], s) OBVIOUS
  <2>1. n - 1 \in 0..N /\ g[n - 1] \in S BY <1>2
  <2> QED BY <2>1, <1>6 DEF F
<1>8. g = body(g)
  <2>1. \A n \in 0..N : g[n] = IF n = 0 THEN <<>> ELSE ReplaceOne(g[n - 1], t[n], s) BY <1>6, <1>7, <1>2
  <2> QED BY <2>1 DEF body
<1>9. after = body(after) BY <1>8 DEF after
<1>10. after[N] = g[N]
  <2> DEFINE U == {k \in 0..N : after[k] = g[k]}
  <2>1. after[0] = <<>> BY <1>9, <1>2 DEF body
  <2>2. ASSUME NEW n \in (0 + 1)..N, n - 1 \in U PROVE n \in U
    <3>1. n \in 1..N BY <1>2
    <3>2. after[n] = ReplaceOne(after[n - 1], t[n], s) BY <3>1, <1>9, <1>2 DEF body
    <3> QED BY <3>1, <3>2, <2>2, <1>7, <1>2
  <2>3. 0 \in 0..N /\ 0 \in U
    <3>1. 0 \in 0..N BY <1>2
    <3>2. after[0] = g[0] BY <2>1, <1>6
    <3> QED BY <3>1, <3>2
  <2> HIDE DEF U
  <2>4. \A n \in (0 + 1)..N : n - 1 \in U => n \in U BY <2>2
  <2>5. \A n \in 0..N : n \in U BY <2>4, <2>3, <1>2, Upward
  <2> QED BY <2>5, <1>2 DEF U
<1> QED BY <1>1, <1>6, <1>7, <1>10 DEF N, S

(* What of a word is as the first n letters of another: what comes before the
   first mark, what comes after the last, and all of it when there is none. *)
StartsAs(a, t, n) ==
    \A m \in 0..Len(a) : (\A j \in 1..m : a[j] # Redacted) => m <= n /\ \A j \in 1..m : a[j] = t[j]
AsLong(a, n) == (\A j \in 1..Len(a) : a[j] # Redacted) => Len(a) = n
EndsAs(a, t, n) ==
    \A m \in 0..Len(a) : (\A j \in (Len(a) - m + 1)..Len(a) : a[j] # Redacted)
                        => m <= n /\ \A j \in 0..(m - 1) : a[Len(a) - j] = t[n - j]

LEMMA StartsStep ==
    ASSUME NEW acc \in Seq(Letters), NEW t, NEW n \in Nat, n > 0, t[n] \in Letters, NEW s \in Hidden, s # <<>>,
           StartsAs(acc, t, n - 1), AsLong(acc, n - 1)
    PROVE  StartsAs(ReplaceOne(acc, t[n], s), t, n) /\ AsLong(ReplaceOne(acc, t[n], s), n)
<1> DEFINE r == ReplaceOne(acc, t[n], s)
           N == Len(acc)
<1>1. PICK k \in 0..N : /\ Len(r) = k + 1 /\ \A j \in 1..k : r[j] = acc[j]
                        /\ r[k + 1] = Redacted \/ (k = N /\ r[k + 1] = t[n])
  BY ReplaceOneIs
<1>2. N \in Nat /\ N = Len(acc) OBVIOUS
<1> HIDE DEF r, N
<1>3. ASSUME NEW m \in 0..Len(r), \A j \in 1..m : r[j] # Redacted
      PROVE  m <= n /\ \A j \in 1..m : r[j] = t[j]
  <2>1. CASE m <= k
    <3>1. m \in 0..Len(acc) /\ \A j \in 1..m : acc[j] # Redacted /\ r[j] = acc[j] BY <1>1, <1>2, <1>3, <2>1
    <3>2. m <= n - 1 /\ \A j \in 1..m : acc[j] = t[j] BY <3>1 DEF StartsAs
    <3> QED BY <3>1, <3>2
  <2>2. CASE ~(m <= k)
    <3>1. m = k + 1 /\ k + 1 \in 1..m BY <2>2, <1>1
    <3>2. k = N /\ r[k + 1] = t[n] BY <3>1, <1>1, <1>3
    <3>3. \A j \in 1..N : acc[j] # Redacted /\ r[j] = acc[j] BY <1>1, <1>3, <3>1, <3>2
    <3>4. N = n - 1 BY <3>3, <1>2 DEF AsLong
    <3>5. N \in 0..N BY <1>2
    <3>6. \A j \in 1..N : acc[j] = t[j] BY <3>3, <3>5, <1>2 DEF StartsAs
    <3>7. m = n /\ r[n] = t[n] BY <3>1, <3>2, <3>4
    <3>8. ASSUME NEW j \in 1..m PROVE r[j] = t[j]
      <4>1. j = n \/ j \in 1..N BY <3>4, <3>7
      <4> QED BY <4>1, <3>3, <3>6, <3>7
    <3> QED BY <3>7, <3>8
  <2> QED BY <2>1, <2>2
<1>4. ASSUME \A j \in 1..Len(r) : r[j] # Redacted PROVE Len(r) = n
  <2>1. k + 1 \in 1..Len(r) BY <1>1
  <2>2. k = N BY <2>1, <1>1, <1>4
  <2>3. \A j \in 1..N : acc[j] # Redacted BY <1>1, <1>4, <2>2
  <2> QED BY <2>2, <2>3, <1>1, <1>2 DEF AsLong
<1> QED BY <1>3, <1>4 DEF StartsAs, AsLong, r

LEMMA EndsStep ==
    ASSUME NEW acc \in Seq(Letters), NEW t, NEW n \in Nat, n > 0, t[n] \in Letters, NEW s \in Hidden, s # <<>>,
           EndsAs(acc, t, n - 1)
    PROVE  EndsAs(ReplaceOne(acc, t[n], s), t, n)
<1> DEFINE r == ReplaceOne(acc, t[n], s)
           N == Len(acc)
<1>1. PICK k \in 0..N : /\ Len(r) = k + 1 /\ \A j \in 1..k : r[j] = acc[j]
                        /\ r[k + 1] = Redacted \/ (k = N /\ r[k + 1] = t[n])
  BY ReplaceOneIs
<1>2. N \in Nat /\ N = Len(acc) OBVIOUS
<1> HIDE DEF r, N
<1>3. ASSUME NEW m \in 0..Len(r), \A j \in (Len(r) - m + 1)..Len(r) : r[j] # Redacted
      PROVE  m <= n /\ \A j \in 0..(m - 1) : r[Len(r) - j] = t[n - j]
  <2>1. CASE m = 0 BY <2>1
  <2>2. CASE m # 0
    <3>1. k + 1 \in (Len(r) - m + 1)..Len(r) BY <2>2, <1>1
    <3>2. k = N /\ r[N + 1] = t[n] /\ Len(r) = N + 1 BY <3>1, <1>1, <1>3
    <3>3. m - 1 \in 0..Len(acc) BY <2>2, <3>2, <1>2
    <3>4. \A j \in (Len(acc) - (m - 1) + 1)..Len(acc) : acc[j] # Redacted
      <4> SUFFICES ASSUME NEW j \in (N - (m - 1) + 1)..N PROVE acc[j] # Redacted BY <1>2
      <4>1. j \in 1..N /\ j \in (Len(r) - m + 1)..Len(r) BY <3>2, <3>3, <1>2
      <4> QED BY <4>1, <3>2, <1>1, <1>3
    <3>5. m - 1 <= n - 1 /\ \A j \in 0..(m - 1 - 1) : acc[Len(acc) - j] = t[n - 1 - j]
      BY <3>3, <3>4 DEF EndsAs
    <3>6. ASSUME NEW j \in 0..(m - 1) PROVE r[Len(r) - j] = t[n - j]
      <4>1. CASE j = 0
        <5>1. Len(r) - j = N + 1 /\ n - j = n BY <4>1, <3>2, <1>2
        <5> QED BY <5>1, <3>2
      <4>2. CASE j # 0
        <5> DEFINE i == j - 1
        <5>1. i \in 0..(m - 1 - 1) /\ Len(r) - j = N - i /\ n - j = n - 1 - i /\ N - i \in 1..N
          BY <4>2, <3>2, <3>3, <1>2
        <5> HIDE DEF i
        <5> QED BY <5>1, <3>5, <3>2, <1>1, <1>2
      <4> QED BY <4>1, <4>2
    <3> QED BY <3>5, <3>6
  <2> QED BY <2>1, <2>2
<1> QED BY <1>3 DEF EndsAs, r

LEMMA HoldsStep ==
    ASSUME NEW acc \in Seq(Letters), NEW t \in Seq(Letters), NEW n \in 1..Len(t), NEW s \in Hidden, s # <<>>,
           NEW x \in Hidden, x # <<>>, ~Holds(acc, x), x = s \/ ~Holds(t, x),
           EndsAs(ReplaceOne(acc, t[n], s), t, n)
    PROVE  ~Holds(ReplaceOne(acc, t[n], s), x)
<1> DEFINE r == ReplaceOne(acc, t[n], s)
           N == Len(acc)
           X == Len(x)
           T == Len(t)
<1>0. t[n] \in Letters OBVIOUS
<1>1. PICK k \in 0..N : /\ Len(r) = k + 1 /\ \A j \in 1..k : r[j] = acc[j]
                        /\ r[k + 1] = Redacted \/ (k = N /\ r[k + 1] = t[n] /\ ~EndsIn(r, s))
  BY <1>0, ReplaceOneIs
<1>2. N \in Nat /\ N = Len(acc) /\ T \in Nat /\ T = Len(t) /\ n \in 1..T OBVIOUS
<1>3. X \in Nat /\ X = Len(x) /\ X # 0 /\ \A j \in 1..X : x[j] # Redacted BY DEF Hidden
<1>4. EndsAs(r, t, n) OBVIOUS
<1> SUFFICES ASSUME Holds(r, x) PROVE FALSE OBVIOUS
<1>5. PICK i \in 0..(Len(r) - X) : HoldsAt(r, x, i) BY DEF Holds
<1> HIDE DEF r, N, X, T
<1>6. \A j \in 1..X : r[i + j] = x[j] BY <1>5, <1>3 DEF HoldsAt
<1>7. i + X > k
  <2> SUFFICES ASSUME i + X <= k PROVE FALSE BY <1>1, <1>3
  <2>1. i \in 0..(Len(acc) - Len(x)) BY <1>1, <1>2, <1>3
  <2>2. \A j \in 1..X : acc[i + j] = x[j]
    <3> SUFFICES ASSUME NEW j \in 1..X PROVE acc[i + j] = x[j] OBVIOUS
    <3>1. i + j \in 1..k BY <1>3
    <3> QED BY <3>1, <1>1, <1>6
  <2>3. HoldsAt(acc, x, i) BY <2>2, <1>3 DEF HoldsAt
  <2> QED BY <2>1, <2>3 DEF Holds
<1>8. i + X = k + 1 /\ X \in 1..X /\ i = Len(r) - X BY <1>1, <1>3, <1>7
<1>9. r[k + 1] # Redacted BY <1>3, <1>6, <1>8
<1>10. ~EndsIn(r, s) BY <1>1, <1>9
<1>11. CASE x = s
  <2>1. Len(x) <= Len(r) /\ HoldsAt(r, x, Len(r) - Len(x)) BY <1>3, <1>5, <1>8, <1>1
  <2> QED BY <2>1, <1>10, <1>11 DEF EndsIn
<1>12. CASE ~Holds(t, x)
  <2>1. X \in 0..Len(r) BY <1>1, <1>3, <1>8
  <2>2. ASSUME NEW j \in (Len(r) - X + 1)..Len(r) PROVE r[j] # Redacted
    <3> DEFINE h == j - i
    <3>1. h \in 1..X /\ j = i + h BY <1>1, <1>3, <1>8
    <3> HIDE DEF h
    <3> QED BY <3>1, <1>3, <1>6
  <2>3. X <= n /\ \A j \in 0..(X - 1) : r[Len(r) - j] = t[n - j] BY <2>1, <2>2, <1>4 DEF EndsAs
  <2>4. n - X \in 0..(Len(t) - Len(x)) BY <2>3, <1>2, <1>3
  <2>5. ASSUME NEW j \in 1..X PROVE t[n - X + j] = x[j]
    <3> DEFINE h == X - j
    <3>1. h \in 0..(X - 1) /\ n - X + j = n - h /\ i + j = Len(r) - h BY <1>1, <1>2, <1>3, <1>8
    <3> HIDE DEF h
    <3> QED BY <3>1, <2>3, <1>6
  <2>6. HoldsAt(t, x, n - X) BY <2>5, <1>3 DEF HoldsAt
  <2> QED BY <2>4, <2>6, <1>12 DEF Holds
<1> QED BY <1>11, <1>12

LEMMA ReplacedIs ==
    ASSUME NEW t \in Seq(Letters), NEW s \in Hidden, s # <<>>
    PROVE  /\ Replaced(t, s) \in Seq(Letters)
           /\ StartsAs(Replaced(t, s), t, Len(t)) /\ AsLong(Replaced(t, s), Len(t))
           /\ \A x \in Hidden : x # <<>> /\ (x = s \/ ~Holds(t, x)) => ~Holds(Replaced(t, s), x)
<1> DEFINE N == Len(t)
<1>1. PICK g \in [0..N -> Seq(Letters)] :
        /\ Replaced(t, s) = g[N] /\ g[0] = <<>>
        /\ \A n \in 1..N : g[n] = ReplaceOne(g[n - 1], t[n], s)
  BY ReplaceSteps
<1>2. N \in Nat /\ N = Len(t) /\ \A n \in 1..N : t[n] \in Letters OBVIOUS
<1> HIDE DEF N
<1> DEFINE Clean(a) == \A x \in Hidden : x # <<>> /\ (x = s \/ ~Holds(t, x)) => ~Holds(a, x)
           U == {n \in 0..N : StartsAs(g[n], t, n) /\ AsLong(g[n], n) /\ EndsAs(g[n], t, n) /\ Clean(g[n])}
<1>3. ASSUME NEW n \in (0 + 1)..N, n - 1 \in U PROVE n \in U
  <2> DEFINE a == g[n - 1]
             r == g[n]
  <2>1. n \in 1..N /\ n \in 0..N /\ n \in Nat /\ n > 0 /\ n - 1 \in 0..N BY <1>2
  <2>2. r = ReplaceOne(a, t[n], s) /\ a \in Seq(Letters) /\ t[n] \in Letters BY <2>1, <1>1, <1>2
  <2>3. StartsAs(a, t, n - 1) /\ AsLong(a, n - 1) /\ EndsAs(a, t, n - 1) /\ Clean(a) BY <1>3
  <2>7. g[n] = r OBVIOUS
  <2> HIDE DEF a, r
  <2>4. StartsAs(r, t, n) /\ AsLong(r, n) BY <2>1, <2>2, <2>3, StartsStep
  <2>5. EndsAs(r, t, n) BY <2>1, <2>2, <2>3, EndsStep
  <2>6. Clean(r)
    <3> SUFFICES ASSUME NEW x \in Hidden, x # <<>>, x = s \/ ~Holds(t, x) PROVE ~Holds(r, x) OBVIOUS
    <3>1. ~Holds(a, x) BY <2>3
    <3>2. n \in 1..Len(t) BY <2>1, <1>2
    <3> QED BY <3>1, <3>2, <2>2, <2>5, HoldsStep
  <2> QED BY <2>1, <2>4, <2>5, <2>6, <2>7
<1>4. 0 \in 0..N /\ 0 \in U
  <2>1. 0 \in 0..N /\ Len(<<>>) = 0 BY <1>2
  <2>2. StartsAs(<<>>, t, 0) BY <2>1 DEF StartsAs
  <2>3. AsLong(<<>>, 0) /\ EndsAs(<<>>, t, 0) BY <2>1 DEF AsLong, EndsAs
  <2>4. Clean(<<>>)
    <3> SUFFICES ASSUME NEW x \in Hidden, x # <<>>, Holds(<<>>, x) PROVE FALSE OBVIOUS
    <3>1. Len(x) \in Nat /\ Len(x) # 0 BY DEF Hidden
    <3> QED BY <3>1, <2>1 DEF Holds
  <2> QED BY <2>1, <2>2, <2>3, <2>4, <1>1
<1> HIDE DEF U
<1>5. \A n \in (0 + 1)..N : n - 1 \in U => n \in U BY <1>3
<1>6. N \in 0..N BY <1>2
<1>7. N \in U BY <1>4, <1>5, <1>6, <1>2, Upward
<1>8. StartsAs(g[N], t, N) /\ AsLong(g[N], N) /\ Clean(g[N]) BY <1>7 DEF U
<1>9. g[N] \in Seq(Letters) BY <1>6, <1>1
<1> QED BY <1>1, <1>2, <1>8, <1>9

(* Two replacements one after the other. *)
LEMMA StartsOn ==
    ASSUME NEW a \in Seq(Letters), NEW b \in Seq(Letters), NEW t, NEW n \in Nat,
           StartsAs(a, t, n), AsLong(a, n), StartsAs(b, a, Len(a)), AsLong(b, Len(a))
    PROVE  StartsAs(b, t, n) /\ AsLong(b, n)
<1>1. ASSUME NEW m \in 0..Len(b), \A j \in 1..m : b[j] # Redacted
      PROVE  m <= n /\ \A j \in 1..m : b[j] = t[j]
  <2>1. m <= Len(a) /\ \A j \in 1..m : b[j] = a[j] BY <1>1 DEF StartsAs
  <2>2. m \in 0..Len(a) /\ \A j \in 1..m : a[j] # Redacted BY <1>1, <2>1
  <2>3. m <= n /\ \A j \in 1..m : a[j] = t[j] BY <2>2 DEF StartsAs
  <2> QED BY <2>1, <2>3
<1>2. ASSUME \A j \in 1..Len(b) : b[j] # Redacted PROVE Len(b) = n
  <2>1. Len(b) \in 0..Len(b) /\ Len(b) = Len(a) BY <1>2 DEF AsLong
  <2>2. \A j \in 1..Len(b) : b[j] = a[j] BY <1>2, <2>1 DEF StartsAs
  <2>3. \A j \in 1..Len(a) : a[j] # Redacted BY <1>2, <2>1, <2>2
  <2> QED BY <2>1, <2>3 DEF AsLong
<1> QED BY <1>1, <1>2 DEF StartsAs, AsLong

LEMMA LongestOfIs ==
    ASSUME NEW todo \in SUBSET Secrets, todo # {}
    PROVE  LongestOf(todo) \in todo
<1>1. IsFiniteSet(todo) BY BodyAssumption, FS_Subset
<1>2. \A s \in todo : Len(s) \in Nat BY BodyAssumption
<1>3. PICK b \in Nat : \A s \in todo : Len(s) <= b BY <1>1, <1>2, LengthsBounded
<1> DEFINE S == {Len(s) : s \in todo}
<1>4. S \in SUBSET Nat /\ S # {} /\ \A x \in S : x <= b BY <1>2, <1>3
<1>5. PICK s \in todo : \A t \in todo : Len(t) <= Len(s)
  <2>1. Max(S) \in S /\ \A x \in S : x <= Max(S) BY <1>4, MaxIs
  <2> QED BY <2>1
<1> QED BY <1>5 DEF LongestOf

LEMMA RedactAllIs ==
    ASSUME NEW t \in Seq(Letters)
    PROVE  /\ RedactAll(t) \in Seq(Letters)
           /\ StartsAs(RedactAll(t), t, Len(t)) /\ AsLong(RedactAll(t), Len(t))
           /\ \A s \in Secrets : ~Holds(RedactAll(t), s)
<1> DEFINE C == Cardinality(Secrets)
           S == [data : Seq(Letters), todo : SUBSET Secrets]
           a == [data |-> t, todo |-> Secrets]
           step(st) == LET s == LongestOf(st.todo) IN [data |-> Replaced(st.data, s), todo |-> st.todo \ {s}]
           body(g) == [n \in 0..C |-> IF n = 0 THEN a ELSE step(g[n - 1])]
           after == CHOOSE g : g = body(g)
           F == [n \in 1..C |-> [st \in S |-> IF st.todo = {} THEN st ELSE step(st)]]
           Good(st, n) == /\ StartsAs(st.data, t, Len(t)) /\ AsLong(st.data, Len(t))
                          /\ Cardinality(st.todo) = C - n
                          /\ \A s \in Secrets \ st.todo : ~Holds(st.data, s)
<1>1. RedactAll(t) = after[C].data BY DEF RedactAll
<1>2. C \in Nat /\ IsFiniteSet(Secrets) BY BodyAssumption, FS_CardinalityType
<1>3. a \in S /\ a.data = t /\ a.todo = Secrets OBVIOUS
<1>4. Secrets \subseteq Hidden /\ <<>> \notin Secrets BY BodyAssumption DEF Hidden
<1>5. ASSUME NEW st \in S, st.todo # {}
      PROVE  /\ step(st) \in S
             /\ \A n \in 1..C : Good(st, n - 1) => Good(step(st), n)
  <2> DEFINE s == LongestOf(st.todo)
  <2>1. st.todo \in SUBSET Secrets /\ st.data \in Seq(Letters) OBVIOUS
  <2>2. s \in st.todo BY <2>1, <1>5, LongestOfIs
  <2>3. s \in Hidden /\ s # <<>> BY <2>1, <2>2, <1>4
  <2>4. step(st).data = Replaced(st.data, s) /\ step(st).todo = st.todo \ {s} OBVIOUS
  <2>5. step(st) = [data |-> Replaced(st.data, s), todo |-> st.todo \ {s}] OBVIOUS
  <2> HIDE DEF s, step
  <2>6. /\ Replaced(st.data, s) \in Seq(Letters)
        /\ StartsAs(Replaced(st.data, s), st.data, Len(st.data)) /\ AsLong(Replaced(st.data, s), Len(st.data))
        /\ \A x \in Hidden : x # <<>> /\ (x = s \/ ~Holds(st.data, x)) => ~Holds(Replaced(st.data, s), x)
    BY <2>1, <2>3, ReplacedIs
  <2>7. step(st) \in S BY <2>1, <2>5, <2>6
  <2>8. ASSUME NEW n \in 1..C, Good(st, n - 1) PROVE Good(step(st), n)
    <3>1. StartsAs(step(st).data, t, Len(t)) /\ AsLong(step(st).data, Len(t))
      <4>1. Len(t) \in Nat OBVIOUS
      <4> QED BY <4>1, <2>1, <2>4, <2>6, <2>8, StartsOn
    <3>2. Cardinality(step(st).todo) = C - n
      <4>1. IsFiniteSet(st.todo) BY <2>1, <1>2, FS_Subset
      <4>2. Cardinality(st.todo \ {s}) = Cardinality(st.todo) - 1 BY <4>1, <2>2, FS_RemoveElement
      <4>3. C - (n - 1) - 1 = C - n BY <1>2
      <4> QED BY <4>2, <4>3, <2>4, <2>8
    <3>3. ASSUME NEW x \in Secrets \ step(st).todo PROVE ~Holds(step(st).data, x)
      <4>1. x \in Hidden /\ x # <<>> BY <1>4
      <4>2. x = s \/ x \in Secrets \ st.todo BY <2>4
      <4>3. x = s \/ ~Holds(st.data, x) BY <4>2, <2>8
      <4> QED BY <4>1, <4>3, <2>4, <2>6
    <3> QED BY <3>1, <3>2, <3>3
  <2> QED BY <2>7, <2>8
<1> HIDE DEF step
<1>6. StepsIn(F, S, C)
  <2> SUFFICES ASSUME NEW n \in 1..C, NEW st \in S PROVE F[n][st] \in S BY DEF StepsIn
  <2> QED BY <1>5
<1>20. \A n \in 1..C, st \in S : F[n][st] = IF st.todo = {} THEN st ELSE step(st) OBVIOUS
<1> HIDE DEF S, F, C, a
<1>7. PICK g \in [0..C -> S] : g[0] = a /\ \A n \in 1..C : g[n] = F[n][g[n - 1]]
  <2> HIDE DEF step, body, after, Good
  <2>1. RunsIn(F, S, C, a) BY <1>2, <1>3, <1>6, StepsExist
  <2> QED BY <2>1 DEF RunsIn
<1>8. \A n \in 1..C : g[n - 1] \in S /\ g[n] = IF g[n - 1].todo = {} THEN g[n - 1] ELSE step(g[n - 1])
  <2> SUFFICES ASSUME NEW n \in 1..C
               PROVE  g[n - 1] \in S /\ g[n] = IF g[n - 1].todo = {} THEN g[n - 1] ELSE step(g[n - 1])
    OBVIOUS
  <2>1. n - 1 \in 0..C /\ g[n - 1] \in S BY <1>2, <1>7
  <2> QED BY <2>1, <1>7, <1>20
<1> DEFINE U == {n \in 0..C : Good(g[n], n) /\ (n > 0 => g[n] = step(g[n - 1]))}
<1>9. ASSUME NEW n \in (0 + 1)..C, n - 1 \in U PROVE n \in U
  <2> DEFINE st == g[n - 1]
  <2>1. n \in 1..C /\ n \in 0..C BY <1>2
  <2>2. st \in S /\ Good(st, n - 1) BY <2>1, <1>8, <1>9
  <2>3. Cardinality(st.todo) = C - (n - 1) BY <2>2
  <2>4. st.todo # {}
    <3>1. C - (n - 1) # 0 BY <1>2, <2>1
    <3> QED BY <3>1, <2>3, FS_EmptySet
  <2>5. g[n] = step(st) BY <2>1, <2>4, <1>8
  <2> HIDE DEF st, Good
  <2>6. Good(step(st), n) BY <2>1, <2>2, <2>4, <1>5
  <2> QED BY <2>1, <2>5, <2>6 DEF st
<1>10. 0 \in 0..C /\ 0 \in U
  <2>1. 0 \in 0..C /\ C - 0 = C BY <1>2
  <2>2. StartsAs(t, t, Len(t)) /\ AsLong(t, Len(t))
    <3>1. Len(t) \in Nat OBVIOUS
    <3> QED BY <3>1 DEF StartsAs, AsLong
  <2>3. g[0].data = t /\ g[0].todo = Secrets BY <1>3, <1>7
  <2>4. Cardinality(g[0].todo) = C - 0 BY <2>1, <2>3 DEF C
  <2>5. Good(g[0], 0) BY <2>2, <2>3, <2>4
  <2> HIDE DEF Good
  <2> QED BY <2>1, <2>5
<1>11. \A n \in 0..C : n \in U
  <2> HIDE DEF U
  <2>1. \A n \in (0 + 1)..C : n - 1 \in U => n \in U BY <1>9
  <2> QED BY <2>1, <1>10, <1>2, Upward
<1>12. \A n \in 1..C : g[n] = step(g[n - 1])
  <2> HIDE DEF Good
  <2> QED BY <1>11
<1>13. Good(g[C], C)
  <2> HIDE DEF Good
  <2>1. C \in 0..C BY <1>2
  <2>2. C \in U
    <3> HIDE DEF U
    <3> QED BY <2>1, <1>11
  <2> QED BY <2>2
<1> HIDE DEF U, after, Good
<1>14. g = body(g)
  <2>1. ASSUME NEW n \in 0..C PROVE g[n] = IF n = 0 THEN a ELSE step(g[n - 1])
    <3>1. g[0] = a BY <1>7
    <3>2. CASE n = 0 BY <3>1, <3>2
    <3>3. CASE n # 0
      <4>1. n \in 1..C BY <3>3, <1>2
      <4>2. g[n] = step(g[n - 1]) BY <4>1, <1>12
      <4> QED BY <4>2, <3>3
    <3> QED BY <3>2, <3>3
  <2> QED BY <2>1, <1>7
<1>15. after = body(after) BY <1>14 DEF after
<1>16. after[C] = g[C]
  <2> DEFINE V == {k \in 0..C : after[k] = g[k]}
  <2>1. after[0] = a BY <1>15, <1>2
  <2>2. ASSUME NEW n \in (0 + 1)..C, n - 1 \in V PROVE n \in V
    <3>1. n \in 1..C BY <1>2
    <3>2. after[n] = step(after[n - 1]) BY <3>1, <1>15, <1>2
    <3> QED BY <3>1, <3>2, <2>2, <1>12, <1>2
  <2>3. 0 \in 0..C /\ 0 \in V
    <3>1. 0 \in 0..C BY <1>2
    <3>2. after[0] = g[0] BY <2>1, <1>7
    <3> QED BY <3>1, <3>2
  <2> HIDE DEF V
  <2>4. \A n \in (0 + 1)..C : n - 1 \in V => n \in V BY <2>2
  <2>5. \A n \in 0..C : n \in V BY <2>4, <2>3, <1>2, Upward
  <2> QED BY <2>5, <1>2 DEF V
<1>17. g[C] \in S /\ C \in 0..C BY <1>2, <1>7
<1>18. Cardinality(g[C].todo) = 0 /\ g[C].todo \in SUBSET Secrets /\ g[C].data \in Seq(Letters)
  BY <1>2, <1>13, <1>17 DEF Good, S
<1>19. g[C].todo = {}
  <2>1. IsFiniteSet(g[C].todo) BY <1>18, <1>2, FS_Subset
  <2> QED BY <2>1, <1>18, FS_EmptySet
<1> QED BY <1>1, <1>13, <1>16, <1>18, <1>19 DEF Good

(* The last k letters of a word begin a secret and are not all of it. *)
RedactInv ==
    /\ red.out \in Seq(Letters) /\ red.held \in Seq(Letters)
    /\ \A s \in Secrets : ~Holds(red.out \o red.held, s)
    /\ ~red.end => \A k \in (Len(red.held) + 1)..Len(red.out \o red.held) : ~BeginsSecret(red.out \o red.held, k)
    /\ red.end => red.held = <<>>

LEMMA StartOfSecretIs ==
    ASSUME NEW data \in Seq(Letters)
    PROVE  /\ StartOfSecret(data) \in 0..Len(data)
           /\ \A k \in 1..Len(data) : BeginsSecret(data, k) => k <= StartOfSecret(data)
<1> DEFINE S == {0} \cup {k \in 1..Len(data) : BeginsSecret(data, k)}
<1>1. S \in SUBSET Nat /\ S # {} /\ Len(data) \in Nat /\ \A x \in S : x <= Len(data) /\ x \in 0..Len(data) OBVIOUS
<1>2. Max(S) \in S /\ \A x \in S : x <= Max(S) BY <1>1, MaxIs
<1> QED BY <1>1, <1>2 DEF StartOfSecret

(* What goes out with what is held is the word that was, and the new data. *)
LEMMA RedactsOn ==
    ASSUME NEW out \in Seq(Letters), NEW held \in Seq(Letters), NEW chunk \in Seq(Letters), NEW data \in Seq(Letters),
           \A s \in Secrets : ~Holds(out \o held, s),
           \A k \in (Len(held) + 1)..Len(out \o held) : ~BeginsSecret(out \o held, k),
           StartsAs(data, held \o chunk, Len(held \o chunk)), AsLong(data, Len(held \o chunk)),
           \A s \in Secrets : ~Holds(data, s)
    PROVE  /\ \A s \in Secrets : ~Holds(out \o data, s)
           /\ \A k \in (Len(data) + 1)..Len(out \o data) : ~BeginsSecret(out \o data, k)
<1> DEFINE O == Len(out)
           H == Len(held)
           C == Len(chunk)
           X == Len(data)
           old == out \o held
           now == out \o data
           read == held \o chunk
<1>1. /\ O \in Nat /\ H \in Nat /\ C \in Nat /\ X \in Nat /\ O = Len(out) /\ H = Len(held) /\ X = Len(data)
      /\ Len(old) = O + H /\ \A i \in 1..O : old[i] = out[i]
      /\ \A i \in 1..H : old[O + i] = held[i]
      /\ Len(now) = O + X /\ \A i \in 1..O : now[i] = out[i]
      /\ \A i \in 1..X : now[O + i] = data[i]
      /\ Len(read) = H + C /\ \A i \in 1..H : read[i] = held[i]
  OBVIOUS
<1>2. \A s \in Secrets : Len(s) \in Nat /\ Len(s) > 0 /\ \A j \in 1..Len(s) : s[j] # Redacted
  BY BodyAssumption
<1>3. \A m \in 0..X : (\A j \in 1..m : data[j] # Redacted) => m <= H + C /\ \A j \in 1..m : data[j] = read[j]
  BY <1>1 DEF StartsAs
<1>4. (\A j \in 1..X : data[j] # Redacted) => X = H + C BY <1>1 DEF AsLong
<1>5. \A s \in Secrets : ~Holds(old, s) OBVIOUS
<1>6. \A k \in (H + 1)..(O + H) : ~BeginsSecret(old, k) BY <1>1
<1> HIDE DEF O, H, C, X, old, now, read
<1>7. ASSUME NEW s \in Secrets, Holds(now, s) PROVE FALSE
  <2> DEFINE S == Len(s)
  <2>1. S \in Nat /\ S > 0 /\ \A j \in 1..S : s[j] # Redacted BY <1>2
  <2>2. PICK i \in 0..(O + X - S) : \A j \in 1..S : now[i + j] = s[j]
    <3>1. PICK i \in 0..(Len(now) - S) : HoldsAt(now, s, i) BY <1>7 DEF Holds
    <3>2. i \in 0..(O + X - S) BY <3>1, <1>1
    <3>3. \A j \in 1..S : now[i + j] = s[j] BY <3>1 DEF HoldsAt
    <3> QED BY <3>2, <3>3
  <2>3. ASSUME NEW p \in 0..(O + H - S), \A j \in 1..S : old[p + j] = s[j] PROVE FALSE
    <3>1. HoldsAt(old, s, p) /\ p \in 0..(Len(old) - Len(s)) BY <2>3, <1>1 DEF HoldsAt
    <3> QED BY <3>1, <1>5 DEF Holds
  <2>4. S = Len(s) OBVIOUS
  <2> HIDE DEF S
  <2>5. CASE i + S <= O
    <3>1. i \in 0..(O + H - S) BY <2>5, <1>1, <2>1
    <3>2. ASSUME NEW j \in 1..S PROVE old[i + j] = s[j]
      <4>1. i + j \in 1..O BY <2>5, <2>1, <1>1
      <4> QED BY <4>1, <2>2, <1>1
    <3> QED BY <3>1, <3>2, <2>3
  <2>6. CASE i >= O
    <3>1. i - O \in 0..(Len(data) - Len(s)) BY <2>6, <2>4, <1>1, <2>1
    <3>2. ASSUME NEW j \in 1..S PROVE data[i - O + j] = s[j]
      <4> DEFINE h == i - O + j
      <4>1. h \in 1..X /\ i + j = O + h BY <2>6, <1>1, <2>1
      <4> HIDE DEF h
      <4>2. now[O + h] = data[h] BY <4>1, <1>1
      <4> QED BY <4>1, <4>2, <2>2 DEF h
    <3>3. HoldsAt(data, s, i - O) BY <3>2, <2>4 DEF HoldsAt
    <3>4. Holds(data, s) BY <3>1, <3>3 DEF Holds
    <3> QED BY <3>4
  <2>7. CASE i < O /\ i + S > O
    <3> DEFINE m == i + S - O
    <3>1. m \in 0..X /\ m \in 1..S /\ O = i + (S - m) BY <2>7, <1>1, <2>1
    <3>2. ASSUME NEW j \in 1..m PROVE data[j] = s[S - m + j]
      <4> DEFINE h == S - m + j
      <4>1. j \in 1..X /\ h \in 1..S /\ O + j = i + h BY <3>1, <1>1, <2>1
      <4> HIDE DEF h, m
      <4>2. now[O + j] = data[j] BY <4>1, <1>1
      <4>3. now[i + h] = s[h] BY <4>1, <2>2
      <4> QED BY <4>1, <4>2, <4>3 DEF h
    <3> HIDE DEF m
    <3>3. \A j \in 1..m : S - m + j \in 1..S BY <3>1, <2>1
    <3>4. \A j \in 1..m : data[j] # Redacted BY <3>2, <3>3, <2>1
    <3>5. m <= H + C /\ \A j \in 1..m : data[j] = read[j] BY <3>1, <3>4, <1>3
    <3>6. ASSUME NEW j \in 1..S, i + j <= O + H PROVE old[i + j] = s[j]
      <4>1. CASE i + j <= O
        <5>1. i + j \in 1..O BY <4>1
        <5> QED BY <5>1, <2>2, <1>1
      <4>2. CASE ~(i + j <= O)
        <5> DEFINE h == i + j - O
        <5>1. h \in 1..H /\ h \in 1..m /\ i + j = O + h /\ S - m + h = j BY <4>2, <3>6, <3>1, <1>1, <2>1
        <5> HIDE DEF h
        <5>2. old[O + h] = held[h] /\ read[h] = held[h] BY <5>1, <1>1
        <5>3. data[h] = s[S - m + h] /\ data[h] = read[h] BY <5>1, <3>2, <3>5
        <5> QED BY <5>1, <5>2, <5>3
      <4> QED BY <4>1, <4>2
    <3>7. CASE m <= H
      <4>1. i \in 0..(O + H - S) BY <3>7, <3>1, <1>1, <2>1
      <4>2. \A j \in 1..S : i + j <= O + H BY <3>7, <3>1, <1>1, <2>1
      <4> QED BY <4>1, <4>2, <3>6, <2>3
    <3>8. CASE m > H
      <4> DEFINE k == O + H - i
      <4>1. k \in (H + 1)..(O + H) /\ k < S /\ O + H - k = i BY <3>8, <2>7, <3>1, <1>1, <2>1
      <4>2. ASSUME NEW j \in 1..k PROVE s[j] = old[O + H - k + j]
        <5>1. j \in 1..S /\ i + j <= O + H BY <4>1, <1>1, <2>1
        <5> QED BY <5>1, <4>1, <3>6
      <4> HIDE DEF k
      <4>3. k < Len(s) /\ \A j \in 1..k : s[j] = old[Len(old) - k + j]
        <5>1. Len(old) - k = O + H - k BY <1>1, <4>1
        <5> QED BY <5>1, <4>1, <4>2, <2>4
      <4>4. BeginsSecret(old, k) BY <4>3 DEF BeginsSecret
      <4> QED BY <4>1, <4>4, <1>6
    <3> QED BY <3>1, <3>7, <3>8, <1>1
  <2> QED BY <2>5, <2>6, <2>7, <1>1, <2>1
<1>8. ASSUME NEW k \in (X + 1)..(O + X), BeginsSecret(now, k) PROVE FALSE
  <2>1. PICK s \in Secrets : k < Len(s) /\ \A j \in 1..k : s[j] = now[O + X - k + j]
    BY <1>8, <1>1 DEF BeginsSecret
  <2> DEFINE S == Len(s)
             p == O + X - k
  <2>2. S \in Nat /\ k < S /\ \A j \in 1..S : s[j] # Redacted BY <1>2, <2>1
  <2>3. k \in Nat /\ k > X /\ p \in 0..O /\ p < O /\ p + k = O + X BY <1>1
  <2>4. \A j \in 1..k : s[j] = now[p + j] BY <2>1
  <2>5. S = Len(s) OBVIOUS
  <2> HIDE DEF S, p
  <2>6. ASSUME NEW j \in 1..X PROVE data[j] # Redacted /\ data[j] = s[O - p + j]
    <3> DEFINE h == O - p + j
    <3>1. h \in 1..k /\ h \in 1..S /\ p + h = O + j BY <2>2, <2>3, <1>1
    <3> HIDE DEF h
    <3>2. now[O + j] = data[j] BY <1>1
    <3>3. s[h] = now[p + h] /\ s[h] # Redacted BY <3>1, <2>2, <2>4
    <3> QED BY <3>1, <3>2, <3>3 DEF h
  <2>7. X = H + C BY <2>6, <1>4
  <2>8. X \in 0..X /\ \A j \in 1..X : data[j] = read[j]
    <3>1. X \in 0..X BY <1>1
    <3> QED BY <3>1, <2>6, <1>3
  <2> DEFINE q == k - C
  <2>9. q \in (H + 1)..(O + H) /\ O + H - q = p /\ q < S /\ q <= k BY <2>2, <2>3, <2>7, <1>1
  <2> HIDE DEF q
  <2>10. ASSUME NEW j \in 1..q PROVE s[j] = old[p + j]
    <3>1. j \in 1..k /\ p + j <= O + H BY <2>3, <2>9, <1>1
    <3>2. s[j] = now[p + j] BY <3>1, <2>4
    <3>3. CASE p + j <= O
      <4>1. p + j \in 1..O BY <3>3, <2>3
      <4> QED BY <4>1, <3>2, <1>1
    <3>4. CASE ~(p + j <= O)
      <4> DEFINE h == p + j - O
      <4>1. h \in 1..H /\ h \in 1..X /\ p + j = O + h BY <3>1, <3>4, <2>3, <2>7, <1>1
      <4> HIDE DEF h
      <4>2. now[O + h] = data[h] /\ old[O + h] = held[h] /\ read[h] = held[h] BY <4>1, <1>1
      <4> QED BY <4>1, <4>2, <3>2, <2>8
    <3> QED BY <3>3, <3>4
  <2>11. BeginsSecret(old, q)
    <3>1. Len(old) - q = p BY <2>9, <1>1
    <3>2. q < Len(s) /\ \A j \in 1..q : s[j] = old[Len(old) - q + j] BY <3>1, <2>5, <2>9, <2>10
    <3> QED BY <3>2 DEF BeginsSecret
  <2> QED BY <2>9, <2>11, <1>6
<1> QED BY <1>1, <1>7, <1>8 DEF now

LEMMA RedactStep ==
    ASSUME RedactInv, NEW chunk \in Seq(Letters), NEW last \in BOOLEAN, RedactorRead(chunk, last)
    PROVE  RedactInv'
<1> DEFINE data == RedactAll(red.held \o chunk)
           keep == IF last THEN 0 ELSE StartOfSecret(data)
<1>1. /\ ~red.end /\ red.out \in Seq(Letters) /\ red.held \in Seq(Letters)
      /\ \A s \in Secrets : ~Holds(red.out \o red.held, s)
      /\ \A k \in (Len(red.held) + 1)..Len(red.out \o red.held) : ~BeginsSecret(red.out \o red.held, k)
  BY DEF RedactInv, RedactorRead
<1>2. red.held \o chunk \in Seq(Letters)
  <2> DEFINE h == red.held
  <2>1. h \in Seq(Letters) BY <1>1
  <2> HIDE DEF h
  <2>2. h \o chunk \in Seq(Letters) BY <2>1
  <2> QED BY <2>2 DEF h
<1>3. /\ data \in Seq(Letters) /\ StartsAs(data, red.held \o chunk, Len(red.held \o chunk))
      /\ AsLong(data, Len(red.held \o chunk)) /\ \A s \in Secrets : ~Holds(data, s)
  BY <1>2, RedactAllIs
<1>4. /\ red'.end = last /\ red'.out = red.out \o Beginning(data, Len(data) - keep)
      /\ red'.held = Ending(data, keep)
  BY DEF RedactorRead
<1>5. keep \in 0..Len(data) /\ ~last => \A k \in 1..Len(data) : BeginsSecret(data, k) => k <= keep
  <2>1. Len(data) \in Nat BY <1>3
  <2> QED BY <1>3, <2>1, StartOfSecretIs
<1>6. keep \in 0..Len(data)
  <2>1. Len(data) \in Nat BY <1>3
  <2> QED BY <1>3, <2>1, StartOfSecretIs
<1>12. last => keep = 0 OBVIOUS
<1> HIDE DEF data, keep
<1>7. /\ Beginning(data, Len(data) - keep) \in Seq(Letters) /\ Ending(data, keep) \in Seq(Letters)
      /\ Len(Ending(data, keep)) = keep /\ Beginning(data, Len(data) - keep) \o Ending(data, keep) = data
  <2>1. Len(data) - keep \in 0..Len(data) BY <1>3, <1>6
  <2> QED BY <2>1, <1>3, <1>6, EndsOf
<1> DEFINE out == red.out
           b == Beginning(data, Len(data) - keep)
           e == Ending(data, keep)
<1>8. /\ out \in Seq(Letters) /\ b \in Seq(Letters) /\ e \in Seq(Letters) /\ b \o e = data /\ Len(e) = keep
      /\ red'.out = out \o b /\ red'.held = e
  BY <1>1, <1>4, <1>7
<1>9. /\ \A s \in Secrets : ~Holds(out \o data, s)
      /\ \A k \in (Len(data) + 1)..Len(out \o data) : ~BeginsSecret(out \o data, k)
  BY <1>1, <1>3, RedactsOn
<1> HIDE DEF out, b, e
<1>10. red'.out \o red'.held = out \o data /\ out \o b \in Seq(Letters)
  <2>3. out \in Seq(Letters) /\ b \in Seq(Letters) /\ e \in Seq(Letters) BY <1>8
  <2>1. (out \o b) \o e = out \o (b \o e) BY <2>3, ConcatAssociative
  <2>2. out \o b \in Seq(Letters) BY <1>8
  <2> QED BY <1>8, <2>1, <2>2
<1>11. ASSUME ~last, NEW k \in (keep + 1)..Len(out \o data) PROVE ~BeginsSecret(out \o data, k)
  <2>1. Len(out) \in Nat /\ Len(data) \in Nat /\ Len(out \o data) = Len(out) + Len(data)
        /\ \A i \in 1..Len(data) : (out \o data)[Len(out) + i] = data[i]
    BY <1>3, <1>8
  <2>2. CASE k > Len(data)
    <3>1. k \in (Len(data) + 1)..Len(out \o data) BY <2>1, <2>2, <1>6
    <3> QED BY <3>1, <1>9
  <2>3. CASE ~(k > Len(data))
    <3>1. k \in 1..Len(data) /\ k > keep BY <2>1, <2>3, <1>6
    <3>2. ~BeginsSecret(data, k) BY <3>1, <1>5, <1>6, <1>11
    <3>3. ASSUME NEW j \in 1..k PROVE (out \o data)[Len(out \o data) - k + j] = data[Len(data) - k + j]
      <4> DEFINE h == Len(data) - k + j
      <4>1. h \in 1..Len(data) /\ Len(out \o data) - k + j = Len(out) + h BY <2>1, <3>1
      <4> HIDE DEF h
      <4>2. (out \o data)[Len(out) + h] = data[h] BY <4>1, <2>1
      <4> QED BY <4>1, <4>2 DEF h
    <3> QED BY <3>2, <3>3 DEF BeginsSecret
  <2> QED BY <2>2, <2>3
<1>13. last => e = <<>>
  <2> SUFFICES ASSUME last PROVE e = <<>> OBVIOUS
  <2>1. Len(e) = 0 BY <1>8, <1>12
  <2> QED BY <2>1, <1>8
<1>14. red'.out \in Seq(Letters) /\ red'.held \in Seq(Letters) BY <1>8, <1>10
<1>15. \A s \in Secrets : ~Holds(red'.out \o red'.held, s) BY <1>9, <1>10
<1>16. ~red'.end => \A k \in (Len(red'.held) + 1)..Len(red'.out \o red'.held) : ~BeginsSecret(red'.out \o red'.held, k)
  BY <1>4, <1>8, <1>10, <1>11
<1>17. red'.end => red'.held = <<>> BY <1>4, <1>8, <1>13
<1> QED BY <1>14, <1>15, <1>16, <1>17 DEF RedactInv

LEMMA RedactStarts == ASSUME red = RedactStart PROVE RedactInv
<1>1. red.out = <<>> /\ red.held = <<>> /\ red.end = FALSE BY DEF RedactStart
<1>2. <<>> \in Seq(Letters) /\ Len(<<>>) = 0 OBVIOUS
<1>3. <<>> \o <<>> = <<>> BY <1>2, ConcatEmptySeq
<1>4. ASSUME NEW s \in Secrets, Holds(<<>>, s) PROVE FALSE
  <2>1. Len(s) \in Nat /\ Len(s) # 0 BY BodyAssumption
  <2> QED BY <2>1, <1>2, <1>4 DEF Holds
<1> QED BY <1>1, <1>2, <1>3, <1>4 DEF RedactInv

LEMMA RedactSends == ASSUME RedactInv PROVE SendsNoSecret
<1>1. ASSUME NEW s \in Secrets, Holds(red.out, s) PROVE FALSE
  <2> DEFINE o == red.out
             h == red.held
             S == Len(s)
  <2>1. o \in Seq(Letters) /\ h \in Seq(Letters) /\ Holds(o, s) /\ ~Holds(o \o h, s) BY <1>1 DEF RedactInv
  <2>2. S \in Nat /\ S = Len(s) BY BodyAssumption
  <2> HIDE DEF o, h, S
  <2>3. PICK i \in 0..(Len(o) - S) : \A j \in 1..S : o[i + j] = s[j] BY <2>1, <2>2 DEF Holds, HoldsAt
  <2>4. Len(o) \in Nat /\ Len(h) \in Nat /\ Len(o \o h) = Len(o) + Len(h) /\ \A k \in 1..Len(o) : (o \o h)[k] = o[k]
    BY <2>1
  <2>5. i \in 0..(Len(o \o h) - S) BY <2>2, <2>4
  <2>6. ASSUME NEW j \in 1..S PROVE (o \o h)[i + j] = s[j]
    <3>1. i + j \in 1..Len(o) BY <2>2, <2>4
    <3> QED BY <3>1, <2>3, <2>4
  <2>7. HoldsAt(o \o h, s, i) /\ i \in 0..(Len(o \o h) - Len(s)) BY <2>2, <2>5, <2>6 DEF HoldsAt
  <2> QED BY <2>1, <2>7 DEF Holds
<1>2. red.end => red.held = <<>> BY DEF RedactInv
<1> QED BY <1>1, <1>2 DEF SendsNoSecret

-----------------------------------------------------------------------------
BodySpec == ScanInit /\ [][ScanBody \/ RedactBody]_<<scn, red>>
BodyInv == ScanInv /\ RedactInv

\* However a body is cut into pieces and whatever it is, the scan finds a spelling of a
\* live token exactly when the body, read at once, holds one; and what was sent of a
\* response never holds a secret, with nothing held back once the body has ended
\* (placeholder.go:240-416, redact.go:40-139).
THEOREM BodiesStayClean == BodySpec => []BodiesClean
<1>1. ScanInit => BodyInv BY ScanStarts, RedactStarts DEF ScanInit, BodyInv
<1>2. BodyInv /\ [ScanBody \/ RedactBody]_<<scn, red>> => BodyInv'
  <2> SUFFICES ASSUME BodyInv, [ScanBody \/ RedactBody]_<<scn, red>> PROVE BodyInv' OBVIOUS
  <2>1. ScanLetters \in SUBSET Letters /\ RedactLetters \in SUBSET Letters BY DEF Letters
  <2>2. CASE ScanBody
    <3>1. PICK k \in 1..MaxPiece : \E chunk \in [1..k -> ScanLetters] : ScanWrite(chunk) BY <2>2 DEF ScanBody
    <3>2. PICK chunk \in [1..k -> ScanLetters] : ScanWrite(chunk) BY <3>1
    <3>3. k \in Nat BY BodyAssumption
    <3>4. chunk \in Seq(Letters) BY <2>1, <3>3, PieceIs
    <3>5. ScanInv' BY <3>2, <3>4, ScanStep DEF BodyInv
    <3>6. RedactInv' BY <2>2 DEF ScanBody, BodyInv, RedactInv
    <3> QED BY <3>5, <3>6 DEF BodyInv
  <2>3. CASE RedactBody
    <3>1. PICK k \in 0..MaxPiece : \E chunk \in [1..k -> RedactLetters], last \in BOOLEAN : RedactorRead(chunk, last)
      BY <2>3 DEF RedactBody
    <3>2. PICK chunk \in [1..k -> RedactLetters], last \in BOOLEAN : RedactorRead(chunk, last) BY <3>1
    <3>3. k \in Nat BY BodyAssumption
    <3>4. chunk \in Seq(Letters) BY <2>1, <3>3, PieceIs
    <3>5. RedactInv' BY <3>2, <3>4, RedactStep DEF BodyInv
    <3>6. ScanInv' BY <2>3 DEF RedactBody, BodyInv, ScanInv
    <3> QED BY <3>5, <3>6 DEF BodyInv
  <2>4. CASE UNCHANGED <<scn, red>> BY <2>4 DEF BodyInv, ScanInv, RedactInv
  <2> QED BY <2>2, <2>3, <2>4
<1>3. BodyInv => BodiesClean
  <2> SUFFICES ASSUME BodyInv PROVE BodiesClean OBVIOUS
  <2>1. SendsNoSecret BY RedactSends DEF BodyInv
  <2>2. ReadWhole(scn.fed).work = Plain(scn.fed) BY DEF ReadWhole, Zero, Plain
  <2>3. ScanFindsAll BY <2>2 DEF BodyInv, ScanInv, ScanFindsAll
  <2> QED BY <2>1, <2>3 DEF BodiesClean
<1> QED BY <1>1, <1>2, <1>3, PTL DEF BodySpec

-----------------------------------------------------------------------------
(* The environment of a sandbox with routes (RouteEnv). *)

(* A variable of this name and value is the last of its name. *)
Gives(vars, name, x) ==
    \E k \in DOMAIN vars : /\ vars[k].name = name /\ vars[k].value = x
                           /\ \A j \in DOMAIN vars : vars[j].name = name => j <= k

LEMMA GivesHas ==
    ASSUME NEW vars \in Seq(VarSet), NEW name, NEW x, Gives(vars, name, x)
    PROVE  Has(vars, name, x)
<1> DEFINE P(k) == vars[k].name = name /\ \A j \in DOMAIN vars : vars[j].name = name => j <= k
           c == CHOOSE k \in DOMAIN vars : P(k)
<1>1. DOMAIN vars \in SUBSET Nat OBVIOUS
<1>2. PICK k \in DOMAIN vars : P(k) /\ vars[k].value = x BY DEF Gives
<1>3. c \in DOMAIN vars /\ P(c) BY <1>2
<1>4. c = k
  <2> HIDE DEF c
  <2>1. c <= k /\ k <= c BY <1>2, <1>3
  <2>2. c \in Nat /\ k \in Nat BY <1>1, <1>2, <1>3
  <2> QED BY <2>1, <2>2
<1>5. Effective(vars, name) = vars[c].value BY DEF Effective
<1> QED BY <1>2, <1>4, <1>5 DEF Has, NamesOf

LEMMA GivesExists ==
    ASSUME NEW vars \in Seq(VarSet), NEW name \in NamesOf(vars)
    PROVE  Gives(vars, name, Effective(vars, name))
<1> DEFINE N == Len(vars)
           T == {n \in 0..N : \A j \in DOMAIN vars : vars[j].name = name => j <= n}
<1>1. N \in Nat /\ DOMAIN vars = 1..N OBVIOUS
<1>2. T \in SUBSET Nat /\ N \in T BY <1>1
<1>3. PICK n \in T : \A m \in T : n <= m
  <2> HIDE DEF T
  <2> QED BY <1>2, LeastNat
<1>4. PICK i \in DOMAIN vars : vars[i].name = name BY DEF NamesOf
<1>5. n \in Nat /\ n # 0 /\ n - 1 \notin T
  <2>1. i <= n /\ i \in 1..N BY <1>1, <1>3, <1>4
  <2>2. n \in Nat BY <1>3
  <2>3. ASSUME n - 1 \in T PROVE FALSE
    <3>1. n <= n - 1 BY <2>3, <1>3
    <3> QED BY <3>1, <2>2
  <2> QED BY <2>1, <2>2, <2>3
<1>6. PICK j \in DOMAIN vars : vars[j].name = name /\ ~(j <= n - 1) BY <1>1, <1>3, <1>5
<1>7. j = n BY <1>1, <1>3, <1>5, <1>6
<1>8. Gives(vars, name, vars[j].value) BY <1>3, <1>6, <1>7 DEF Gives
<1>9. Effective(vars, name) = vars[j].value BY <1>8, GivesHas DEF Has
<1> QED BY <1>8, <1>9

LEMMA GivesAlike ==
    ASSUME NEW vars \in Seq(VarSet), NEW name \in NamesOf(vars), NEW x,
           \A k \in DOMAIN vars : vars[k].name = name => vars[k].value = x
    PROVE  Gives(vars, name, x)
<1>1. Gives(vars, name, Effective(vars, name)) BY GivesExists
<1>2. PICK k \in DOMAIN vars : vars[k].name = name /\ vars[k].value = Effective(vars, name) BY <1>1 DEF Gives
<1>3. Effective(vars, name) = x BY <1>2
<1> QED BY <1>1, <1>3

(* One environment after another: the last variable counts. *)
LEMMA AfterIs ==
    ASSUME NEW a \in Seq(VarSet), NEW b \in Seq(VarSet)
    PROVE  /\ a \o b \in Seq(VarSet)
           /\ NamesOf(a \o b) = NamesOf(a) \cup NamesOf(b)
           /\ \A name, x : Gives(b, name, x) => Gives(a \o b, name, x)
           /\ \A name, x : Gives(a, name, x) /\ name \notin NamesOf(b) => Gives(a \o b, name, x)
           /\ TokensSecret(a) /\ TokensSecret(b) => TokensSecret(a \o b)
<1> DEFINE A == Len(a)
           B == Len(b)
           c == a \o b
<1>1. /\ A \in Nat /\ B \in Nat /\ DOMAIN a = 1..A /\ DOMAIN b = 1..B /\ DOMAIN c = 1..(A + B)
      /\ c \in Seq(VarSet)
      /\ \A i \in 1..A : c[i] = a[i]
      /\ \A i \in 1..B : c[A + i] = b[i]
  <2>1. A \in Nat /\ B \in Nat /\ Len(c) = A + B /\ c \in Seq(VarSet) OBVIOUS
  <2>2. ASSUME NEW i \in 1..A PROVE c[i] = a[i] OBVIOUS
  <2>3. ASSUME NEW i \in 1..B PROVE c[A + i] = b[i] OBVIOUS
  <2> QED BY <2>1, <2>2, <2>3
<1> HIDE DEF A, B, c
<1>2. ASSUME NEW i \in DOMAIN c PROVE (i \in DOMAIN a /\ c[i] = a[i]) \/ \E j \in DOMAIN b : i = A + j /\ c[i] = b[j]
  <2>1. CASE i <= A BY <2>1, <1>1
  <2>2. CASE ~(i <= A)
    <3> DEFINE j == i - A
    <3>1. j \in 1..B /\ i = A + j BY <2>2, <1>1
    <3> HIDE DEF j
    <3> QED BY <3>1, <1>1
  <2> QED BY <2>1, <2>2
<1>3. \A i \in DOMAIN a : i \in DOMAIN c /\ c[i] = a[i] /\ i <= A BY <1>1
<1>4. \A i \in DOMAIN b : A + i \in DOMAIN c /\ c[A + i] = b[i] BY <1>1
<1>5. NamesOf(c) = NamesOf(a) \cup NamesOf(b) BY <1>2, <1>3, <1>4 DEF NamesOf
<1>6. ASSUME NEW name, NEW x, Gives(b, name, x) PROVE Gives(c, name, x)
  <2>1. PICK k \in DOMAIN b : /\ b[k].name = name /\ b[k].value = x
                              /\ \A j \in DOMAIN b : b[j].name = name => j <= k BY <1>6 DEF Gives
  <2>2. ASSUME NEW i \in DOMAIN c, c[i].name = name PROVE i <= A + k
    <3>1. CASE i \in DOMAIN a BY <3>1, <2>1, <1>1
    <3>2. CASE i \notin DOMAIN a
      <4>1. PICK j \in DOMAIN b : i = A + j /\ c[i] = b[j] BY <3>2, <1>2
      <4>2. j <= k BY <4>1, <2>1, <2>2
      <4> QED BY <4>1, <4>2, <2>1, <1>1
    <3> QED BY <3>1, <3>2
  <2> QED BY <2>1, <2>2, <1>4 DEF Gives
<1>7. ASSUME NEW name, NEW x, Gives(a, name, x), name \notin NamesOf(b) PROVE Gives(c, name, x)
  <2>1. PICK k \in DOMAIN a : /\ a[k].name = name /\ a[k].value = x
                              /\ \A j \in DOMAIN a : a[j].name = name => j <= k BY <1>7 DEF Gives
  <2>2. ASSUME NEW i \in DOMAIN c, c[i].name = name PROVE i <= k
    <3>1. i \in DOMAIN a /\ c[i] = a[i] BY <2>2, <1>2, <1>7 DEF NamesOf
    <3> QED BY <3>1, <2>1, <2>2
  <2> QED BY <2>1, <2>2, <1>3 DEF Gives
<1>8. ASSUME TokensSecret(a), TokensSecret(b) PROVE TokensSecret(c) BY <1>2, <1>8 DEF TokensSecret
<1> QED BY <1>1, <1>5, <1>6, <1>7, <1>8 DEF c

LEMMA GivesAfter ==
    ASSUME NEW a \in Seq(VarSet), NEW b \in Seq(VarSet), NEW name, NEW x, Gives(b, name, x)
    PROVE  Gives(a \o b, name, x)
<1> QED BY AfterIs

LEMMA GivesBefore ==
    ASSUME NEW a \in Seq(VarSet), NEW b \in Seq(VarSet), NEW name, NEW x, Gives(a, name, x), name \notin NamesOf(b)
    PROVE  Gives(a \o b, name, x)
<1> QED BY AfterIs

LEMMA NamesAfter ==
    ASSUME NEW a \in Seq(VarSet), NEW b \in Seq(VarSet)
    PROVE  a \o b \in Seq(VarSet) /\ NamesOf(a \o b) = NamesOf(a) \cup NamesOf(b)
<1> QED BY AfterIs

LEMMA SecretAfter ==
    ASSUME NEW a \in Seq(VarSet), NEW b \in Seq(VarSet), TokensSecret(a), TokensSecret(b)
    PROVE  TokensSecret(a \o b)
<1> QED BY AfterIs

LEMMA NoVars ==
    /\ <<>> \in Seq(VarSet) /\ NamesOf(<<>>) = {} /\ TokensSecret(<<>>)
<1>1. DOMAIN <<>> = {} OBVIOUS
<1> QED BY <1>1 DEF NamesOf, TokensSecret

LEMMA OneVar ==
    ASSUME NEW e \in VarSet
    PROVE  /\ <<e>> \in Seq(VarSet) /\ NamesOf(<<e>>) = {e.name} /\ Gives(<<e>>, e.name, e.value)
           /\ (e.value[1] = "token" => e.secret) => TokensSecret(<<e>>)
<1>1. <<e>> \in Seq(VarSet) /\ DOMAIN <<e>> = {1} /\ <<e>>[1] = e OBVIOUS
<1>2. NamesOf(<<e>>) = {e.name} BY <1>1 DEF NamesOf
<1>3. Gives(<<e>>, e.name, e.value) BY <1>1 DEF Gives
<1>4. (e.value[1] = "token" => e.secret) => TokensSecret(<<e>>) BY <1>1 DEF TokensSecret
<1> QED BY <1>1, <1>2, <1>3, <1>4

(* A set in an order: each of its elements and no other. *)
LEMMA InOrderIs ==
    ASSUME NEW S, IsFiniteSet(S)
    PROVE  /\ InOrder(S) \in [1..Cardinality(S) -> S] /\ Cardinality(S) \in Nat
           /\ \A x \in S : \E i \in 1..Cardinality(S) : InOrder(S)[i] = x
<1>1. Cardinality(S) \in Nat /\ ExistsBijection(1..Cardinality(S), S) BY FS_CardinalityType
<1>2. PICK f \in [1..Cardinality(S) -> S] : \A x \in S : \E i \in 1..Cardinality(S) : f[i] = x
  BY <1>1 DEF ExistsBijection, Bijection, Injection, Surjection
<1>3. DOMAIN f = 1..Cardinality(S) BY <1>2
<1>4. \A x \in S : \E i \in DOMAIN f : f[i] = x BY <1>2, <1>3
<1> DEFINE c == InOrder(S)
<1>5. c \in [1..Cardinality(S) -> S] /\ \A x \in S : \E i \in DOMAIN c : c[i] = x BY <1>2, <1>4 DEF InOrder
<1> HIDE DEF c
<1>6. DOMAIN c = 1..Cardinality(S) BY <1>5
<1>7. \A x \in S : \E i \in 1..Cardinality(S) : c[i] = x BY <1>5, <1>6
<1> QED BY <1>1, <1>5, <1>7 DEF c

(* Words one after the other. *)
LEMMA JoinedSteps ==
    ASSUME NEW S, NEW words \in Seq(Seq(S))
    PROVE  \E g \in [0..Len(words) -> Seq(S)] :
             /\ Joined(words) = g[Len(words)] /\ g[0] = <<>>
             /\ \A n \in 1..Len(words) : g[n] = g[n - 1] \o words[n]
<1> DEFINE N == Len(words)
           T == Seq(S)
           body(g) == [n \in 0..N |-> IF n = 0 THEN <<>> ELSE g[n - 1] \o words[n]]
           after == CHOOSE g : g = body(g)
           F == [n \in 1..N |-> [s \in T |-> s \o words[n]]]
           a == <<>>
<1>1. Joined(words) = after[N] BY DEF Joined
<1>2. N \in Nat /\ a \in T /\ a = <<>> OBVIOUS
<1>3. \A n \in 1..N : words[n] \in T OBVIOUS
<1>4. \A s \in T, n \in 1..N : s \o words[n] \in T
  <2> SUFFICES ASSUME NEW s \in T, NEW n \in 1..N PROVE s \o words[n] \in T OBVIOUS
  <2>1. words[n] \in T BY <1>3
  <2> QED BY <2>1
<1> HIDE DEF after, body, N, F, T, a
<1>5. StepsIn(F, T, N) BY <1>4 DEF StepsIn, F
<1>6. PICK g \in [0..N -> T] : g[0] = a /\ \A n \in 1..N : g[n] = F[n][g[n - 1]]
  <2>1. RunsIn(F, T, N, a) BY <1>2, <1>5, StepsExist
  <2> QED BY <2>1 DEF RunsIn
<1>7. \A n \in 1..N : g[n] = g[n - 1] \o words[n]
  <2> SUFFICES ASSUME NEW n \in 1..N PROVE g[n] = g[n - 1] \o words[n] OBVIOUS
  <2>1. n - 1 \in 0..N /\ g[n - 1] \in T BY <1>2
  <2> QED BY <2>1, <1>6 DEF F
<1>8. g = body(g)
  <2>1. ASSUME NEW n \in 0..N PROVE g[n] = IF n = 0 THEN <<>> ELSE g[n - 1] \o words[n]
    <3>1. CASE n = 0 BY <3>1, <1>6, <1>2
    <3>2. CASE n # 0
      <4>1. n \in 1..N BY <3>2, <1>2
      <4>2. g[n] = g[n - 1] \o words[n] BY <4>1, <1>7
      <4> QED BY <4>2, <3>2
    <3> QED BY <3>1, <3>2
  <2> QED BY <2>1 DEF body
<1>9. after = body(after) BY <1>8 DEF after
<1>11. \A n \in 0..N : after[n] = IF n = 0 THEN <<>> ELSE after[n - 1] \o words[n]
  <2>1. after = [n \in 0..N |-> IF n = 0 THEN <<>> ELSE after[n - 1] \o words[n]] BY <1>9 DEF body
  <2> QED BY <2>1
<1>10. after[N] = g[N]
  <2> DEFINE U == {k \in 0..N : after[k] = g[k]}
  <2>1. after[0] = <<>> BY <1>11, <1>2
  <2>2. ASSUME NEW n \in (0 + 1)..N, n - 1 \in U PROVE n \in U
    <3>1. n \in 1..N /\ n \in 0..N /\ n # 0 BY <1>2
    <3>2. after[n] = after[n - 1] \o words[n] BY <3>1, <1>11
    <3> QED BY <3>1, <3>2, <2>2, <1>7
  <2>3. 0 \in 0..N /\ 0 \in U
    <3>1. 0 \in 0..N BY <1>2
    <3>2. after[0] = g[0] BY <2>1, <1>6, <1>2
    <3> QED BY <3>1, <3>2
  <2> HIDE DEF U
  <2>4. \A n \in (0 + 1)..N : n - 1 \in U => n \in U BY <2>2
  <2>5. \A n \in 0..N : n \in U BY <2>4, <2>3, <1>2, Upward
  <2> QED BY <2>5, <1>2 DEF U
<1> QED BY <1>1, <1>2, <1>6, <1>7, <1>10 DEF N, T

LEMMA JoinedIs ==
    ASSUME NEW S, NEW words \in Seq(Seq(S))
    PROVE  Joined(words) \in Seq(S)
<1>1. Len(words) \in 0..Len(words) OBVIOUS
<1>2. PICK g \in [0..Len(words) -> Seq(S)] : Joined(words) = g[Len(words)] BY JoinedSteps
<1> QED BY <1>1, <1>2

(* Environments one after the other. *)
LEMMA JoinedVars ==
    ASSUME NEW words \in Seq(Seq(VarSet))
    PROVE  /\ Joined(words) \in Seq(VarSet)
           /\ \A name : name \in NamesOf(Joined(words)) <=> \E k \in DOMAIN words : name \in NamesOf(words[k])
           /\ (\A k \in DOMAIN words : TokensSecret(words[k])) => TokensSecret(Joined(words))
           /\ \A name, x : /\ \E k \in DOMAIN words : name \in NamesOf(words[k])
                           /\ \A k \in DOMAIN words : name \in NamesOf(words[k]) => Gives(words[k], name, x)
                           => Gives(Joined(words), name, x)
<1> DEFINE N == Len(words)
<1>1. N \in Nat /\ DOMAIN words = 1..N OBVIOUS
<1>2. PICK g \in [0..N -> Seq(VarSet)] :
        /\ Joined(words) = g[N] /\ g[0] = <<>>
        /\ \A n \in 1..N : g[n] = g[n - 1] \o words[n]
  BY JoinedSteps
<1>3. \A n \in 1..N : words[n] \in Seq(VarSet) OBVIOUS
<1> HIDE DEF N
<1>4. ASSUME NEW n \in 1..N
      PROVE  n - 1 \in 0..N /\ g[n - 1] \in Seq(VarSet) /\ words[n] \in Seq(VarSet) /\ g[n] = g[n - 1] \o words[n]
  <2>1. n - 1 \in 0..N BY <1>1
  <2>2. g[n - 1] \in Seq(VarSet) BY <2>1, <1>2
  <2> QED BY <2>1, <2>2, <1>2, <1>3
<1>5. 0 \in 0..N /\ N \in 0..N BY <1>1
<1>6. ASSUME NEW name PROVE name \in NamesOf(g[N]) <=> \E k \in 1..N : name \in NamesOf(words[k])
  <2> DEFINE U == {n \in 0..N : name \in NamesOf(g[n]) <=> \E k \in 1..n : name \in NamesOf(words[k])}
  <2>1. 0 \in U BY <1>2, <1>5, NoVars
  <2>2. ASSUME NEW n \in (0 + 1)..N, n - 1 \in U PROVE n \in U
    <3>1. n \in 1..N /\ n \in 0..N BY <1>1
    <3>2. NamesOf(g[n]) = NamesOf(g[n - 1]) \cup NamesOf(words[n]) BY <3>1, <1>4, AfterIs
    <3>3. name \in NamesOf(g[n - 1]) <=> \E k \in 1..(n - 1) : name \in NamesOf(words[k]) BY <2>2
    <3>4. \A k \in 1..n : k \in 1..(n - 1) \/ k = n BY <3>1
    <3>5. \A k \in 1..(n - 1) : k \in 1..n BY <3>1
    <3>6. n \in 1..n BY <3>1
    <3>7. name \in NamesOf(g[n]) <=> \E k \in 1..n : name \in NamesOf(words[k]) BY <3>2, <3>3, <3>4, <3>5, <3>6
    <3> QED BY <3>1, <3>7
  <2> HIDE DEF U
  <2>3. \A n \in (0 + 1)..N : n - 1 \in U => n \in U BY <2>2
  <2>4. \A n \in 0..N : n \in U BY <2>1, <2>3, <1>1, <1>5, Upward
  <2> QED BY <2>4, <1>5 DEF U
<1>7. ASSUME \A k \in 1..N : TokensSecret(words[k]) PROVE TokensSecret(g[N])
  <2> DEFINE U == {n \in 0..N : TokensSecret(g[n])}
  <2>1. 0 \in U BY <1>2, <1>5, NoVars
  <2>2. ASSUME NEW n \in (0 + 1)..N, n - 1 \in U PROVE n \in U
    <3>1. n \in 1..N /\ n \in 0..N BY <1>1
    <3>2. TokensSecret(g[n]) BY <3>1, <1>4, <1>7, <2>2, AfterIs
    <3> QED BY <3>1, <3>2
  <2> HIDE DEF U
  <2>3. \A n \in (0 + 1)..N : n - 1 \in U => n \in U BY <2>2
  <2>4. \A n \in 0..N : n \in U BY <2>1, <2>3, <1>1, <1>5, Upward
  <2> QED BY <2>4, <1>5 DEF U
<1>8. ASSUME NEW name, NEW x, \A k \in 1..N : name \in NamesOf(words[k]) => Gives(words[k], name, x),
             name \in NamesOf(g[N])
      PROVE  Gives(g[N], name, x)
  <2> DEFINE U == {n \in 0..N : name \in NamesOf(g[n]) => Gives(g[n], name, x)}
  <2>1. 0 \in U BY <1>2, <1>5, NoVars
  <2>2. ASSUME NEW n \in (0 + 1)..N, n - 1 \in U PROVE n \in U
    <3>1. n \in 1..N /\ n \in 0..N BY <1>1
    <3>2. NamesOf(g[n]) = NamesOf(g[n - 1]) \cup NamesOf(words[n]) BY <3>1, <1>4, AfterIs
    <3>3. CASE name \in NamesOf(words[n])
      <4>1. Gives(words[n], name, x) BY <3>1, <3>3, <1>8
      <4>2. Gives(g[n], name, x) BY <4>1, <3>1, <1>4, GivesAfter
      <4> QED BY <4>2, <3>1
    <3>4. CASE name \notin NamesOf(words[n]) /\ name \in NamesOf(g[n])
      <4>1. Gives(g[n - 1], name, x) BY <3>4, <3>2, <2>2
      <4>2. Gives(g[n], name, x) BY <4>1, <3>4, <3>1, <1>4, GivesBefore
      <4> QED BY <4>2, <3>1
    <3> QED BY <3>1, <3>3, <3>4
  <2> HIDE DEF U
  <2>3. \A n \in (0 + 1)..N : n - 1 \in U => n \in U BY <2>2
  <2>4. \A n \in 0..N : n \in U BY <2>1, <2>3, <1>1, <1>5, Upward
  <2> QED BY <2>4, <1>5, <1>8 DEF U
<1> QED BY <1>1, <1>2, <1>5, <1>6, <1>7, <1>8

(* The variables without the project's. *)
LEMMA WithoutSteps ==
    ASSUME NEW vars \in Seq(VarSet)
    PROVE  \E g \in [0..Len(vars) -> Seq(VarSet)] :
             /\ WithoutProject(vars) = g[Len(vars)] /\ g[0] = <<>>
             /\ \A n \in 1..Len(vars) :
                  g[n] = IF vars[n].name = ProjectName THEN g[n - 1] ELSE Append(g[n - 1], vars[n])
<1> DEFINE N == Len(vars)
           T == Seq(VarSet)
           step(s, n) == IF vars[n].name = ProjectName THEN s ELSE Append(s, vars[n])
           body(g) == [n \in 0..N |-> IF n = 0 THEN <<>>
                                      ELSE IF vars[n].name = ProjectName THEN g[n - 1] ELSE Append(g[n - 1], vars[n])]
           after == CHOOSE g : g = body(g)
           F == [n \in 1..N |-> [s \in T |-> step(s, n)]]
           a == <<>>
<1>1. WithoutProject(vars) = after[N] BY DEF WithoutProject
<1>2. N \in Nat /\ a \in T /\ a = <<>> OBVIOUS
<1>3. \A n \in 1..N : vars[n] \in VarSet OBVIOUS
<1>4. \A s \in T, n \in 1..N : step(s, n) \in T
  <2> SUFFICES ASSUME NEW s \in T, NEW n \in 1..N PROVE step(s, n) \in T OBVIOUS
  <2>1. vars[n] \in VarSet BY <1>3
  <2>2. Append(s, vars[n]) \in T BY <2>1, AppendProperties
  <2> QED BY <2>2
<1>17. \A g : body(g) = [n \in 0..N |-> IF n = 0 THEN <<>> ELSE step(g[n - 1], n)] OBVIOUS
<1>18. \A s, n : step(s, n) = IF vars[n].name = ProjectName THEN s ELSE Append(s, vars[n]) OBVIOUS
<1> HIDE DEF after, body, N, F, T, a, step
<1>5. StepsIn(F, T, N) BY <1>4 DEF StepsIn, F
<1>6. PICK g \in [0..N -> T] : g[0] = a /\ \A n \in 1..N : g[n] = F[n][g[n - 1]]
  <2>1. RunsIn(F, T, N, a) BY <1>2, <1>5, StepsExist
  <2> QED BY <2>1 DEF RunsIn
<1>7. \A n \in 1..N : g[n] = step(g[n - 1], n)
  <2> SUFFICES ASSUME NEW n \in 1..N PROVE g[n] = step(g[n - 1], n) OBVIOUS
  <2>1. n - 1 \in 0..N /\ g[n - 1] \in T BY <1>2
  <2> QED BY <2>1, <1>6 DEF F
<1>8. g = body(g)
  <2>1. ASSUME NEW n \in 0..N PROVE g[n] = IF n = 0 THEN <<>> ELSE step(g[n - 1], n)
    <3>1. CASE n = 0 BY <3>1, <1>6, <1>2
    <3>2. CASE n # 0
      <4>1. n \in 1..N BY <3>2, <1>2
      <4>2. g[n] = step(g[n - 1], n) BY <4>1, <1>7
      <4> QED BY <4>2, <3>2
    <3> QED BY <3>1, <3>2
  <2> QED BY <2>1, <1>17
<1>9. after = body(after) BY <1>8 DEF after
<1>11. \A n \in 0..N : after[n] = IF n = 0 THEN <<>> ELSE step(after[n - 1], n)
  <2>1. after = [n \in 0..N |-> IF n = 0 THEN <<>> ELSE step(after[n - 1], n)] BY <1>9, <1>17
  <2> QED BY <2>1
<1>10. after[N] = g[N]
  <2> DEFINE U == {k \in 0..N : after[k] = g[k]}
  <2>1. after[0] = <<>> BY <1>11, <1>2
  <2>2. ASSUME NEW n \in (0 + 1)..N, n - 1 \in U PROVE n \in U
    <3>1. n \in 1..N /\ n \in 0..N /\ n # 0 BY <1>2
    <3>2. after[n] = step(after[n - 1], n) BY <3>1, <1>11
    <3> QED BY <3>1, <3>2, <2>2, <1>7
  <2>3. 0 \in 0..N /\ 0 \in U
    <3>1. 0 \in 0..N BY <1>2
    <3>2. after[0] = g[0] BY <2>1, <1>6, <1>2
    <3> QED BY <3>1, <3>2
  <2> HIDE DEF U
  <2>4. \A n \in (0 + 1)..N : n - 1 \in U => n \in U BY <2>2
  <2>5. \A n \in 0..N : n \in U BY <2>4, <2>3, <1>2, Upward
  <2> QED BY <2>5, <1>2 DEF U
<1>12. \A n \in 1..N : g[n] = IF vars[n].name = ProjectName THEN g[n - 1] ELSE Append(g[n - 1], vars[n])
  BY <1>7, <1>18
<1> QED BY <1>1, <1>2, <1>6, <1>10, <1>12 DEF N, T

LEMMA WithoutProjectIs ==
    ASSUME NEW vars \in Seq(VarSet)
    PROVE  /\ WithoutProject(vars) \in Seq(VarSet)
           /\ NamesOf(WithoutProject(vars)) = NamesOf(vars) \ {ProjectName}
           /\ TokensSecret(vars) => TokensSecret(WithoutProject(vars))
           /\ \A name, x : name # ProjectName /\ Gives(vars, name, x) => Gives(WithoutProject(vars), name, x)
<1> DEFINE N == Len(vars)
<1>1. N \in Nat /\ DOMAIN vars = 1..N OBVIOUS
<1>2. PICK g \in [0..N -> Seq(VarSet)] :
        /\ WithoutProject(vars) = g[N] /\ g[0] = <<>>
        /\ \A n \in 1..N : g[n] = IF vars[n].name = ProjectName THEN g[n - 1] ELSE Append(g[n - 1], vars[n])
  BY WithoutSteps
<1>3. \A n \in 1..N : vars[n] \in VarSet OBVIOUS
<1> HIDE DEF N
<1>5. 0 \in 0..N /\ N \in 0..N BY <1>1
<1>4. ASSUME NEW n \in 1..N
      PROVE  /\ n - 1 \in 0..N /\ g[n - 1] \in Seq(VarSet) /\ <<vars[n]>> \in Seq(VarSet)
             /\ vars[n].name = ProjectName => g[n] = g[n - 1]
             /\ vars[n].name # ProjectName => g[n] = g[n - 1] \o <<vars[n]>>
  <2>1. n - 1 \in 0..N BY <1>1
  <2>2. g[n - 1] \in Seq(VarSet) BY <2>1, <1>2
  <2>3. vars[n] \in VarSet BY <1>3
  <2>4. <<vars[n]>> \in Seq(VarSet) BY <2>3, OneVar
  <2>5. Append(g[n - 1], vars[n]) = g[n - 1] \o <<vars[n]>> BY <2>2, <2>3, AppendIsConcat
  <2> QED BY <2>1, <2>2, <2>4, <2>5, <1>2
<1>6. ASSUME NEW name PROVE name \in NamesOf(g[N]) <=> name # ProjectName /\ name \in NamesOf(vars)
  <2> DEFINE Had(n) == \E k \in 1..n : name = vars[k].name
             U == {n \in 0..N : name \in NamesOf(g[n]) <=> name # ProjectName /\ Had(n)}
  <2>1. 0 \in U
    <3>1. ~Had(0) OBVIOUS
    <3> QED BY <3>1, <1>2, <1>5, NoVars
  <2>2. ASSUME NEW n \in (0 + 1)..N, n - 1 \in U PROVE n \in U
    <3>1. n \in 1..N /\ n \in 0..N BY <1>1
    <3>2. Had(n) <=> Had(n - 1) \/ name = vars[n].name
      <4>1. \A k \in 1..n : k \in 1..(n - 1) \/ k = n BY <3>1
      <4>2. \A k \in 1..(n - 1) : k \in 1..n BY <3>1
      <4>3. n \in 1..n BY <3>1
      <4> QED BY <4>1, <4>2, <4>3
    <3> HIDE DEF Had
    <3>3. CASE vars[n].name = ProjectName BY <3>1, <3>2, <3>3, <2>2, <1>4
    <3>4. CASE vars[n].name # ProjectName
      <4>1. NamesOf(<<vars[n]>>) = {vars[n].name} BY <3>1, <1>3, OneVar
      <4>3. g[n] = g[n - 1] \o <<vars[n]>> /\ g[n - 1] \in Seq(VarSet) /\ <<vars[n]>> \in Seq(VarSet)
        BY <3>1, <3>4, <1>4
      <4>4. NamesOf(g[n]) = NamesOf(g[n - 1]) \cup NamesOf(<<vars[n]>>) BY <4>3, NamesAfter
      <4>2. NamesOf(g[n]) = NamesOf(g[n - 1]) \cup {vars[n].name} BY <4>1, <4>4
      <4> QED BY <3>1, <3>2, <3>4, <4>2, <2>2
    <3> QED BY <3>3, <3>4
  <2>5. Had(N) <=> name \in NamesOf(vars) BY <1>1 DEF NamesOf
  <2> HIDE DEF Had
  <2>6. N \in U => (name \in NamesOf(g[N]) <=> name # ProjectName /\ Had(N)) OBVIOUS
  <2> HIDE DEF U
  <2>3. \A n \in (0 + 1)..N : n - 1 \in U => n \in U BY <2>2
  <2>4. \A n \in 0..N : n \in U BY <2>1, <2>3, <1>1, <1>5, Upward
  <2> QED BY <2>4, <2>5, <2>6, <1>5
<1>7. ASSUME TokensSecret(vars) PROVE TokensSecret(g[N])
  <2> DEFINE U == {n \in 0..N : TokensSecret(g[n])}
  <2>1. 0 \in U BY <1>2, <1>5, NoVars
  <2>2. ASSUME NEW n \in (0 + 1)..N, n - 1 \in U PROVE n \in U
    <3>1. n \in 1..N /\ n \in 0..N BY <1>1
    <3>2. vars[n].value[1] = "token" => vars[n].secret BY <3>1, <1>1, <1>7 DEF TokensSecret
    <3>3. TokensSecret(<<vars[n]>>) BY <3>1, <3>2, <1>3, OneVar
    <3>4. TokensSecret(g[n]) BY <3>1, <3>3, <1>4, <2>2, AfterIs
    <3> QED BY <3>1, <3>4
  <2> HIDE DEF U
  <2>3. \A n \in (0 + 1)..N : n - 1 \in U => n \in U BY <2>2
  <2>4. \A n \in 0..N : n \in U BY <2>1, <2>3, <1>1, <1>5, Upward
  <2> QED BY <2>4, <1>5 DEF U
<1>8. ASSUME NEW name, NEW x, name # ProjectName, Gives(vars, name, x) PROVE Gives(g[N], name, x)
  <2>1. PICK k \in 1..N : /\ vars[k].name = name /\ vars[k].value = x
                          /\ \A j \in 1..N : vars[j].name = name => j <= k BY <1>1, <1>8 DEF Gives
  <2> DEFINE U == {n \in k..N : Gives(g[n], name, x)}
  <2>2. k \in U
    <3>1. g[k] = g[k - 1] \o <<vars[k]>> /\ g[k - 1] \in Seq(VarSet) /\ <<vars[k]>> \in Seq(VarSet)
      BY <2>1, <1>4, <1>8
    <3>2. Gives(<<vars[k]>>, name, x) BY <2>1, <1>3, OneVar
    <3>3. Gives(g[k], name, x) BY <3>1, <3>2, GivesAfter
    <3> QED BY <3>3, <1>1
  <2>3. ASSUME NEW n \in (k + 1)..N, n - 1 \in U PROVE n \in U
    <3>1. n \in 1..N /\ n \in k..N /\ ~(n <= k) BY <1>1
    <3>2. vars[n].name # name BY <3>1, <2>1
    <3>3. CASE vars[n].name = ProjectName BY <3>1, <3>3, <2>3, <1>4
    <3>4. CASE vars[n].name # ProjectName
      <4>1. NamesOf(<<vars[n]>>) = {vars[n].name} BY <3>1, <1>3, OneVar
      <4>2. name \notin NamesOf(<<vars[n]>>) BY <4>1, <3>2
      <4>3. g[n] = g[n - 1] \o <<vars[n]>> /\ g[n - 1] \in Seq(VarSet) /\ <<vars[n]>> \in Seq(VarSet)
        BY <3>1, <3>4, <1>4
      <4>4. Gives(g[n - 1], name, x) BY <2>3
      <4>5. Gives(g[n], name, x) BY <4>2, <4>3, <4>4, GivesBefore
      <4> QED BY <4>5, <3>1
    <3> QED BY <3>3, <3>4
  <2> HIDE DEF U
  <2>4. \A n \in (k + 1)..N : n - 1 \in U => n \in U BY <2>3
  <2>5. k \in 0..N /\ N \in k..N BY <1>1
  <2>6. \A n \in k..N : n \in U BY <2>2, <2>4, <2>5, <1>1, Upward
  <2> QED BY <2>5, <2>6 DEF U
<1>9. NamesOf(g[N]) = NamesOf(vars) \ {ProjectName} BY <1>6
<1>10. g[N] \in Seq(VarSet) BY <1>2, <1>5
<1> QED BY <1>2, <1>7, <1>8, <1>9, <1>10

(* The variables of one route. *)
LEMMA WordIs ==
    ASSUME NEW w \in Words, NEW n \in Nat
    PROVE  <<w, n>> \in VarNames /\ <<w, n>> \in VarValues
<1> QED BY DEF VarNames, VarValues

LEMMA WordsAre ==
    /\ Word("guest") \in VarValues /\ Word("mounted") \in VarValues /\ Word("ca") \in VarValues
    /\ ProjectName \in VarNames /\ CountName \in VarNames /\ HomeVar \in VarNames /\ GcloudCA \in VarNames
    /\ caEnv[1] \in VarNames /\ caEnv[2] \in VarNames
    /\ DOMAIN caEnv = 1..2
<1>1. ASSUME NEW w \in Words PROVE Word(w) \in VarNames /\ Word(w) \in VarValues BY WordIs DEF Word
<1>2. "guest" \in Words /\ "mounted" \in Words /\ "ca" \in Words BY DEF Words
<1>3. "BRIG_PROJECT" \in Words /\ "GIT_CONFIG_COUNT" \in Words /\ "HOME" \in Words /\ "CLOUDSDK_CA" \in Words BY DEF Words
<1>4. "SSL_CERT_FILE" \in Words /\ "NODE_EXTRA_CA_CERTS" \in Words BY DEF Words
<1>5. caEnv[1] = Word("SSL_CERT_FILE") /\ caEnv[2] = Word("NODE_EXTRA_CA_CERTS") /\ DOMAIN caEnv = 1..2 BY DEF caEnv
<1> QED BY <1>1, <1>2, <1>3, <1>4, <1>5 DEF ProjectName, CountName, HomeVar, GcloudCA

LEMMA VarIs ==
    ASSUME NEW name \in VarNames, NEW x \in VarValues
    PROVE  /\ Var(name, x) \in VarSet /\ Var(name, x).name = name /\ Var(name, x).value = x
           /\ SecretVar(name, x) \in VarSet /\ SecretVar(name, x).name = name /\ SecretVar(name, x).value = x
           /\ SecretVar(name, x).secret
<1> QED BY DEF Var, SecretVar, VarSet

LEMMA PlainVar ==
    ASSUME NEW name \in VarNames, NEW x \in VarValues, x[1] # "token"
    PROVE  /\ <<Var(name, x)>> \in Seq(VarSet) /\ NamesOf(<<Var(name, x)>>) = {name}
           /\ Gives(<<Var(name, x)>>, name, x) /\ TokensSecret(<<Var(name, x)>>)
<1> QED BY VarIs, OneVar

LEMMA HiddenVar ==
    ASSUME NEW name \in VarNames, NEW x \in VarValues
    PROVE  /\ <<SecretVar(name, x)>> \in Seq(VarSet) /\ NamesOf(<<SecretVar(name, x)>>) = {name}
           /\ Gives(<<SecretVar(name, x)>>, name, x) /\ TokensSecret(<<SecretVar(name, x)>>)
<1> QED BY VarIs, OneVar

LEMMA RouteWords ==
    ASSUME NEW r, IsRoute(r)
    PROVE  /\ RouteURL(r) \in VarValues /\ RouteURL(r)[1] # "token"
           /\ Token(r) \in VarValues /\ TokenVar(r) \in VarNames
           /\ <<"region", r.name>> \in VarValues /\ <<"region", r.name>>[1] # "token"
           /\ \A s \in r.services : ServiceName(s) \in VarNames
<1>1. r.name \in Nat /\ r.services \in SUBSET Nat BY DEF IsRoute
<1>6. /\ "LinkLocalURL" \in Words /\ "URL" \in Words /\ "token" \in Words /\ "region" \in Words
      /\ "BRIG_ROUTE_TOKEN" \in Words /\ "CLOUDSDK_API_ENDPOINT_OVERRIDES" \in Words BY DEF Words
<1>2. RouteURL(r) \in VarValues /\ RouteURL(r)[1] # "token"
  <2>1. RouteURL(r) = <<"LinkLocalURL", r.name>> \/ RouteURL(r) = <<"URL", r.name>> BY DEF RouteURL
  <2> QED BY <2>1, <1>1, <1>6, WordIs
<1>3. Token(r) \in VarValues /\ TokenVar(r) \in VarNames BY <1>1, <1>6, WordIs DEF Token, TokenVar
<1>4. <<"region", r.name>> \in VarValues /\ <<"region", r.name>>[1] # "token" BY <1>1, <1>6, WordIs
<1>5. \A s \in r.services : ServiceName(s) \in VarNames BY <1>1, <1>6, WordIs DEF ServiceName
<1> QED BY <1>2, <1>3, <1>4, <1>5

LEMMA FilledInIs ==
    ASSUME NEW r, IsRoute(r), NEW name \in DOMAIN r.env
    PROVE  /\ FilledIn(r, name) \in Seq(VarSet) /\ NamesOf(FilledIn(r, name)) \in SUBSET {name}
           /\ TokensSecret(FilledIn(r, name))
           /\ \A i \in DOMAIN FilledIn(r, name) : Gives(FilledIn(r, name), name, FilledIn(r, name)[i].value)
<1> DEFINE token == <<SecretVar(name, Token(r))>>
           region == <<Var(name, <<"region", r.name>>)>>
           url == <<Var(name, RouteURL(r))>>
<1>1. name \in VarNames BY DEF IsRoute
<1>2. /\ RouteURL(r) \in VarValues /\ RouteURL(r)[1] # "token" /\ Token(r) \in VarValues
      /\ <<"region", r.name>> \in VarValues /\ <<"region", r.name>>[1] # "token" BY RouteWords
<1>3. /\ token \in Seq(VarSet) /\ NamesOf(token) = {name} /\ TokensSecret(token)
      /\ Gives(token, name, Token(r)) BY <1>1, <1>2, HiddenVar
<1>4. /\ region \in Seq(VarSet) /\ NamesOf(region) = {name} /\ TokensSecret(region)
      /\ Gives(region, name, <<"region", r.name>>) BY <1>1, <1>2, PlainVar
<1>5. /\ url \in Seq(VarSet) /\ NamesOf(url) = {name} /\ TokensSecret(url)
      /\ Gives(url, name, RouteURL(r)) BY <1>1, <1>2, PlainVar
<1>6. /\ DOMAIN token = {1} /\ token[1].value = Token(r)
      /\ DOMAIN region = {1} /\ region[1].value = <<"region", r.name>>
      /\ DOMAIN url = {1} /\ url[1].value = RouteURL(r) BY <1>1, <1>2, VarIs
<1>7. FilledIn(r, name) \in {token, region, url, <<>>} BY DEF FilledIn
<1> HIDE DEF token, region, url
<1>8. CASE FilledIn(r, name) = token BY <1>8, <1>3, <1>6
<1>9. CASE FilledIn(r, name) = region BY <1>9, <1>4, <1>6
<1>10. CASE FilledIn(r, name) = url BY <1>10, <1>5, <1>6
<1>11. CASE FilledIn(r, name) = <<>> BY <1>11, NoVars
<1> QED BY <1>7, <1>8, <1>9, <1>10, <1>11

LEMMA ServiceVarsAre ==
    ASSUME NEW r, IsRoute(r)
    PROVE  /\ ServiceVars(r) \in Seq(VarSet) /\ TokensSecret(ServiceVars(r))
           /\ \A name \in NamesOf(ServiceVars(r)) : \E s \in r.services : name = ServiceName(s)
           /\ r.endpoint => \A s \in r.services : Gives(ServiceVars(r), ServiceName(s), RouteURL(r))
<1> DEFINE C == Cardinality(r.services)
           f == InOrder(r.services)
           vars == [i \in 1..C |-> Var(ServiceName(f[i]), RouteURL(r))]
<1>1. r.services \in SUBSET Nat /\ IsFiniteSet(r.services) BY DEF IsRoute
<1>2. /\ C \in Nat /\ DOMAIN f = 1..C
      /\ \A i \in 1..C : f[i] \in r.services
      /\ \A s \in r.services : \E i \in 1..C : f[i] = s
  <2>1. f \in [1..C -> r.services] BY <1>1, InOrderIs
  <2> QED BY <2>1, <1>1, InOrderIs
<1>3. ServiceVars(r) = IF r.endpoint THEN vars ELSE <<>> BY <1>2 DEF ServiceVars
<1> HIDE DEF C, f
<1>4. ASSUME NEW i \in 1..C
      PROVE  /\ Var(ServiceName(f[i]), RouteURL(r)) \in VarSet /\ vars[i] = Var(ServiceName(f[i]), RouteURL(r))
             /\ vars[i].name = ServiceName(f[i]) /\ vars[i].value = RouteURL(r)
  <2>1. ServiceName(f[i]) \in VarNames /\ RouteURL(r) \in VarValues BY <1>2, RouteWords
  <2> QED BY <2>1, VarIs
<1>5. vars \in Seq(VarSet) /\ DOMAIN vars = 1..C BY <1>2, <1>4
<1> HIDE DEF vars
<1>6. TokensSecret(vars) BY <1>4, <1>5, RouteWords DEF TokensSecret
<1>7. \A name \in NamesOf(vars) : \E s \in r.services : name = ServiceName(s) BY <1>2, <1>4, <1>5 DEF NamesOf
<1>8. ASSUME NEW s \in r.services PROVE Gives(vars, ServiceName(s), RouteURL(r))
  <2>1. PICK i \in 1..C : f[i] = s BY <1>2
  <2>2. ServiceName(s) \in NamesOf(vars) BY <2>1, <1>4, <1>5 DEF NamesOf
  <2>3. \A k \in DOMAIN vars : vars[k].value = RouteURL(r) BY <1>4, <1>5
  <2> QED BY <2>2, <2>3, <1>5, GivesAlike
<1>9. CASE r.endpoint BY <1>9, <1>3, <1>5, <1>6, <1>7, <1>8
<1>10. CASE ~r.endpoint
  <2>1. ServiceVars(r) = <<>> BY <1>10, <1>3
  <2> QED BY <2>1, <1>10, NoVars
<1> QED BY <1>9, <1>10

LEMMA EnvVarsAre ==
    ASSUME NEW r, IsRoute(r)
    PROVE  /\ EnvVars(r) \in Seq(VarSet) /\ TokensSecret(EnvVars(r)) /\ NamesOf(EnvVars(r)) \in SUBSET DOMAIN r.env
           /\ \A name \in DOMAIN r.env : \A i \in DOMAIN FilledIn(r, name) :
                Gives(EnvVars(r), name, FilledIn(r, name)[i].value)
<1> DEFINE C == Cardinality(DOMAIN r.env)
           f == InOrder(DOMAIN r.env)
           words == [i \in 1..C |-> FilledIn(r, f[i])]
<1>1. IsFiniteSet(DOMAIN r.env) BY DEF IsRoute
<1>2. /\ C \in Nat /\ DOMAIN f = 1..C
      /\ \A i \in 1..C : f[i] \in DOMAIN r.env
      /\ \A name \in DOMAIN r.env : \E i \in 1..C : f[i] = name
  <2>1. f \in [1..C -> DOMAIN r.env] BY <1>1, InOrderIs
  <2> QED BY <2>1, <1>1, InOrderIs
<1>3. EnvVars(r) = Joined(words) BY <1>2 DEF EnvVars
<1> HIDE DEF C, f
<1>4. ASSUME NEW i \in 1..C
      PROVE  /\ FilledIn(r, f[i]) \in Seq(VarSet) /\ words[i] = FilledIn(r, f[i]) /\ TokensSecret(words[i])
             /\ NamesOf(words[i]) \in SUBSET {f[i]} /\ f[i] \in DOMAIN r.env
             /\ \A k \in DOMAIN words[i] : Gives(words[i], f[i], words[i][k].value)
  <2>1. f[i] \in DOMAIN r.env BY <1>2
  <2>2. words[i] = FilledIn(r, f[i]) OBVIOUS
  <2> HIDE DEF words
  <2> QED BY <2>1, <2>2, FilledInIs
<1>5. words \in Seq(Seq(VarSet)) /\ DOMAIN words = 1..C
  <2>1. \A i \in 1..C : FilledIn(r, f[i]) \in Seq(VarSet) BY <1>4
  <2> QED BY <2>1, <1>2
<1>11. \A i \in 1..C : words[i] = FilledIn(r, f[i]) BY <1>4
<1> HIDE DEF words
<1>6. EnvVars(r) \in Seq(VarSet) BY <1>3, <1>5, JoinedVars
<1>7. TokensSecret(EnvVars(r)) BY <1>3, <1>4, <1>5, JoinedVars
<1>8. ASSUME NEW name \in NamesOf(EnvVars(r)) PROVE name \in DOMAIN r.env
  <2>1. PICK k \in 1..C : name \in NamesOf(words[k]) BY <1>3, <1>5, JoinedVars
  <2> QED BY <2>1, <1>4
<1>9. ASSUME NEW name \in DOMAIN r.env, NEW i \in DOMAIN FilledIn(r, name)
      PROVE  Gives(EnvVars(r), name, FilledIn(r, name)[i].value)
  <2>1. PICK k \in 1..C : f[k] = name BY <1>2
  <2>2. words[k] = FilledIn(r, name) BY <2>1, <1>11
  <2> DEFINE x == FilledIn(r, name)[i].value
  <2>3. Gives(words[k], name, x) BY <2>1, <2>2, <1>4
  <2>4. name \in NamesOf(words[k]) BY <2>3 DEF Gives, NamesOf
  <2>5. ASSUME NEW j \in 1..C, name \in NamesOf(words[j]) PROVE Gives(words[j], name, x)
    <3>1. f[j] = name BY <2>5, <1>4
    <3> QED BY <3>1, <2>2, <2>3, <1>11
  <2> HIDE DEF x
  <2>6. Gives(Joined(words), name, x) BY <2>4, <2>5, <1>5, JoinedVars
  <2> QED BY <2>6, <1>3 DEF x
<1> QED BY <1>6, <1>7, <1>8, <1>9

LEMMA TokenVarsAre ==
    ASSUME NEW r, IsRoute(r)
    PROVE  LET last == IF hasGit(r) THEN <<SecretVar(TokenVar(r), Token(r))>> ELSE <<>> IN
           /\ last \in Seq(VarSet) /\ TokensSecret(last) /\ NamesOf(last) \in SUBSET {TokenVar(r)}
           /\ hasGit(r) => Gives(last, TokenVar(r), Token(r))
<1>1. Token(r) \in VarValues /\ TokenVar(r) \in VarNames BY RouteWords
<1> DEFINE last == IF hasGit(r) THEN <<SecretVar(TokenVar(r), Token(r))>> ELSE <<>>
<1>2. CASE hasGit(r)
  <2>1. last = <<SecretVar(TokenVar(r), Token(r))>> BY <1>2
  <2> HIDE DEF last
  <2>2. /\ last \in Seq(VarSet) /\ TokensSecret(last) /\ NamesOf(last) = {TokenVar(r)}
        /\ Gives(last, TokenVar(r), Token(r)) BY <2>1, <1>1, HiddenVar
  <2> QED BY <2>2 DEF last
<1>3. CASE ~hasGit(r)
  <2>1. last = <<>> BY <1>3
  <2> HIDE DEF last
  <2>2. last \in Seq(VarSet) /\ TokensSecret(last) /\ NamesOf(last) = {} BY <2>1, NoVars
  <2> QED BY <2>2, <1>3 DEF last
<1> QED BY <1>2, <1>3

LEMMA RouteVarsAre ==
    ASSUME NEW r, IsRoute(r)
    PROVE  /\ RouteVars(r) \in Seq(VarSet) /\ TokensSecret(RouteVars(r))
           /\ \A name \in NamesOf(RouteVars(r)) :
                \/ name \in DOMAIN r.env \/ name = TokenVar(r) \/ \E s \in r.services : name = ServiceName(s)
           /\ \A name \in DOMAIN r.env : name # TokenVar(r) => \A i \in DOMAIN FilledIn(r, name) :
                Gives(RouteVars(r), name, FilledIn(r, name)[i].value)
           /\ r.endpoint => \A s \in r.services : ServiceName(s) \notin DOMAIN r.env \cup {TokenVar(r)} =>
                Gives(RouteVars(r), ServiceName(s), RouteURL(r))
           /\ hasGit(r) => Gives(RouteVars(r), TokenVar(r), Token(r))
<1> DEFINE last == IF hasGit(r) THEN <<SecretVar(TokenVar(r), Token(r))>> ELSE <<>>
           a == ServiceVars(r)
           b == EnvVars(r)
           ab == a \o b
<1>1. RouteVars(r) = ab \o last BY DEF RouteVars
<1>2. /\ last \in Seq(VarSet) /\ TokensSecret(last) /\ NamesOf(last) \in SUBSET {TokenVar(r)}
      /\ hasGit(r) => Gives(last, TokenVar(r), Token(r)) BY TokenVarsAre
<1>3. /\ a \in Seq(VarSet) /\ TokensSecret(a)
      /\ \A name \in NamesOf(a) : \E s \in r.services : name = ServiceName(s)
      /\ r.endpoint => \A s \in r.services : Gives(a, ServiceName(s), RouteURL(r)) BY ServiceVarsAre
<1>4. /\ b \in Seq(VarSet) /\ TokensSecret(b) /\ NamesOf(b) \in SUBSET DOMAIN r.env
      /\ \A name \in DOMAIN r.env : \A i \in DOMAIN FilledIn(r, name) : Gives(b, name, FilledIn(r, name)[i].value)
  BY EnvVarsAre
<1> HIDE DEF a, b, last
<1>5. ab \in Seq(VarSet) /\ TokensSecret(ab) /\ NamesOf(ab) = NamesOf(a) \cup NamesOf(b)
  BY <1>3, <1>4, NamesAfter, SecretAfter
<1>6. ASSUME NEW name \in DOMAIN r.env, NEW i \in DOMAIN FilledIn(r, name)
      PROVE  Gives(ab, name, FilledIn(r, name)[i].value)
  <2>1. Gives(b, name, FilledIn(r, name)[i].value) BY <1>4
  <2> QED BY <2>1, <1>3, <1>4, GivesAfter
<1>7. ASSUME r.endpoint, NEW s \in r.services, ServiceName(s) \notin DOMAIN r.env
      PROVE  Gives(ab, ServiceName(s), RouteURL(r))
  <2>1. Gives(a, ServiceName(s), RouteURL(r)) BY <1>3, <1>7
  <2>2. ServiceName(s) \notin NamesOf(b) BY <1>4, <1>7
  <2> QED BY <2>1, <2>2, <1>3, <1>4, GivesBefore
<1> HIDE DEF ab
<1>8. /\ ab \o last \in Seq(VarSet) /\ TokensSecret(ab \o last) /\ NamesOf(ab \o last) = NamesOf(ab) \cup NamesOf(last)
  BY <1>5, <1>2, NamesAfter, SecretAfter
<1>9. ASSUME NEW name \in DOMAIN r.env, name # TokenVar(r), NEW i \in DOMAIN FilledIn(r, name)
      PROVE  Gives(ab \o last, name, FilledIn(r, name)[i].value)
  <2>1. name \notin NamesOf(last) BY <1>2, <1>9
  <2>2. Gives(ab, name, FilledIn(r, name)[i].value) BY <1>6
  <2> QED BY <2>1, <2>2, <1>2, <1>5, GivesBefore
<1>10. ASSUME r.endpoint, NEW s \in r.services, ServiceName(s) \notin DOMAIN r.env \cup {TokenVar(r)}
       PROVE  Gives(ab \o last, ServiceName(s), RouteURL(r))
  <2>1. ServiceName(s) \notin NamesOf(last) BY <1>2, <1>10
  <2>2. Gives(ab, ServiceName(s), RouteURL(r)) BY <1>7, <1>10
  <2> QED BY <2>1, <2>2, <1>2, <1>5, GivesBefore
<1>11. hasGit(r) => Gives(ab \o last, TokenVar(r), Token(r)) BY <1>2, <1>5, GivesAfter
<1>12. ASSUME NEW name \in NamesOf(ab \o last)
       PROVE  name \in DOMAIN r.env \/ name = TokenVar(r) \/ \E s \in r.services : name = ServiceName(s)
  BY <1>2, <1>3, <1>4, <1>5, <1>8
<1> QED BY <1>1, <1>8, <1>9, <1>10, <1>11, <1>12

(* A variable that one route alone has keeps that route's value. *)
LEMMA AllVarsAre ==
    ASSUME NEW routes, routes \in Seq({routes[k] : k \in DOMAIN routes}), BoundRoutes(routes)
    PROVE  /\ AllVars(routes) \in Seq(VarSet) /\ TokensSecret(AllVars(routes))
           /\ \A name \in NamesOf(AllVars(routes)) : \E k \in DOMAIN routes : name \in NamesOf(RouteVars(routes[k]))
           /\ \A k \in DOMAIN routes : \A name, x :
                /\ Gives(RouteVars(routes[k]), name, x)
                /\ \A j \in DOMAIN routes : j # k => name \notin NamesOf(RouteVars(routes[j]))
                => Gives(AllVars(routes), name, x)
<1> DEFINE N == Len(routes)
           words == [k \in DOMAIN routes |-> RouteVars(routes[k])]
<1>1. N \in Nat /\ DOMAIN routes = 1..N OBVIOUS
<1>2. AllVars(routes) = Joined(words) BY DEF AllVars
<1>3. ASSUME NEW k \in 1..N
      PROVE  RouteVars(routes[k]) \in Seq(VarSet) /\ TokensSecret(RouteVars(routes[k])) /\ words[k] = RouteVars(routes[k])
  <2>1. IsRoute(routes[k]) BY <1>1 DEF BoundRoutes
  <2>2. words[k] = RouteVars(routes[k]) BY <1>1
  <2> QED BY <2>1, <2>2, RouteVarsAre
<1>4. words \in Seq(Seq(VarSet)) /\ DOMAIN words = 1..N
  <2> HIDE DEF N
  <2>1. words = [k \in 1..N |-> RouteVars(routes[k])] BY <1>1
  <2>2. \A k \in 1..N : RouteVars(routes[k]) \in Seq(VarSet) BY <1>3
  <2> QED BY <2>1, <2>2, <1>1
<1> HIDE DEF N, words
<1>5. Joined(words) \in Seq(VarSet) /\ TokensSecret(Joined(words)) BY <1>3, <1>4, JoinedVars
<1>6. ASSUME NEW name \in NamesOf(Joined(words))
      PROVE  \E k \in DOMAIN routes : name \in NamesOf(RouteVars(routes[k]))
  <2>1. PICK k \in 1..N : name \in NamesOf(words[k]) BY <1>4, JoinedVars
  <2> QED BY <2>1, <1>1, <1>3
<1>7. ASSUME NEW k \in DOMAIN routes, NEW name, NEW x, Gives(RouteVars(routes[k]), name, x),
             \A j \in DOMAIN routes : j # k => name \notin NamesOf(RouteVars(routes[j]))
      PROVE  Gives(Joined(words), name, x)
  <2>1. k \in 1..N /\ Gives(words[k], name, x) BY <1>1, <1>3, <1>7
  <2>2. name \in NamesOf(words[k]) BY <2>1 DEF Gives, NamesOf
  <2>3. ASSUME NEW j \in 1..N, name \in NamesOf(words[j]) PROVE Gives(words[j], name, x)
    <3>1. j = k BY <2>3, <1>1, <1>3, <1>7
    <3> QED BY <3>1, <2>1
  <2> QED BY <2>1, <2>2, <2>3, <1>4, JoinedVars
<1> QED BY <1>2, <1>5, <1>6, <1>7

(* The entries of git are neither variables nor tokens. *)
Entries == {"git"} \X Nat \X Nat

LEMMA AllGitIs ==
    ASSUME NEW routes, routes \in Seq({routes[k] : k \in DOMAIN routes}), BoundRoutes(routes)
    PROVE  AllGit(routes) \in Seq(Entries)
<1> DEFINE N == Len(routes)
           words == [k \in DOMAIN routes |-> GitEntries(routes[k])]
<1>1. N \in Nat /\ DOMAIN routes = 1..N OBVIOUS
<1>2. ASSUME NEW k \in 1..N PROVE GitEntries(routes[k]) \in Seq(Entries)
  <2> DEFINE r == routes[k]
             M == r.git + 2
  <2>1. r.name \in Nat /\ r.git \in Nat BY <1>1 DEF BoundRoutes, IsRoute
  <2>2. M \in Nat /\ \A i \in 1..M : i \in Nat BY <2>1
  <2> HIDE DEF r
  <2>3. \A i \in 1..M : <<"git", r.name, i>> \in Entries BY <2>1, <2>2 DEF Entries
  <2> HIDE DEF M
  <2>4. [i \in 1..M |-> <<"git", r.name, i>>] \in Seq(Entries) BY <2>2, <2>3
  <2>5. <<>> \in Seq(Entries) OBVIOUS
  <2> QED BY <2>4, <2>5 DEF GitEntries, r, M
<1>3. words \in Seq(Seq(Entries))
  <2> HIDE DEF N
  <2>1. words = [k \in 1..N |-> GitEntries(routes[k])] BY <1>1
  <2> QED BY <2>1, <1>2, <1>1
<1> HIDE DEF words
<1>4. Joined(words) \in Seq(Entries) BY <1>3, JoinedIs
<1> QED BY <1>4 DEF AllGit, words

LEMMA WiredIs ==
    ASSUME NEW git \in Seq(Entries), NEW base \in Nat
    PROVE  /\ Wired(git, base) \in Seq(VarSet) /\ TokensSecret(Wired(git, base))
           /\ \A name \in NamesOf(Wired(git, base)) :
                name = CountName \/ \E i \in 1..Len(git) : name = GitKey(base + i - 1)
           /\ git # <<>> => Gives(Wired(git, base), CountName, <<"count", base + Len(git)>>)
           /\ git # <<>> => \A i \in 1..Len(git) : Gives(Wired(git, base), GitKey(base + i - 1), git[i])
<1> DEFINE N == Len(git)
           c == <<Var(CountName, <<"count", base + N>>)>>
           keys == [i \in 1..N |-> Var(GitKey(base + i - 1), git[i])]
<1>1. CASE git = <<>>
  <2>1. Wired(git, base) = <<>> BY <1>1 DEF Wired
  <2> QED BY <2>1, <1>1, NoVars
<1>2. CASE git # <<>>
  <2>1. Wired(git, base) = c \o keys BY <1>2 DEF Wired
  <2>2. N \in Nat /\ \A i \in 1..N : git[i] \in Entries OBVIOUS
  <2> HIDE DEF N
  <2>3. /\ c \in Seq(VarSet) /\ NamesOf(c) = {CountName} /\ TokensSecret(c)
        /\ Gives(c, CountName, <<"count", base + N>>)
    <3> DEFINE x == <<"count", base + N>>
    <3>1. base + N \in Nat /\ "count" \in Words BY <2>2 DEF Words
    <3>2. x \in VarValues /\ x[1] # "token" BY <3>1, WordIs
    <3> HIDE DEF x
    <3> QED BY <3>2, WordsAre, PlainVar DEF x
  <2>4. ASSUME NEW i \in 1..N
        PROVE  /\ Var(GitKey(base + i - 1), git[i]) \in VarSet
               /\ keys[i] = Var(GitKey(base + i - 1), git[i])
               /\ keys[i].name = GitKey(base + i - 1) /\ keys[i].value = git[i] /\ keys[i].value[1] # "token"
    <3>1. base + i - 1 \in Nat /\ "GIT_CONFIG_KEY" \in Words /\ "git" \in Words BY <2>2 DEF Words
    <3>2. GitKey(base + i - 1) \in VarNames BY <3>1, WordIs DEF GitKey
    <3>3. git[i] \in Entries BY <2>2
    <3>4. git[i] \in VarValues /\ git[i][1] # "token" BY <3>1, <3>3 DEF Entries, VarValues
    <3> QED BY <3>2, <3>4, VarIs
  <2>5. keys \in Seq(VarSet) /\ DOMAIN keys = 1..N
    <3>1. \A i \in 1..N : Var(GitKey(base + i - 1), git[i]) \in VarSet BY <2>4
    <3>2. keys = [i \in 1..N |-> Var(GitKey(base + i - 1), git[i])] OBVIOUS
    <3> HIDE DEF keys
    <3> QED BY <3>1, <3>2, <2>2
  <2> HIDE DEF c, keys
  <2>6. TokensSecret(keys) BY <2>4, <2>5 DEF TokensSecret
  <2>7. \A name : name \in NamesOf(keys) <=> \E i \in 1..N : name = GitKey(base + i - 1) BY <2>4, <2>5 DEF NamesOf
  <2>8. ASSUME NEW i \in 1..N PROVE Gives(keys, GitKey(base + i - 1), git[i])
    <3>1. GitKey(base + i - 1) \in NamesOf(keys) BY <2>7
    <3>2. ASSUME NEW k \in 1..N, keys[k].name = GitKey(base + i - 1) PROVE keys[k].value = git[i]
      <4>1. GitKey(base + k - 1) = GitKey(base + i - 1) BY <3>2, <2>4
      <4>2. base + k - 1 = base + i - 1 BY <4>1 DEF GitKey
      <4>3. k = i BY <4>2, <2>2
      <4> QED BY <4>3, <2>4
    <3> QED BY <3>1, <3>2, <2>5, GivesAlike
  <2>9. CountName \notin NamesOf(keys)
    <3> SUFFICES ASSUME NEW i \in 1..N, CountName = GitKey(base + i - 1) PROVE FALSE BY <2>7
    <3> QED BY DEF CountName, GitKey, Word
  <2>10. Gives(c \o keys, CountName, <<"count", base + N>>) BY <2>3, <2>5, <2>9, GivesBefore
  <2>11. \A i \in 1..N : Gives(c \o keys, GitKey(base + i - 1), git[i]) BY <2>3, <2>5, <2>8, GivesAfter
  <2>12. c \o keys \in Seq(VarSet) /\ TokensSecret(c \o keys) /\ NamesOf(c \o keys) = NamesOf(c) \cup NamesOf(keys)
    BY <2>3, <2>5, <2>6, NamesAfter, SecretAfter
  <2>13. \A name \in NamesOf(c \o keys) : name = CountName \/ \E i \in 1..N : name = GitKey(base + i - 1)
    BY <2>12, <2>3, <2>7
  <2> QED BY <2>1, <2>10, <2>11, <2>12, <2>13 DEF N
<1> QED BY <1>1, <1>2

LEMMA CAVarsAre ==
    ASSUME NEW routes
    PROVE  /\ CAVars(routes) \in Seq(VarSet) /\ TokensSecret(CAVars(routes))
           /\ \A name \in NamesOf(CAVars(routes)) :
                \/ \E i \in DOMAIN caEnv : name = caEnv[i]
                \/ name = GcloudCA /\ \E k \in DOMAIN routes : routes[k].services # {}
<1> DEFINE endpoints == {k \in DOMAIN routes : routes[k].endpoint}
           gcloud == \E k \in endpoints : routes[k].services # {}
           bundle == [i \in DOMAIN caEnv |-> Var(caEnv[i], Word("ca"))]
           a == IF endpoints = {} THEN <<>> ELSE bundle
           b == IF gcloud THEN <<Var(GcloudCA, Word("ca"))>> ELSE <<>>
<1>1. CAVars(routes) = a \o b BY DEF CAVars
<1>2. /\ Word("ca") \in VarValues /\ Word("ca")[1] # "token" /\ GcloudCA \in VarNames
      /\ DOMAIN caEnv = 1..2 /\ \A i \in 1..2 : caEnv[i] \in VarNames
  <2>1. \A i \in 1..2 : i = 1 \/ i = 2 OBVIOUS
  <2>2. Word("ca")[1] = "ca" BY DEF Word
  <2> QED BY <2>1, <2>2, WordsAre
<1>3. ASSUME NEW i \in 1..2
      PROVE  /\ Var(caEnv[i], Word("ca")) \in VarSet /\ bundle[i] = Var(caEnv[i], Word("ca"))
             /\ bundle[i].name = caEnv[i] /\ bundle[i].value = Word("ca")
  BY <1>2, VarIs
<1>4. bundle \in Seq(VarSet) /\ DOMAIN bundle = 1..2
  <2>1. bundle = [i \in 1..2 |-> Var(caEnv[i], Word("ca"))] BY <1>2
  <2>2. \A i \in 1..2 : Var(caEnv[i], Word("ca")) \in VarSet BY <1>3
  <2>3. 2 \in Nat OBVIOUS
  <2> HIDE DEF bundle
  <2> QED BY <2>1, <2>2, <2>3
<1> HIDE DEF bundle
<1>5. TokensSecret(bundle) BY <1>2, <1>3, <1>4 DEF TokensSecret
<1>6. NamesOf(bundle) = {caEnv[i] : i \in 1..2} BY <1>3, <1>4 DEF NamesOf
<1>7. a \in Seq(VarSet) /\ TokensSecret(a) /\ \A name \in NamesOf(a) : \E i \in DOMAIN caEnv : name = caEnv[i]
  <2>1. a = bundle \/ a = <<>> OBVIOUS
  <2> HIDE DEF a
  <2> QED BY <2>1, <1>2, <1>4, <1>5, <1>6, NoVars
<1>8. /\ b \in Seq(VarSet) /\ TokensSecret(b)
      /\ \A name \in NamesOf(b) : name = GcloudCA /\ \E k \in DOMAIN routes : routes[k].services # {}
  <2>1. CASE gcloud
    <3>1. b = <<Var(GcloudCA, Word("ca"))>> BY <2>1
    <3>2. \E k \in DOMAIN routes : routes[k].services # {} BY <2>1
    <3> HIDE DEF b, gcloud, endpoints
    <3> QED BY <3>1, <3>2, <1>2, PlainVar
  <2>2. CASE ~gcloud
    <3>1. b = <<>> BY <2>2
    <3> HIDE DEF b, gcloud, endpoints
    <3> QED BY <3>1, NoVars
  <2> QED BY <2>1, <2>2
<1> HIDE DEF a, b
<1>9. a \o b \in Seq(VarSet) /\ TokensSecret(a \o b) /\ NamesOf(a \o b) = NamesOf(a) \cup NamesOf(b)
  BY <1>7, <1>8, NamesAfter, SecretAfter
<1> QED BY <1>1, <1>7, <1>8, <1>9

(* Names of different kinds differ. *)
LEMMA NamesDiffer ==
    /\ \A s : /\ OfServices(ServiceName(s)) /\ ServiceName(s) # CountName /\ ServiceName(s) # ProjectName
              /\ \A n : ServiceName(s) # GitKey(n)
              /\ \A r : ServiceName(s) # TokenVar(r)
              /\ \A i \in DOMAIN caEnv : ServiceName(s) # caEnv[i]
              /\ ServiceName(s) # GcloudCA
    /\ \A r : /\ TokenVar(r) # CountName /\ TokenVar(r) # ProjectName /\ TokenVar(r) # GcloudCA
              /\ \A n : TokenVar(r) # GitKey(n)
              /\ \A i \in DOMAIN caEnv : TokenVar(r) # caEnv[i]
    /\ \A n : /\ GitKey(n) # CountName /\ GitKey(n) # ProjectName /\ GitKey(n) # GcloudCA
              /\ \A i \in DOMAIN caEnv : GitKey(n) # caEnv[i]
    /\ CountName # ProjectName /\ CountName # GcloudCA /\ HomeVar # ProjectName /\ GcloudCA # ProjectName
    /\ \A i \in DOMAIN caEnv : caEnv[i] # CountName /\ caEnv[i] # ProjectName
    /\ \A i \in DOMAIN caEnv : caEnv[i] # GcloudCA
<1>1. \A i \in DOMAIN caEnv : caEnv[i] = Word("SSL_CERT_FILE") \/ caEnv[i] = Word("NODE_EXTRA_CA_CERTS")
  <2>1. DOMAIN caEnv = 1..2 BY WordsAre
  <2>2. caEnv[1] = Word("SSL_CERT_FILE") /\ caEnv[2] = Word("NODE_EXTRA_CA_CERTS") BY DEF caEnv
  <2>3. \A i \in 1..2 : i = 1 \/ i = 2 OBVIOUS
  <2> QED BY <2>1, <2>2, <2>3
<1>2. \A s : ServiceName(s)[1] = "CLOUDSDK_API_ENDPOINT_OVERRIDES" BY DEF ServiceName
<1>3. \A r : TokenVar(r)[1] = "BRIG_ROUTE_TOKEN" BY DEF TokenVar
<1>4. \A n : GitKey(n)[1] = "GIT_CONFIG_KEY" BY DEF GitKey
<1>5. /\ CountName[1] = "GIT_CONFIG_COUNT" /\ ProjectName[1] = "BRIG_PROJECT" /\ GcloudCA[1] = "CLOUDSDK_CA"
      /\ HomeVar[1] = "HOME" BY DEF CountName, ProjectName, GcloudCA, HomeVar, Word
<1>6. \A i \in DOMAIN caEnv : caEnv[i][1] = "SSL_CERT_FILE" \/ caEnv[i][1] = "NODE_EXTRA_CA_CERTS" BY <1>1 DEF Word
<1>7. \A s : OfServices(ServiceName(s)) BY <1>2 DEF OfServices
<1>8. \A s : /\ ServiceName(s) # CountName /\ ServiceName(s) # ProjectName /\ ServiceName(s) # GcloudCA
             /\ \A n : ServiceName(s) # GitKey(n)
             /\ \A r : ServiceName(s) # TokenVar(r)
             /\ \A i \in DOMAIN caEnv : ServiceName(s) # caEnv[i] BY <1>2, <1>3, <1>4, <1>5, <1>6
<1>9. \A r : /\ TokenVar(r) # CountName /\ TokenVar(r) # ProjectName /\ TokenVar(r) # GcloudCA
             /\ \A n : TokenVar(r) # GitKey(n)
             /\ \A i \in DOMAIN caEnv : TokenVar(r) # caEnv[i] BY <1>3, <1>4, <1>5, <1>6
<1>10. \A n : /\ GitKey(n) # CountName /\ GitKey(n) # ProjectName /\ GitKey(n) # GcloudCA
              /\ \A i \in DOMAIN caEnv : GitKey(n) # caEnv[i] BY <1>4, <1>5, <1>6
<1>11. CountName # ProjectName /\ CountName # GcloudCA /\ HomeVar # ProjectName /\ GcloudCA # ProjectName BY <1>5
<1>12. \A i \in DOMAIN caEnv : caEnv[i] # CountName /\ caEnv[i] # ProjectName /\ caEnv[i] # GcloudCA BY <1>5, <1>6
<1> QED BY <1>7, <1>8, <1>9, <1>10, <1>11, <1>12

(* What the routes give a guest, each in its place. *)
Given(routes, vars) ==
    /\ vars \in Seq(VarSet) /\ TokensSecret(vars)
    /\ \A name \in NamesOf(vars) :
         \/ \E k \in DOMAIN routes : name \in NamesOf(RouteVars(routes[k]))
         \/ OfBrig(name) \/ name = GcloudCA
    /\ \A k \in DOMAIN routes :
         LET r == routes[k] IN
         /\ \A name \in DOMAIN r.env : ~OfBrig(name) =>
              \A i \in DOMAIN FilledIn(r, name) : Gives(vars, name, FilledIn(r, name)[i].value)
         /\ r.endpoint => \A s \in r.services : Gives(vars, ServiceName(s), RouteURL(r))
         /\ hasGit(r) /\ ~Named(routes, TokenVar(r)) => Gives(vars, TokenVar(r), Token(r))

(* A variable of a route is of no other. *)
LEMMA OthersLack ==
    ASSUME NEW routes, BoundRoutes(routes), NEW k \in DOMAIN routes, NEW j \in DOMAIN routes, j # k
    PROVE  /\ \A name \in DOMAIN routes[k].env : ~OfBrig(name) => name \notin NamesOf(RouteVars(routes[j]))
           /\ \A s \in routes[k].services : ServiceName(s) \notin NamesOf(RouteVars(routes[j]))
           /\ ~Named(routes, TokenVar(routes[k])) => TokenVar(routes[k]) \notin NamesOf(RouteVars(routes[j]))
<1>1. /\ IsRoute(routes[j]) /\ routes[j].name # routes[k].name
      /\ DOMAIN routes[j].env \cap DOMAIN routes[k].env = {}
      /\ routes[j].services = {} \/ routes[k].services = {} BY DEF BoundRoutes
<1>2. \A name \in NamesOf(RouteVars(routes[j])) :
        \/ name \in DOMAIN routes[j].env \/ name = TokenVar(routes[j])
        \/ \E s \in routes[j].services : name = ServiceName(s) BY <1>1, RouteVarsAre
<1>3. \A name : ~OfBrig(name) => name # TokenVar(routes[j]) BY DEF OfBrig, TokenVar
<1>4. \A name \in DOMAIN routes[k].env : \A s \in routes[j].services : name # ServiceName(s)
  <2> SUFFICES ASSUME NEW name \in DOMAIN routes[k].env, NEW s \in routes[j].services, name = ServiceName(s) PROVE FALSE
    OBVIOUS
  <2>1. routes[j].services # {} OBVIOUS
  <2>2. ~OfServices(name) BY <2>1 DEF BoundRoutes
  <2> QED BY <2>2, NamesDiffer
<1>5. ASSUME NEW s \in routes[k].services PROVE ServiceName(s) \notin NamesOf(RouteVars(routes[j]))
  <2>1. routes[k].services # {} BY <1>5
  <2>2. ServiceName(s) \notin DOMAIN routes[j].env
    <3> SUFFICES ASSUME ServiceName(s) \in DOMAIN routes[j].env PROVE FALSE OBVIOUS
    <3>1. ~OfServices(ServiceName(s)) BY <2>1 DEF BoundRoutes
    <3> QED BY <3>1, NamesDiffer
  <2>3. ServiceName(s) # TokenVar(routes[j]) BY NamesDiffer
  <2>4. routes[j].services = {} BY <2>1, <1>1
  <2> QED BY <2>2, <2>3, <2>4, <1>2
<1>6. ASSUME ~Named(routes, TokenVar(routes[k])) PROVE TokenVar(routes[k]) \notin NamesOf(RouteVars(routes[j]))
  <2>1. TokenVar(routes[k]) # TokenVar(routes[j]) BY <1>1 DEF TokenVar
  <2>2. TokenVar(routes[k]) \notin DOMAIN routes[j].env BY <1>6 DEF Named
  <2>3. \A s : TokenVar(routes[k]) # ServiceName(s) BY NamesDiffer
  <2> QED BY <2>1, <2>2, <2>3, <1>2
<1> QED BY <1>1, <1>2, <1>3, <1>4, <1>5, <1>6

LEMMA AllVarsGive ==
    ASSUME NEW routes, routes \in Seq({routes[k] : k \in DOMAIN routes}), BoundRoutes(routes)
    PROVE  Given(routes, AllVars(routes))
<1>1. /\ AllVars(routes) \in Seq(VarSet) /\ TokensSecret(AllVars(routes))
      /\ \A name \in NamesOf(AllVars(routes)) : \E k \in DOMAIN routes : name \in NamesOf(RouteVars(routes[k]))
  BY AllVarsAre
<1>2. ASSUME NEW k \in DOMAIN routes, NEW name, NEW x, Gives(RouteVars(routes[k]), name, x),
             \A j \in DOMAIN routes : j # k => name \notin NamesOf(RouteVars(routes[j]))
      PROVE  Gives(AllVars(routes), name, x)
  BY <1>2, AllVarsAre
<1>3. ASSUME NEW k \in DOMAIN routes
      PROVE  /\ \A name \in DOMAIN routes[k].env : ~OfBrig(name) =>
                  \A i \in DOMAIN FilledIn(routes[k], name) :
                    Gives(AllVars(routes), name, FilledIn(routes[k], name)[i].value)
             /\ routes[k].endpoint => \A s \in routes[k].services :
                  Gives(AllVars(routes), ServiceName(s), RouteURL(routes[k]))
             /\ hasGit(routes[k]) /\ ~Named(routes, TokenVar(routes[k])) =>
                  Gives(AllVars(routes), TokenVar(routes[k]), Token(routes[k]))
  <2> DEFINE r == routes[k]
  <2>1. IsRoute(r) BY DEF BoundRoutes
  <2>2. /\ \A name \in DOMAIN r.env : name # TokenVar(r) => \A i \in DOMAIN FilledIn(r, name) :
             Gives(RouteVars(r), name, FilledIn(r, name)[i].value)
        /\ r.endpoint => \A s \in r.services : ServiceName(s) \notin DOMAIN r.env \cup {TokenVar(r)} =>
             Gives(RouteVars(r), ServiceName(s), RouteURL(r))
        /\ hasGit(r) => Gives(RouteVars(r), TokenVar(r), Token(r)) BY <2>1, RouteVarsAre
  <2>3. ASSUME NEW name \in DOMAIN r.env, ~OfBrig(name), NEW i \in DOMAIN FilledIn(r, name)
        PROVE  Gives(AllVars(routes), name, FilledIn(r, name)[i].value)
    <3>1. name # TokenVar(r) BY <2>3 DEF OfBrig, TokenVar
    <3>2. Gives(RouteVars(r), name, FilledIn(r, name)[i].value) BY <3>1, <2>2
    <3>3. \A j \in DOMAIN routes : j # k => name \notin NamesOf(RouteVars(routes[j])) BY <2>3, OthersLack
    <3> QED BY <3>2, <3>3, <1>2
  <2>4. ASSUME r.endpoint, NEW s \in r.services PROVE Gives(AllVars(routes), ServiceName(s), RouteURL(r))
    <3>1. r.services # {} BY <2>4
    <3>2. ServiceName(s) \notin DOMAIN r.env
      <4> SUFFICES ASSUME ServiceName(s) \in DOMAIN r.env PROVE FALSE OBVIOUS
      <4>1. ~OfServices(ServiceName(s)) BY <3>1 DEF BoundRoutes
      <4> QED BY <4>1, NamesDiffer
    <3>3. ServiceName(s) # TokenVar(r) BY NamesDiffer
    <3>4. Gives(RouteVars(r), ServiceName(s), RouteURL(r)) BY <3>2, <3>3, <2>2, <2>4
    <3>5. \A j \in DOMAIN routes : j # k => ServiceName(s) \notin NamesOf(RouteVars(routes[j])) BY OthersLack
    <3> QED BY <3>4, <3>5, <1>2
  <2>5. ASSUME hasGit(r), ~Named(routes, TokenVar(r)) PROVE Gives(AllVars(routes), TokenVar(r), Token(r))
    <3>1. \A j \in DOMAIN routes : j # k => TokenVar(r) \notin NamesOf(RouteVars(routes[j])) BY <2>5, OthersLack
    <3>2. Gives(RouteVars(r), TokenVar(r), Token(r)) BY <2>2, <2>5
    <3> QED BY <3>1, <3>2, <1>2
  <2> QED BY <2>3, <2>4, <2>5
<1> QED BY <1>1, <1>3 DEF Given

(* What comes after keeps it, if it has names of brig's alone. *)
LEMMA GivenAfter ==
    ASSUME NEW routes, BoundRoutes(routes), NEW a, NEW b \in Seq(VarSet), Given(routes, a), TokensSecret(b),
           \A name \in NamesOf(b) :
             \/ OfBrig(name) /\ \A s : name # ServiceName(s) /\ \A r : name # TokenVar(r)
             \/ name = GcloudCA /\ \E k \in DOMAIN routes : routes[k].services # {}
    PROVE  Given(routes, a \o b)
<1>1. /\ a \in Seq(VarSet) /\ TokensSecret(a)
      /\ \A name \in NamesOf(a) :
           (\E k \in DOMAIN routes : name \in NamesOf(RouteVars(routes[k]))) \/ OfBrig(name) \/ name = GcloudCA
  BY DEF Given
<1>2. a \o b \in Seq(VarSet) /\ NamesOf(a \o b) = NamesOf(a) \cup NamesOf(b) /\ TokensSecret(a \o b)
  BY <1>1, NamesAfter, SecretAfter
<1>3. ASSUME NEW k \in DOMAIN routes
      PROVE  /\ \A name \in DOMAIN routes[k].env : ~OfBrig(name) =>
                  \A i \in DOMAIN FilledIn(routes[k], name) : Gives(a \o b, name, FilledIn(routes[k], name)[i].value)
             /\ routes[k].endpoint => \A s \in routes[k].services :
                  Gives(a \o b, ServiceName(s), RouteURL(routes[k]))
             /\ hasGit(routes[k]) /\ ~Named(routes, TokenVar(routes[k])) =>
                  Gives(a \o b, TokenVar(routes[k]), Token(routes[k]))
  <2> DEFINE r == routes[k]
  <2>1. /\ \A name \in DOMAIN r.env : ~OfBrig(name) =>
             \A i \in DOMAIN FilledIn(r, name) : Gives(a, name, FilledIn(r, name)[i].value)
        /\ r.endpoint => \A s \in r.services : Gives(a, ServiceName(s), RouteURL(r))
        /\ hasGit(r) /\ ~Named(routes, TokenVar(r)) => Gives(a, TokenVar(r), Token(r)) BY DEF Given
  <2>2. ASSUME NEW name \in DOMAIN r.env, ~OfBrig(name), NEW i \in DOMAIN FilledIn(r, name)
        PROVE  Gives(a \o b, name, FilledIn(r, name)[i].value)
    <3>1. name \notin NamesOf(b)
      <4> SUFFICES ASSUME name = GcloudCA, NEW j \in DOMAIN routes, routes[j].services # {} PROVE FALSE BY <2>2
      <4>1. ~OfServices(name) BY DEF BoundRoutes
      <4> QED BY <4>1 DEF OfServices
    <3>2. Gives(a, name, FilledIn(r, name)[i].value) BY <2>1, <2>2
    <3> QED BY <3>1, <3>2, <1>1, GivesBefore
  <2>3. ASSUME r.endpoint, NEW s \in r.services PROVE Gives(a \o b, ServiceName(s), RouteURL(r))
    <3>1. ServiceName(s) \notin NamesOf(b) BY NamesDiffer
    <3>2. Gives(a, ServiceName(s), RouteURL(r)) BY <2>1, <2>3
    <3> QED BY <3>1, <3>2, <1>1, GivesBefore
  <2>4. ASSUME hasGit(r), ~Named(routes, TokenVar(r)) PROVE Gives(a \o b, TokenVar(r), Token(r))
    <3>1. TokenVar(r) \notin NamesOf(b) BY NamesDiffer
    <3>2. Gives(a, TokenVar(r), Token(r)) BY <2>1, <2>4
    <3> QED BY <3>1, <3>2, <1>1, GivesBefore
  <2> QED BY <2>2, <2>3, <2>4
<1>4. \A name \in NamesOf(a \o b) :
        (\E k \in DOMAIN routes : name \in NamesOf(RouteVars(routes[k]))) \/ OfBrig(name) \/ name = GcloudCA
  BY <1>1, <1>2
<1> QED BY <1>2, <1>3, <1>4 DEF Given

(* The git entries of a serving: after the guest's own. *)
LEMMA BaseIs ==
    ASSUME NEW set \in Seq(VarSet), NEW base \in gitConfigCount(set)
    PROVE  base = OwnEntries(set) /\ base \in Nat
<1> DEFINE x == Effective(set, CountName)
<1>1. CASE CountName \notin NamesOf(set) BY <1>1 DEF gitConfigCount, OwnEntries
<1>2. CASE CountName \in NamesOf(set) /\ x = Word("empty")
  <2>1. base = 0 BY <1>2 DEF gitConfigCount
  <2>2. x[1] # "count" BY <1>2 DEF Word
  <2> QED BY <2>1, <2>2 DEF OwnEntries
<1>3. CASE CountName \in NamesOf(set) /\ x # Word("empty")
  <2>1. base = x[2] /\ x[1] = "count" BY <1>3 DEF gitConfigCount
  <2>2. OwnEntries(set) = x[2] BY <2>1, <1>3 DEF OwnEntries
  <2>3. PICK k \in DOMAIN set : set[k].value = x BY <1>3, GivesExists DEF Gives
  <2>4. set[k] \in VarSet BY <2>3
  <2>5. x \in VarValues BY <2>3, <2>4 DEF VarSet
  <2> HIDE DEF x
  <2>6. x[2] \in Nat BY <2>5 DEF VarValues
  <2> QED BY <2>1, <2>2, <2>6
<1> QED BY <1>1, <1>2, <1>3

LEMMA NoRoutes == AllGit(<<>>) = <<>>
<1> DEFINE words == [k \in DOMAIN <<>> |-> GitEntries(<<>>[k])]
<1>1. words \in Seq(Seq(Entries)) /\ Len(words) = 0
  <2>1. words = <<>> OBVIOUS
  <2> HIDE DEF words
  <2> QED BY <2>1
<1> HIDE DEF words
<1>2. PICK g \in [0..Len(words) -> Seq(Entries)] : Joined(words) = g[Len(words)] /\ g[0] = <<>> BY <1>1, JoinedSteps
<1>3. Joined(words) = <<>> BY <1>1, <1>2
<1> QED BY <1>3 DEF AllGit, words

(* What serveRoutes makes of a serving. *)
GitKept(v, vars) ==
    LET git == AllGit(v.routes)
        base == OwnEntries(v.set)
    IN  git # <<>> =>
          /\ Gives(vars, CountName, <<"count", base + Len(git)>>)
          /\ \A n \in 0..(base - 1) : ~Named(v.routes, GitKey(n)) => GitKey(n) \notin NamesOf(vars)
          /\ \A i \in 1..Len(git) : Gives(vars, GitKey(base + i - 1), git[i])

LEMMA GuestEnvIs ==
    ASSUME NEW v, Serving(v), NEW vars \in GuestEnv(v)
    PROVE  Given(v.routes, vars) /\ GitKept(v, vars)
<1> DEFINE routes == v.routes
           git == AllGit(routes)
           all == AllVars(routes)
           ca == CAVars(routes)
<1>1. routes \in Seq({routes[k] : k \in DOMAIN routes}) /\ BoundRoutes(routes) /\ v.set \in Seq(VarSet) BY DEF Serving
<1>2. PICK base \in IF git = <<>> THEN {0} ELSE gitConfigCount(v.set) : vars = all \o Wired(git, base) \o ca
  BY DEF GuestEnv
<1> DEFINE wired == Wired(git, base)
<1>3. git \in Seq(Entries) BY <1>1, AllGitIs
<1>4. base \in Nat /\ (git # <<>> => base = OwnEntries(v.set)) BY <1>1, <1>2, BaseIs
<1>5. Given(routes, all) BY <1>1, AllVarsGive
<1>6. \A name \in NamesOf(all) : \E k \in DOMAIN routes : name \in NamesOf(RouteVars(routes[k])) BY <1>1, AllVarsAre
<1>7. /\ wired \in Seq(VarSet) /\ TokensSecret(wired)
      /\ \A name \in NamesOf(wired) : name = CountName \/ \E i \in 1..Len(git) : name = GitKey(base + i - 1)
      /\ git # <<>> => Gives(wired, CountName, <<"count", base + Len(git)>>)
      /\ git # <<>> => \A i \in 1..Len(git) : Gives(wired, GitKey(base + i - 1), git[i])
  <2> HIDE DEF git
  <2> QED BY <1>3, <1>4, WiredIs
<1>8. /\ ca \in Seq(VarSet) /\ TokensSecret(ca)
      /\ \A name \in NamesOf(ca) :
           \/ \E i \in DOMAIN caEnv : name = caEnv[i]
           \/ name = GcloudCA /\ \E k \in DOMAIN routes : routes[k].services # {} BY CAVarsAre
<1> HIDE DEF routes, git, all, wired, ca
<1>9. \A n : OfBrig(GitKey(n)) BY DEF OfBrig, GitKey
<1>10. OfBrig(CountName) /\ \A i \in DOMAIN caEnv : OfBrig(caEnv[i]) BY DEF OfBrig
<1>11. Given(routes, all \o wired)
  <2>1. ASSUME NEW name \in NamesOf(wired)
        PROVE  OfBrig(name) /\ \A s : name # ServiceName(s) /\ \A r : name # TokenVar(r)
    BY <1>7, <1>9, <1>10, NamesDiffer
  <2> QED BY <2>1, <1>1, <1>5, <1>7, GivenAfter
<1>12. Given(routes, (all \o wired) \o ca)
  <2>1. ASSUME NEW name \in NamesOf(ca)
        PROVE  \/ OfBrig(name) /\ \A s : name # ServiceName(s) /\ \A r : name # TokenVar(r)
               \/ name = GcloudCA /\ \E k \in DOMAIN routes : routes[k].services # {}
    BY <1>8, <1>10, NamesDiffer
  <2> QED BY <2>1, <1>1, <1>8, <1>11, GivenAfter
<1>13. ASSUME git # <<>>
       PROVE  /\ Gives(vars, CountName, <<"count", base + Len(git)>>)
              /\ \A n \in 0..(base - 1) : ~Named(routes, GitKey(n)) => GitKey(n) \notin NamesOf(vars)
              /\ \A i \in 1..Len(git) : Gives(vars, GitKey(base + i - 1), git[i])
  <2>1. all \in Seq(VarSet) /\ all \o wired \in Seq(VarSet) BY <1>5, <1>11 DEF Given
  <2>2. vars = (all \o wired) \o ca BY <1>2 DEF wired, all, ca
  <2>3. CountName \notin NamesOf(ca) /\ \A n : GitKey(n) \notin NamesOf(ca) BY <1>8, NamesDiffer
  <2>4. Gives(all \o wired, CountName, <<"count", base + Len(git)>>) BY <2>1, <1>7, <1>13, GivesAfter
  <2>5. \A i \in 1..Len(git) : Gives(all \o wired, GitKey(base + i - 1), git[i]) BY <2>1, <1>7, <1>13, GivesAfter
  <2>6. Gives(vars, CountName, <<"count", base + Len(git)>>) BY <2>1, <2>2, <2>3, <2>4, <1>8, GivesBefore
  <2>7. \A i \in 1..Len(git) : Gives(vars, GitKey(base + i - 1), git[i]) BY <2>1, <2>2, <2>3, <2>5, <1>8, GivesBefore
  <2>8. ASSUME NEW n \in 0..(base - 1), ~Named(routes, GitKey(n)) PROVE GitKey(n) \notin NamesOf(vars)
    <3>1. GitKey(n) \notin NamesOf(all)
      <4> SUFFICES ASSUME NEW k \in DOMAIN routes, GitKey(n) \in NamesOf(RouteVars(routes[k])) PROVE FALSE BY <1>6
      <4>1. IsRoute(routes[k]) BY <1>1 DEF BoundRoutes
      <4>2. \/ GitKey(n) \in DOMAIN routes[k].env \/ GitKey(n) = TokenVar(routes[k])
            \/ \E s \in routes[k].services : GitKey(n) = ServiceName(s) BY <4>1, RouteVarsAre
      <4>3. GitKey(n) \notin DOMAIN routes[k].env BY <2>8 DEF Named
      <4> QED BY <4>2, <4>3, NamesDiffer
    <3>2. GitKey(n) \notin NamesOf(wired)
      <4>1. GitKey(n) # CountName BY NamesDiffer
      <4>2. ASSUME NEW i \in 1..Len(git), GitKey(n) = GitKey(base + i - 1) PROVE FALSE
        <5>1. n = base + i - 1 BY <4>2 DEF GitKey
        <5>2. Len(git) \in Nat BY <1>3
        <5> QED BY <5>1, <5>2, <1>4
      <4> QED BY <4>1, <4>2, <1>7
    <3>3. NamesOf(all \o wired) = NamesOf(all) \cup NamesOf(wired) BY <2>1, <1>7, NamesAfter
    <3>4. NamesOf(vars) = NamesOf(all \o wired) \cup NamesOf(ca) BY <2>1, <2>2, <1>8, NamesAfter
    <3> QED BY <3>1, <3>2, <3>3, <3>4, <2>3
  <2> QED BY <2>6, <2>7, <2>8
<1>14. GitKept(v, vars)
  <2> SUFFICES ASSUME git # <<>> PROVE GitKept(v, vars) BY DEF GitKept, git, routes
  <2>1. base = OwnEntries(v.set) BY <1>4
  <2> QED BY <2>1, <1>13 DEF GitKept, git, routes
<1>15. vars = (all \o wired) \o ca BY <1>2 DEF wired, all, ca
<1> QED BY <1>12, <1>14, <1>15 DEF routes

LEMMA ServedIs ==
    ASSUME NEW v, Serving(v), NEW vars \in serveRoutes(v)
    PROVE  Given(v.routes, vars) /\ GitKept(v, vars)
<1>1. CASE v.routes = <<>>
  <2>1. vars = <<>> BY <1>1 DEF serveRoutes
  <2>2. DOMAIN v.routes = {} BY <1>1
  <2>3. AllGit(v.routes) = <<>> BY <1>1, NoRoutes
  <2>4. Given(v.routes, vars) BY <2>1, <2>2, NoVars DEF Given
  <2> QED BY <2>3, <2>4 DEF GitKept
<1>2. CASE v.routes # <<>>
  <2>1. vars \in GuestEnv(v) BY <1>2 DEF serveRoutes
  <2> QED BY <2>1, GuestEnvIs
<1> QED BY <1>1, <1>2

(* What a process in the guest gets: the routes before what the run set. *)
LEMMA guestEnvIs ==
    ASSUME NEW v, Serving(v), NEW vars \in Seq(VarSet), TokensSecret(vars)
    PROVE  /\ guestEnv(v, vars) \in Seq(VarSet) /\ TokensSecret(guestEnv(v, vars))
           /\ ProjectName \in NamesOf(guestEnv(v, vars)) <=> v.project
           /\ v.project => Gives(guestEnv(v, vars), ProjectName, Word("mounted"))
           /\ \A name, x : name # ProjectName /\ Gives(vars, name, x) => Gives(guestEnv(v, vars), name, x)
           /\ \A name, x : name # ProjectName /\ Gives(v.set, name, x) /\ name \notin NamesOf(vars)
                             => Gives(guestEnv(v, vars), name, x)
<1> DEFINE h == IF HomeVar \in NamesOf(v.set) THEN <<>> ELSE <<Var(HomeVar, Word("guest"))>>
           s == WithoutProject(v.set)
           w == WithoutProject(vars)
           p == IF v.project THEN <<Var(ProjectName, Word("mounted"))>> ELSE <<>>
<1>1. v.set \in Seq(VarSet) /\ TokensSecret(v.set) /\ v.project \in BOOLEAN
  <2>1. v.set \in Seq(VarSet) /\ v.project \in BOOLEAN /\ \A k \in DOMAIN v.set : v.set[k].value[1] # "token" BY DEF Serving
  <2> QED BY <2>1 DEF TokensSecret
<1>2. guestEnv(v, vars) = ((h \o s) \o w) \o p BY DEF guestEnv
<1>3. Word("guest")[1] # "token" /\ Word("mounted")[1] # "token" BY DEF Word
<1>4. h \in Seq(VarSet) /\ TokensSecret(h) /\ NamesOf(h) \in SUBSET {HomeVar}
  <2> DEFINE home == <<Var(HomeVar, Word("guest"))>>
  <2>1. home \in Seq(VarSet) /\ TokensSecret(home) /\ NamesOf(home) = {HomeVar} BY <1>3, WordsAre, PlainVar
  <2>2. h = home \/ h = <<>> OBVIOUS
  <2> HIDE DEF h, home
  <2> QED BY <2>1, <2>2, NoVars
<1>5. /\ s \in Seq(VarSet) /\ TokensSecret(s) /\ NamesOf(s) = NamesOf(v.set) \ {ProjectName}
      /\ \A name, x : name # ProjectName /\ Gives(v.set, name, x) => Gives(s, name, x)
  BY <1>1, WithoutProjectIs
<1>6. /\ w \in Seq(VarSet) /\ TokensSecret(w) /\ NamesOf(w) = NamesOf(vars) \ {ProjectName}
      /\ \A name, x : name # ProjectName /\ Gives(vars, name, x) => Gives(w, name, x)
  BY WithoutProjectIs
<1>7. /\ p \in Seq(VarSet) /\ TokensSecret(p) /\ NamesOf(p) = (IF v.project THEN {ProjectName} ELSE {})
      /\ v.project => Gives(p, ProjectName, Word("mounted"))
  <2> DEFINE one == <<Var(ProjectName, Word("mounted"))>>
  <2>1. /\ one \in Seq(VarSet) /\ TokensSecret(one) /\ NamesOf(one) = {ProjectName}
        /\ Gives(one, ProjectName, Word("mounted")) BY <1>3, WordsAre, PlainVar
  <2>2. (v.project => p = one) /\ (~v.project => p = <<>>) OBVIOUS
  <2> HIDE DEF p, one
  <2> QED BY <2>1, <2>2, NoVars
<1> HIDE DEF h, s, w, p
<1>8. /\ h \o s \in Seq(VarSet) /\ TokensSecret(h \o s) /\ NamesOf(h \o s) = NamesOf(h) \cup NamesOf(s)
  BY <1>4, <1>5, NamesAfter, SecretAfter
<1> DEFINE hs == h \o s
<1> HIDE DEF hs
<1>9. hs \in Seq(VarSet) /\ TokensSecret(hs) /\ NamesOf(hs) = NamesOf(h) \cup NamesOf(s) BY <1>8 DEF hs
<1>10. /\ hs \o w \in Seq(VarSet) /\ TokensSecret(hs \o w) /\ NamesOf(hs \o w) = NamesOf(hs) \cup NamesOf(w)
  BY <1>9, <1>6, NamesAfter, SecretAfter
<1>11. ASSUME NEW name, NEW x, name # ProjectName, Gives(vars, name, x) PROVE Gives(hs \o w, name, x)
  <2>1. Gives(w, name, x) BY <1>6, <1>11
  <2> QED BY <2>1, <1>9, <1>6, GivesAfter
<1>12. ASSUME NEW name, NEW x, name # ProjectName, Gives(v.set, name, x), name \notin NamesOf(vars)
       PROVE  Gives(hs \o w, name, x)
  <2>1. Gives(s, name, x) BY <1>5, <1>12
  <2>2. Gives(hs, name, x) BY <2>1, <1>4, <1>5, GivesAfter DEF hs
  <2>3. name \notin NamesOf(w) BY <1>6, <1>12
  <2> QED BY <2>2, <2>3, <1>9, <1>6, GivesBefore
<1> DEFINE hsw == hs \o w
<1>13. ProjectName \notin NamesOf(hsw) BY <1>4, <1>5, <1>6, <1>9, <1>10, NamesDiffer
<1>14. hsw \in Seq(VarSet) /\ TokensSecret(hsw) BY <1>10
<1>15. \A name, x : name # ProjectName /\ Gives(vars, name, x) => Gives(hsw, name, x) BY <1>11
<1>16. \A name, x : name # ProjectName /\ Gives(v.set, name, x) /\ name \notin NamesOf(vars) => Gives(hsw, name, x)
  BY <1>12
<1> HIDE DEF hsw
<1>17. hsw \o p \in Seq(VarSet) /\ TokensSecret(hsw \o p) /\ NamesOf(hsw \o p) = NamesOf(hsw) \cup NamesOf(p)
  BY <1>14, <1>7, NamesAfter, SecretAfter
<1>18. ProjectName \in NamesOf(hsw \o p) <=> v.project BY <1>1, <1>7, <1>13, <1>17
<1>19. v.project => Gives(hsw \o p, ProjectName, Word("mounted")) BY <1>7, <1>14, GivesAfter
<1>20. ASSUME NEW name, NEW x, name # ProjectName, Gives(hsw, name, x) PROVE Gives(hsw \o p, name, x)
  <2>1. name \notin NamesOf(p) BY <1>7, <1>20
  <2> QED BY <2>1, <1>7, <1>14, <1>20, GivesBefore
<1>21. \A name, x : name # ProjectName /\ Gives(vars, name, x) => Gives(hsw \o p, name, x) BY <1>15, <1>20
<1>22. \A name, x : name # ProjectName /\ Gives(v.set, name, x) /\ name \notin NamesOf(vars)
                      => Gives(hsw \o p, name, x) BY <1>16, <1>20
<1>23. guestEnv(v, vars) = hsw \o p BY <1>2 DEF hsw, hs
<1> QED BY <1>17, <1>18, <1>19, <1>21, <1>22, <1>23

LEMMA ServingWins ==
    ASSUME NEW v, Serving(v), NEW vars \in serveRoutes(v)
    PROVE  /\ RoutesValues(v, guestEnv(v, vars)) /\ GitEntriesKept(v, guestEnv(v, vars))
           /\ ProjectIsMounted(v, guestEnv(v, vars)) /\ TokensSecret(guestEnv(v, vars))
<1> DEFINE env == guestEnv(v, vars)
<1>1. Given(v.routes, vars) /\ GitKept(v, vars) BY ServedIs
<1>2. vars \in Seq(VarSet) /\ TokensSecret(vars) BY <1>1 DEF Given
<1>3. /\ env \in Seq(VarSet) /\ TokensSecret(env)
      /\ ProjectName \in NamesOf(env) <=> v.project
      /\ v.project => Gives(env, ProjectName, Word("mounted"))
      /\ \A name, x : name # ProjectName /\ Gives(vars, name, x) => Gives(env, name, x)
      /\ \A name, x : name # ProjectName /\ Gives(v.set, name, x) /\ name \notin NamesOf(vars) => Gives(env, name, x)
  BY <1>2, guestEnvIs
<1> HIDE DEF env
<1>4. \A name, x : Gives(env, name, x) => Has(env, name, x) BY <1>3, GivesHas
<1>5. \A name, x : name # ProjectName /\ Gives(vars, name, x) => Has(env, name, x) BY <1>3, <1>4
<1>6. RoutesValues(v, env)
  <2> SUFFICES ASSUME NEW k \in DOMAIN v.routes
               PROVE  LET r == v.routes[k] IN
                      /\ \A name \in DOMAIN r.env : ~OfBrig(name) =>
                           \A i \in DOMAIN FilledIn(r, name) : Has(env, name, FilledIn(r, name)[i].value)
                      /\ r.endpoint => \A s \in r.services : Has(env, ServiceName(s), RouteURL(r))
                      /\ hasGit(r) /\ ~Named(v.routes, TokenVar(r)) => Has(env, TokenVar(r), Token(r))
    BY DEF RoutesValues
  <2> DEFINE r == v.routes[k]
  <2>1. /\ \A name \in DOMAIN r.env : ~OfBrig(name) =>
             \A i \in DOMAIN FilledIn(r, name) : Gives(vars, name, FilledIn(r, name)[i].value)
        /\ r.endpoint => \A s \in r.services : Gives(vars, ServiceName(s), RouteURL(r))
        /\ hasGit(r) /\ ~Named(v.routes, TokenVar(r)) => Gives(vars, TokenVar(r), Token(r)) BY <1>1 DEF Given
  <2> HIDE DEF r
  <2>2. \A name : ~OfBrig(name) => name # ProjectName BY DEF OfBrig
  <2>3. ASSUME NEW name \in DOMAIN r.env, ~OfBrig(name), NEW i \in DOMAIN FilledIn(r, name)
        PROVE  Has(env, name, FilledIn(r, name)[i].value)
    BY <2>1, <2>2, <2>3, <1>5
  <2>4. ASSUME r.endpoint, NEW s \in r.services PROVE Has(env, ServiceName(s), RouteURL(r))
    <3>1. ServiceName(s) # ProjectName BY NamesDiffer
    <3> QED BY <3>1, <2>1, <2>4, <1>5
  <2>5. ASSUME hasGit(r), ~Named(v.routes, TokenVar(r)) PROVE Has(env, TokenVar(r), Token(r))
    <3>1. TokenVar(r) # ProjectName BY NamesDiffer
    <3> QED BY <3>1, <2>1, <2>5, <1>5
  <2> QED BY <2>3, <2>4, <2>5 DEF r
<1>7. GitEntriesKept(v, env)
  <2> DEFINE git == AllGit(v.routes)
             base == OwnEntries(v.set)
  <2>1. SUFFICES ASSUME git # <<>>
                 PROVE  /\ Has(env, CountName, <<"count", base + Len(git)>>)
                        /\ \A n \in 0..(base - 1) : GitKey(n) \in NamesOf(v.set) /\ ~Named(v.routes, GitKey(n)) =>
                             Has(env, GitKey(n), Effective(v.set, GitKey(n)))
                        /\ \A i \in 1..Len(git) : Has(env, GitKey(base + i - 1), git[i])
    BY DEF GitEntriesKept
  <2>2. /\ Gives(vars, CountName, <<"count", base + Len(git)>>)
        /\ \A n \in 0..(base - 1) : ~Named(v.routes, GitKey(n)) => GitKey(n) \notin NamesOf(vars)
        /\ \A i \in 1..Len(git) : Gives(vars, GitKey(base + i - 1), git[i]) BY <1>1, <2>1 DEF GitKept
  <2> HIDE DEF git, base
  <2>3. v.set \in Seq(VarSet) BY DEF Serving
  <2>4. Has(env, CountName, <<"count", base + Len(git)>>) BY <2>2, <1>5, NamesDiffer
  <2>5. \A i \in 1..Len(git) : Has(env, GitKey(base + i - 1), git[i]) BY <2>2, <1>5, NamesDiffer
  <2>6. ASSUME NEW n \in 0..(base - 1), GitKey(n) \in NamesOf(v.set), ~Named(v.routes, GitKey(n))
        PROVE  Has(env, GitKey(n), Effective(v.set, GitKey(n)))
    <3>1. Gives(v.set, GitKey(n), Effective(v.set, GitKey(n))) BY <2>3, <2>6, GivesExists
    <3>2. GitKey(n) # ProjectName /\ GitKey(n) \notin NamesOf(vars) BY <2>2, <2>6, NamesDiffer
    <3>3. Gives(env, GitKey(n), Effective(v.set, GitKey(n))) BY <3>1, <3>2, <1>3
    <3> QED BY <3>3, <1>4
  <2> QED BY <2>4, <2>5, <2>6
<1>8. ProjectIsMounted(v, env) BY <1>3, <1>4 DEF ProjectIsMounted
<1> QED BY <1>3, <1>6, <1>7, <1>8 DEF env

ServeSpec == ServeInit /\ [][\E v : ServeTry(v)]_srv

\* Whatever the run has set and whichever routes its policies bind, a process in the
\* guest gets what its routes give it: the value of each variable of guest.env and of
\* the services, each git route's token, every git entry after the guest's own, the
\* project that is mounted or none; and no token is in a variable that may go on a
\* command line (endpoint.go:76-262, routes.go:263-353, run.go:966-1008).
THEOREM RoutesWin == ServeSpec => []RouteVarsWin
<1>1. ServeInit => RouteVarsWin BY DEF ServeInit, RouteVarsWin
<1>2. RouteVarsWin /\ [\E v : ServeTry(v)]_srv => RouteVarsWin'
  <2> SUFFICES ASSUME RouteVarsWin, [\E v : ServeTry(v)]_srv PROVE RouteVarsWin' OBVIOUS
  <2>1. CASE UNCHANGED srv BY <2>1 DEF RouteVarsWin
  <2>2. CASE \E v : ServeTry(v)
    <3>1. PICK v : ServeTry(v) BY <2>2
    <3>2. Serving(v) /\ srv' = <<v, {guestEnv(v, vars) : vars \in serveRoutes(v)}>> BY <3>1 DEF ServeTry
    <3>3. ASSUME NEW vars \in serveRoutes(v)
          PROVE  /\ RoutesValues(v, guestEnv(v, vars)) /\ GitEntriesKept(v, guestEnv(v, vars))
                 /\ ProjectIsMounted(v, guestEnv(v, vars)) /\ TokensSecret(guestEnv(v, vars))
      BY <3>2, ServingWins
    <3>4. srv'[1] = v /\ srv'[2] = {guestEnv(v, vars) : vars \in serveRoutes(v)} BY <3>2
    <3> QED BY <3>3, <3>4 DEF RouteVarsWin
  <2> QED BY <2>1, <2>2
<1> QED BY <1>1, <1>2, PTL DEF ServeSpec

=============================================================================
