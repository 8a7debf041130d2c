----------------------------- MODULE EgressTable -----------------------------
(***************************************************************************)
(* The egress filter of one sandbox on the container network               *)
(* (internal/egress, internal/divert): the nftables table that a resolver  *)
(* process installs and keeps in place, the pins that its answers put      *)
(* there for a time, the divert sets that it keeps in memory and in the    *)
(* table, and the relay that takes what the table redirects.               *)
(*                                                                         *)
(* Time is a number of ticks; an element of a timed set is the ticks that  *)
(* are left of it.  The upstream resolvers answer any address for a name,  *)
(* and every nft command may fail.  "d" is the diverted host, "n" a name   *)
(* that the rules of the policy are about.                                 *)
(***************************************************************************)
EXTENDS Naturals, FiniteSets, FiniteSetsExt

CONSTANTS
    Addrs,       \* IPv4 addresses
    Queries,     \* DNS queries answered at once
    Policies,    \* bound: the policies that are tried, each with a value of divert.MaxAddrs
    PinTTL, PinGrace, Retention, HeartbeatLapse  \* lifetimes, in ticks

ASSUME EgressAssumption ==
    /\ PinTTL \in Nat \ {0} /\ HeartbeatLapse \in Nat \ {0} /\ Retention \in Nat \ {0}
    /\ PinGrace \in Nat
    /\ {"none", "keeper"} \cap Queries = {}

VARIABLES
    pol,      \* Policy: the default, the names of the host rules, the literal ones
    keeper,   \* the resolver process: its start, and then tableKeeper.run
    ready,    \* the line brig waits for was logged; the guest is up
    tbl,      \* the sandbox's table
    mem,      \* Diverts.Set: the addresses of the diverted host
    mu,       \* Diverts.mu
    copy,     \* the addresses in the script that install runs
    ask,      \* the queries, and the watch of the diverts
    learned,  \* answers the guest has: where they are pinned, and the ticks that are
              \* left of their TTL; past it, only those of the diverted host matter
    conn      \* what conntrack has of a destination: nothing, or this boot's mark

egressVars == <<pol, keeper, ready, tbl, mem, mu, copy, ask, learned, conn>>

Names == {"n", "d"}
Adders == Queries \cup {"watch"}
None == [a \in Addrs |-> 0]
NoTable == [on |-> FALSE, div |-> {}, allow_ip |-> None, deny_ip |-> None,
            allow_host |-> None, deny_host |-> None, alive |-> 0, pinned |-> FALSE]
IdleAsk == [pc |-> "idle", name |-> "d", addr |-> "none"]

EgressInit ==
    /\ pol \in Policies
    /\ keeper = "resolve"
    /\ ready = FALSE
    /\ tbl = NoTable
    /\ mem = {}
    /\ mu = "none"
    /\ copy = {}
    /\ ask = [q \in Adders |-> IdleAsk]
    /\ learned = {}
    /\ conn = [a \in Addrs |-> "none"]

-----------------------------------------------------------------------------
\* The policy.

HasHostRules == pol.allow # {} \/ pol.deny # {}

\* Policy.AllowsQuery: under a deny default, a name that no allow rule or that a
\* deny rule matches is refused.
AllowsQuery(name) == pol.default = "deny" => name \notin pol.deny /\ name \in pol.allow

\* Resolver.pinSet: the set that the addresses of an answer go in.
pinSet(name) ==
    IF ~HasHostRules THEN "none"
    ELSE IF name \in pol.deny THEN "deny_ip"
    ELSE IF pol.default = "allow" THEN "none" ELSE "allow_ip"

\* The verdict of the chains of Ruleset on a packet of the guest to a, of a
\* connection in state c: redirected to the relay, refused, or forwarded, with or
\* without this boot's mark.  divert and divert_fwd come before egress.
Verdict(a, c) ==
    IF ~tbl.on THEN "forward"
    ELSE IF a \in tbl.div THEN IF c = "marked" THEN "refuse" ELSE "relay"
    ELSE IF pol.default = "none" THEN "forward"
    ELSE IF c = "marked" THEN "admit"
    ELSE IF tbl.alive = 0 THEN "refuse"
    ELSE IF tbl.deny_ip[a] > 0 \/ tbl.deny_host[a] > 0 THEN "refuse"
    ELSE IF tbl.allow_ip[a] > 0 \/ tbl.allow_host[a] > 0 THEN "admit"
    ELSE IF pol.default = "allow" THEN "admit" ELSE "refuse"

-----------------------------------------------------------------------------
\* The table: tableKeeper and Diverts.install.

\* Changed form of Free: nothing orders an add against an install.
FreeAlways(who) == TRUE

\* Diverts.mu can be taken.
Free(who) == mu = "none"

\* Diverts.Set.Add: it adds none when the set would be too large.
Fits(a) == Cardinality(mem \cup {a}) <= pol.max

\* serve, before the table is there: Diverts.Resolve of the routes; a host that
\* does not resolve fails the start.
Resolve ==
    /\ keeper = "resolve"
    /\ \/ \E a \in Addrs : Fits(a) /\ mem' = mem \cup {a} /\ keeper' = "copy"
       \/ keeper' = "gone" /\ UNCHANGED mem
    /\ UNCHANGED <<pol, ready, tbl, mu, copy, ask, learned, conn>>

\* tableKeeper.install, which the start and a table that is gone run: the
\* script takes the addresses in memory under mu.
InstallCopy ==
    /\ keeper = "copy"
    /\ Free("keeper")
    /\ mu' = "keeper"
    /\ copy' = mem
    /\ keeper' = "run"
    /\ UNCHANGED <<pol, ready, tbl, mem, ask, learned, conn>>

Failed == IF ready THEN "serving" ELSE "gone"

\* Changed form of AfterInstall: the heartbeat starts before the hosts are pinned.
BeatFirst(t) == [t EXCEPT !.alive = HeartbeatLapse]

\* The table that install leaves for the pin step: nobody is alive in it yet.
AfterInstall(t) == t

\* A table that goes takes the pins of the answers with it, and they come back
\* as the guest asks again.
Unpinned == {[l EXCEPT !.pin = "none", !.ttl = 0] : l \in {k \in learned : k.name = "d"}}

\* nft replaces the table in one transaction, or fails.
InstallRun ==
    /\ keeper = "run"
    /\ mu' = IF mu = "keeper" THEN "none" ELSE mu
    /\ \/ /\ tbl' = AfterInstall([NoTable EXCEPT !.on = TRUE, !.div = copy])
          /\ keeper' = "pin" /\ learned' = Unpinned
       \/ keeper' = Failed /\ UNCHANGED <<tbl, learned>>
    /\ copy' = {}
    /\ UNCHANGED <<pol, ready, mem, ask, conn>>

\* refreshHost of the literal hosts in one set: looked up and pinned for
\* Retention, or left as they are.
PinHosts(t, set, names) ==
    IF names \cap pol.literal = {} \/ ~t.on THEN {t}
    ELSE {t} \cup {[t EXCEPT ![set][a] = Retention] : a \in Addrs}

\* RefreshHosts in install, before the heartbeat.
InstallPin ==
    /\ keeper = "pin"
    /\ \E t \in PinHosts(tbl, "allow_host", pol.allow) : \E u \in PinHosts(t, "deny_host", pol.deny) :
         tbl' = [u EXCEPT !.pinned = u.on]
    /\ keeper' = "beat"
    /\ UNCHANGED <<pol, ready, mem, mu, copy, ask, learned, conn>>

\* The first beat, after which the start binds its sockets and brig boots the
\* guest.
InstallBeat ==
    /\ keeper = "beat"
    /\ \/ /\ tbl.on
          /\ tbl' = [tbl EXCEPT !.alive = HeartbeatLapse]
          /\ keeper' = "serving" /\ ready' = TRUE
       \/ /\ keeper' = Failed
          /\ UNCHANGED <<tbl, ready>>
    /\ UNCHANGED <<pol, mem, mu, copy, ask, learned, conn>>

\* tableKeeper.run, a tick of it: the heartbeat is renewed, or it failed and the
\* table is looked for; one that is not there, or cannot be listed, is installed
\* again.
Heartbeat ==
    /\ keeper = "serving"
    /\ \/ tbl.on /\ tbl' = [tbl EXCEPT !.alive = HeartbeatLapse] /\ UNCHANGED keeper
       \/ keeper' = "copy" /\ UNCHANGED tbl
    /\ UNCHANGED <<pol, ready, mem, mu, copy, ask, learned, conn>>

\* WatchHosts.
RefreshHosts ==
    /\ ready /\ keeper # "gone"
    /\ \E t \in PinHosts(tbl, "allow_host", pol.allow) : \E u \in PinHosts(t, "deny_host", pol.deny) :
         tbl' = u
    /\ UNCHANGED <<pol, keeper, ready, mem, mu, copy, ask, learned, conn>>

-----------------------------------------------------------------------------
\* Queries: Resolver.Answer, and the watch of the diverts.

\* The query is allowed, forwarded, and its answer is well formed; any other one
\* is answered with an error or with no record and changes nothing.
Ask(q, name, a) ==
    /\ ready /\ keeper # "gone"
    /\ ask[q].pc = "idle"
    /\ q = "watch" => name = "d"
    /\ q # "watch" => AllowsQuery(name)
    /\ ask' = [ask EXCEPT ![q] = [pc |-> IF name = "d" THEN "add" ELSE "pin", name |-> name, addr |-> a]]
    /\ UNCHANGED <<pol, keeper, ready, tbl, mem, mu, copy, learned, conn>>

\* Diverts.add, first half: mu, and memory; a full set fails the query.
AddMem(q) ==
    /\ ask[q].pc = "add"
    /\ Free(q)
    /\ \/ /\ Fits(ask[q].addr)
          /\ mu' = q
          /\ mem' = mem \cup {ask[q].addr}
          /\ ask' = [ask EXCEPT ![q].pc = "push"]
       \/ /\ ~Fits(ask[q].addr)
          /\ ask' = [ask EXCEPT ![q] = IdleAsk]
          /\ UNCHANGED <<mu, mem>>
    /\ UNCHANGED <<pol, keeper, ready, tbl, copy, learned, conn>>

\* Second half: the table, and mu goes; a failure fails the query.
AddTable(q) ==
    /\ ask[q].pc = "push"
    /\ mu' = IF mu = q THEN "none" ELSE mu
    /\ \/ /\ tbl.on
          /\ tbl' = [tbl EXCEPT !.div = @ \cup {ask[q].addr}]
          /\ ask' = [ask EXCEPT ![q] = IF q = "watch" THEN IdleAsk ELSE [@ EXCEPT !.pc = "pin"]]
       \/ ask' = [ask EXCEPT ![q] = IdleAsk] /\ UNCHANGED tbl
    /\ UNCHANGED <<pol, keeper, ready, mem, copy, learned, conn>>

\* Changed form of Pinned: an add that does not refresh the timeout of an
\* address that is there.
PinnedOnce(old, life) == IF old > 0 THEN old ELSE life

\* PinScript: add, delete and add again, for a fresh timeout.
Pinned(old, life) == life

\* The pin and the answer: the guest gets it when the pin is in.
PinAnswer(q) ==
    LET r == ask[q]
        set == pinSet(r.name)
    IN  /\ r.pc = "pin"
        /\ ask' = [ask EXCEPT ![q] = IdleAsk]
        /\ \/ /\ set = "none" \/ tbl.on
              /\ tbl' = IF set = "none" THEN tbl
                        ELSE [tbl EXCEPT ![set][r.addr] = Pinned(@, PinTTL + PinGrace)]
              /\ learned' = {l \in learned : l.name # r.name \/ l.addr # r.addr}
                              \cup {[name |-> r.name, addr |-> r.addr, ttl |-> IF set = "none" THEN 0 ELSE PinTTL, pin |-> set]}
           \/ set # "none" /\ UNCHANGED <<tbl, learned>>
        /\ UNCHANGED <<pol, keeper, ready, mem, mu, copy, conn>>

-----------------------------------------------------------------------------
\* The guest and the host.

\* A packet of the guest: a new connection, or one that conntrack has.  The relay
\* hands a connection on when the destination is in memory and resets it
\* otherwise (Relay.handle); the guest keeps no direct connection by it.
Packet(a) ==
    /\ ready
    /\ LET v == Verdict(a, conn[a]) IN
       conn' = [conn EXCEPT ![a] =
                 IF v = "admit" THEN IF @ = "marked" \/ tbl.pinned THEN "marked" ELSE "early"
                 ELSE IF v = "forward" /\ @ = "marked" THEN @ ELSE "none"]
    /\ UNCHANGED <<pol, keeper, ready, tbl, mem, mu, copy, ask, learned>>

\* flush ruleset on the host, or a restarted rootless containerd.
Flush ==
    /\ ready /\ tbl.on
    /\ tbl' = NoTable
    /\ learned' = Unpinned
    /\ UNCHANGED <<pol, keeper, ready, mem, mu, copy, ask, conn>>

\* The process is killed.
Kill ==
    /\ ready /\ keeper # "gone"
    /\ keeper' = "gone" /\ mu' = "none" /\ copy' = {}
    /\ ask' = [q \in Adders |-> IdleAsk]
    /\ UNCHANGED <<pol, ready, tbl, mem, learned, conn>>

Less(n) == IF n = 0 THEN 0 ELSE n - 1
Aged(f) == [a \in Addrs |-> Less(f[a])]

\* A tick of the clock, which the kernel's timeouts and the guest's caches see.
\* The keeper's ticker is shorter than the lapse of the heartbeat.
EgressTick ==
    /\ ready
    /\ tbl' = [tbl EXCEPT !.allow_ip = Aged(@), !.deny_ip = Aged(@), !.allow_host = Aged(@),
                          !.deny_host = Aged(@), !.alive = Less(@)]
    /\ learned' = {[l EXCEPT !.ttl = Less(@), !.pin = IF l.ttl > 1 THEN @ ELSE "none"] :
                     l \in {k \in learned : k.ttl > 1 \/ k.name = "d"}}
    /\ UNCHANGED <<pol, keeper, ready, mem, mu, copy, ask, conn>>

EgressNext ==
    \/ Resolve \/ InstallCopy \/ InstallRun \/ InstallPin \/ InstallBeat \/ Heartbeat \/ RefreshHosts
    \/ \E q \in Adders, name \in Names, a \in Addrs : Ask(q, name, a)
    \/ \E q \in Adders : AddMem(q) \/ AddTable(q)
    \/ \E q \in Queries : PinAnswer(q)
    \/ \E a \in Addrs : Packet(a)
    \/ Flush \/ Kill \/ EgressTick

EgressSpec == EgressInit /\ [][EgressNext]_egressVars

-----------------------------------------------------------------------------
\* Properties.

\* Whatever the order of answers, reinstalls of the table and failed nft
\* commands, a table that is in place diverts every address of the diverted
\* host that the guest was ever told, and nothing that the relay would not
\* know: no add is lost between the copy that a reinstall takes and the new
\* table (divert.go:22-31, divert.go:86).
DivertsAgree ==
    tbl.on => /\ tbl.div \subseteq mem
              /\ \A l \in learned : l.name = "d" => l.addr \in tbl.div

\* The address in an answer is in the set that governs it for as long as the
\* guest may use the answer, also when it was pinned before and when the pin
\* of a refresh ends in between (resolver.go:190, nft.go:276).
PinOutlivesAnswer ==
    \A l \in learned : l.ttl > 0 /\ l.pin # "none" => tbl[l.pin][l.addr] > 0

\* No connection is admitted by a table whose literal hosts were not looked up
\* and pinned yet: it would keep its mark and skip the deny sets for its whole
\* life (main.go:280-300).
NoEarlyAdmit == \A a \in Addrs : conn[a] # "early"

\* The table, the memory of the resolver and what the guest was told agree at
\* every moment: diverted addresses, pins, and no table that admits too early.
TableSound == DivertsAgree /\ PinOutlivesAnswer /\ NoEarlyAdmit
=============================================================================
