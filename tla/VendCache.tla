----------------------------- MODULE VendCache -----------------------------
(***************************************************************************)
(* The cache of fetched credentials of the routes that vend (awscred, and  *)
(* gcpcred with one margin), under the broker's registrations.  A key of   *)
(* the cache is a sandbox and a route; one route stands for all, so a      *)
(* sandbox id is the key.  An entry is an object: callers keep the one     *)
(* they found after Forget took it out of the map.                         *)
(*                                                                         *)
(* Callers are the goroutines of the broker: requests of a guest (Vend)    *)
(* and registrations (addSandbox, which checks the route before it takes   *)
(* the mutex).  What is left of the life of fetched keys is a level:       *)
(* 3 at least getMargin, 2 at least ensureMargin, 1 valid, 0 expired.  A   *)
(* fetch may bring keys of any level: neither command line's answer is     *)
(* held to a margin, nor to being unexpired.                               *)
(* A broker that is stopping, and so ends with its cache, is left to       *)
(* BrokerLifecycle.                                                        *)
(***************************************************************************)
EXTENDS Naturals, FiniteSets

CONSTANTS Ids,       \* the sandboxes
          Ptrs,      \* what the secret may point at: a mode, a profile, a role
          Callers,   \* the goroutines
          Entries,   \* the entry objects
          None

ASSUME VendAssumption == None \notin Ids \cup Ptrs \cup Callers \cup Entries

VARIABLES
    secretPtr,   \* the pointer the secret store holds
    registered,  \* the sandboxes the server has registered
    entries,     \* Cache.entries: the entry of each sandbox, or None
    held,        \* the keys an entry holds
    flight,      \* the pointer of the fetch running for an entry, or None
    failing,     \* the sandboxes whose route is reported as failing
    pc, call,    \* where each caller is, and its locals
    raced        \* the sandboxes last forgotten while one of their requests ran

cacheVars == <<entries, held, flight>>
callVars == <<pc, call>>
vars == <<secretPtr, registered, cacheVars, failing, callVars, raced>>

getMargin == 3
ensureMargin == 2

\* entry{}: no keys.
NoKeys == [ptr |-> None, left |-> 0, recent |-> FALSE]

\* What a caller is answered with: keys of a pointer, or no keys and an error.
answer(k) == [ptr |-> k.ptr, live |-> k.left > 0]

NoCall == [id |-> None, ptr |-> None, e |-> None, margin |-> 0,
           seen |-> None, res |-> answer(NoKeys)]

vending(c) == call[c].margin = getMargin

Init ==
    /\ secretPtr \in Ptrs
    /\ registered = {}
    /\ entries = [id \in Ids |-> None]
    /\ held = [e \in Entries |-> NoKeys]
    /\ flight = [e \in Entries |-> None]
    /\ failing = {}
    /\ pc = [c \in Callers |-> "idle"]
    /\ call = [c \in Callers |-> NoCall]
    /\ raced = {}

-----------------------------------------------------------------------------
goto(c, label) == pc' = [pc EXCEPT ![c] = label]

\* A request whose token verified: its sandbox is registered when it is looked
\* up, and the pointer is read from the store.
Vend(c, id) ==
    /\ pc[c] = "idle" /\ id \in registered
    /\ goto(c, "get")
    /\ call' = [call EXCEPT ![c] =
           [NoCall EXCEPT !.id = id, !.ptr = secretPtr, !.margin = getMargin]]
    /\ UNCHANGED <<secretPtr, registered, cacheVars, failing, raced>>

\* addSandbox: checkVends runs before s.mu is taken.
addSandbox(c, id) ==
    /\ pc[c] = "idle"
    /\ goto(c, "get")
    /\ call' = [call EXCEPT ![c] =
           [NoCall EXCEPT !.id = id, !.ptr = secretPtr, !.margin = ensureMargin]]
    /\ UNCHANGED <<secretPtr, registered, cacheVars, failing, raced>>

\* An object nothing refers to any more.
unused(e) ==
    /\ \A id \in Ids : entries[id] # e
    /\ flight[e] = None
    /\ \A c \in Callers : call[c].e # e

\* get finds the entry of its key or puts a new one in the map.
FindEntry(c) ==
    /\ pc[c] = "get"
    /\ \E e \in Entries :
          /\ \/ /\ entries[call[c].id] = e
                /\ UNCHANGED <<entries, held>>
             \/ /\ entries[call[c].id] = None /\ unused(e)
                /\ entries' = [entries EXCEPT ![call[c].id] = e]
                /\ held' = [held EXCEPT ![e] = NoKeys]
          /\ call' = [call EXCEPT ![c].e = e]
    /\ goto(c, "look")
    /\ UNCHANGED <<secretPtr, registered, flight, failing, raced>>

\* Mutant: keys that arrived within refetchFloor are served however old.
servableRecent(k, p, margin) ==
    k.ptr # None /\ k.ptr = p /\ (k.left >= margin \/ k.recent)

\* The held keys are for the pointer asked for, and have margin left or arrived
\* within refetchFloor and have not expired.
servable(k, p, margin) ==
    /\ k.ptr # None /\ k.ptr = p
    /\ k.left >= margin \/ (k.recent /\ k.left > 0)

\* The turn of get under the entry's mutex: serve the held keys, start a fetch
\* or join the one that runs.
Look(c) ==
    LET e == call[c].e IN
    /\ pc[c] = "look"
    /\ \/ /\ flight[e] = None /\ servable(held[e], call[c].ptr, call[c].margin)
          /\ goto(c, "done")
          /\ call' = [call EXCEPT ![c].res = answer(held[e])]
          /\ UNCHANGED flight
       \/ /\ flight[e] = None /\ ~servable(held[e], call[c].ptr, call[c].margin)
          /\ flight' = [flight EXCEPT ![e] = call[c].ptr]
          /\ goto(c, "wait")
          /\ UNCHANGED call
       \/ /\ flight[e] # None
          /\ goto(c, "wait")
          /\ UNCHANGED <<call, flight>>
    /\ UNCHANGED <<secretPtr, registered, entries, held, failing, raced>>

\* The fetch ends: the entry takes the keys, or drops the ones it held, and
\* every caller that waits on the flight sees its pointer and its result.
fetched(e, keys) ==
    /\ flight[e] # None
    /\ held' = [held EXCEPT ![e] = keys]
    /\ flight' = [flight EXCEPT ![e] = None]
    /\ call' = [c \in Callers |->
          IF pc[c] = "wait" /\ call[c].e = e
          THEN [call[c] EXCEPT !.seen = flight[e], !.res = answer(keys)] ELSE call[c]]
    /\ pc' = [c \in Callers |->
          IF pc[c] = "wait" /\ call[c].e = e THEN "woken" ELSE pc[c]]
    /\ UNCHANGED <<secretPtr, registered, entries, failing, raced>>

\* The command printed keys with an Expiration, which may have passed.
FetchOK(e) == \E n \in 0..3 :
    fetched(e, [ptr |-> flight[e], left |-> n, recent |-> TRUE])

FetchFails(e) == fetched(e, NoKeys)

\* Mutant: a waiter takes the result of whatever flight it waited on.
WokenAny(c) ==
    /\ pc[c] = "woken"
    /\ goto(c, "done")
    /\ UNCHANGED <<secretPtr, registered, cacheVars, failing, call, raced>>

\* A flight for another pointer is no answer: look again.
Woken(c) ==
    /\ pc[c] = "woken"
    /\ \/ /\ call[c].seen = call[c].ptr
          /\ goto(c, "done")
          /\ UNCHANGED call
       \/ /\ call[c].seen # call[c].ptr
          /\ goto(c, "look")
          /\ call' = [call EXCEPT ![c].seen = None, ![c].res = answer(NoKeys)]
    /\ UNCHANGED <<secretPtr, registered, cacheVars, failing, raced>>

\* The caller's context ends: it returns an error, and the fetch goes on.
HangUp(c) ==
    /\ pc[c] = "wait"
    /\ goto(c, "done")
    /\ UNCHANGED <<secretPtr, registered, cacheVars, failing, call, raced>>

succeeded(c) == call[c].res.ptr # None

\* awsVendor.succeeded and awsVendor.failed.
noteSucceeded(c) == succeeded(c) /\ failing' = failing \ {call[c].id}
noteFailed(c) == failing' = failing \cup {call[c].id}

return(c) == goto(c, "idle") /\ call' = [call EXCEPT ![c] = NoCall]

\* Vend answers the guest.
VendDone(c) ==
    /\ pc[c] = "done" /\ vending(c)
    /\ noteSucceeded(c) \/ (~succeeded(c) /\ noteFailed(c))
    /\ return(c)
    /\ UNCHANGED <<secretPtr, registered, cacheVars, raced>>

\* check returns to addSandbox, which goes on to take s.mu.  It also asks aws
\* for the profile's region, which fails by itself.
CheckDone(c) ==
    /\ pc[c] = "done" /\ ~vending(c)
    /\ \/ noteSucceeded(c) /\ UNCHANGED call
       \/ noteFailed(c) /\ call' = [call EXCEPT ![c].res = answer(NoKeys)]
    /\ goto(c, "lock")
    /\ UNCHANGED <<secretPtr, registered, cacheVars, raced>>

\* awsVendor.forget: the entries of the sandbox, then its failures.
forget(id) ==
    /\ entries' = [entries EXCEPT ![id] = None]
    /\ failing' = failing \ {id}
    /\ raced' = IF \E c \in Callers : vending(c) /\ call[c].id = id
                THEN raced \cup {id} ELSE raced \ {id}

\* Mutant: a refusal forgets nothing.
refusedKeeps(c) == UNCHANGED <<registered, entries, failing, raced>>

\* A refused registration leaves nothing behind, unless the sandbox was
\* registered before.
refused(c) ==
    /\ \/ call[c].id \notin registered /\ forget(call[c].id)
       \/ call[c].id \in registered /\ UNCHANGED <<entries, failing, raced>>
    /\ UNCHANGED registered

\* The rest of addSandbox, under s.mu: the check failed, the registration is
\* taken or refused, or its divert socket does not open and it is dropped.
Register(c) ==
    /\ pc[c] = "lock"
    /\ \/ ~succeeded(c) /\ refused(c)
       \/ /\ succeeded(c)
          /\ \/ /\ registered' = registered \cup {call[c].id}
                /\ UNCHANGED <<entries, failing, raced>>
             \/ refused(c)
             \/ registered' = registered \ {call[c].id} /\ forget(call[c].id)
    /\ return(c)
    /\ UNCHANGED <<secretPtr, held, flight>>

\* removeSandbox, under s.mu.
removeSandbox(id) ==
    /\ registered' = registered \ {id}
    /\ forget(id)
    /\ UNCHANGED <<secretPtr, held, flight, callVars>>

\* brig secret import replaces the pointer.
Import(p) ==
    /\ p # secretPtr
    /\ secretPtr' = p
    /\ UNCHANGED <<registered, cacheVars, failing, callVars, raced>>

\* Time passes for the keys an entry holds: they come nearer their end, within
\* refetchFloor of their arrival or not, or refetchFloor passes alone.
Age(e) ==
    /\ flight[e] = None /\ ~unused(e)
    /\ \/ /\ held[e].left > 0
          /\ \E r \in {held[e].recent, FALSE} :
                held' = [held EXCEPT ![e].left = @ - 1, ![e].recent = r]
       \/ /\ held[e].recent
          /\ held' = [held EXCEPT ![e].recent = FALSE]
    /\ UNCHANGED <<secretPtr, registered, entries, flight, failing, callVars, raced>>

Step(c) ==
    \/ FindEntry(c) \/ Look(c) \/ Woken(c) \/ VendDone(c) \/ CheckDone(c)
    \/ Register(c)

Next ==
    \/ \E c \in Callers : \/ \E id \in Ids : Vend(c, id) \/ addSandbox(c, id)
                          \/ Step(c) \/ HangUp(c)
    \/ \E e \in Entries : FetchOK(e) \/ FetchFails(e) \/ Age(e)
    \/ \E id \in Ids : removeSandbox(id)
    \/ \E p \in Ptrs : Import(p)

Spec == Init /\ [][Next]_vars

-----------------------------------------------------------------------------

\* No caller is answered with keys of another identity: the keys it gets were
\* fetched for the pointer it read, however the secret was imported again, the
\* sandbox removed and the flights shared meanwhile.  Keys the entry already
\* held are served only while they are valid, those that arrived within
\* refetchFloor too; keys of a flight the caller waited on (seen) are passed on
\* with whatever life they came with, none included.
AnswersPointer ==
    \A c \in Callers : pc[c] = "done" /\ succeeded(c) =>
        /\ call[c].res.ptr = call[c].ptr
        /\ call[c].seen = None => call[c].res.live

\* No call of sandbox id is under way.
quiet(id) == \A c \in Callers : call[c].id # id

\* A sandbox that is not registered leaves no keys and no failures behind, when
\* its registration was refused as when it was removed, unless it was forgotten
\* under one of its own requests ("a sandbox that was not registered before
\* leaves no keys or tokens behind").
LeavesNothing ==
    \A id \in Ids \ (registered \cup raced) : quiet(id) =>
        entries[id] = None /\ id \notin failing
=============================================================================
