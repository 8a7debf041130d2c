--------------------------- MODULE BrokerRequests ---------------------------
(***************************************************************************)
(* The request path of the broker: internal/broker, Handler.ServeHTTP and  *)
(* what it shares between requests.  Registrations of sandboxes, each with *)
(* a key of its own; session tokens and the live ones the placeholder scan *)
(* looks for; the replay budget that bodies are held from; the parsed      *)
(* certificates and the transports of a route with inject.tls; the renewal *)
(* that an upstream 401 forces.                                            *)
(*                                                                         *)
(* A registration is a number, the nonce of sandboxKey: two registrations  *)
(* of one id have different keys.  A body is counted in steps of the       *)
(* budget.  A document and a certificate are versions of the stored        *)
(* secret.  The parsed CA bundles are cached and pruned beside the         *)
(* certificates by the same steps, and one version stands for both.        *)
(***************************************************************************)
EXTENDS Naturals, Sequences, FiniteSets, SequencesExt

CONSTANTS
    Ids,        \* sandbox ids
    Reqs,       \* requests in progress at once
    Budget,     \* ReplayBudget, in steps
    MaxHeld,    \* maxHeld, in steps; the last one is the byte past maxReplay
    MaxLive,    \* maxLive
    Loads,      \* bound: what guests do: reqs, each a route and the length of its body,
                \* the expiries of their tokens and the number of tokens
    MaxGen,     \* bound: registrations
    MaxTime,    \* bound: the clock
    MaxVersion, \* bound: versions of a secret
    Slots       \* bound: transports in use at once

ASSUME RequestsAssumption ==
    /\ Budget \in Nat /\ MaxHeld \in Nat \ {0} /\ MaxLive \in Nat \ {0}
    /\ MaxGen \in Nat /\ MaxTime \in Nat /\ MaxVersion \in Nat \ {0}
    /\ IsFiniteSet(Ids) /\ IsFiniteSet(Reqs)
    /\ Slots \subseteq Nat \ {0}
    /\ \A l \in Loads : l.reqs \subseteq {"plain", "tls", "vend"} \X Nat /\ l.exps \subseteq Nat

VARIABLES
    now,      \* Handler.now
    reg,      \* Handler.sandboxes: the registration of each id, 0 for none
    gens,     \* registrations made so far
    owner,    \* per registration, its id
    live,     \* sandbox.live, per registration: toks, oldest first, and whether one was
              \* ever dropped because there were more than maxLive
    minted,   \* the tokens that were handed out
    closing,  \* removed registrations whose transports are still to be closed
    pruning,  \* the number of pruneCerts calls still to be made
    left,     \* budget.left
    cert,     \* Handler.certs: the parsed version of the certificate, 0 for none
    routes,   \* per registration, its route with inject.tls: cur and closed
    tts,      \* the transports: refs, retired, idle connections
    forced,   \* Handler.forced: per stored secret, when a 401 last forced a renewal
    store,    \* the secret store: versions of the document and the certificate
    req,      \* the requests
    load      \* what guests do in this behaviour

vars == <<now, reg, gens, owner, live, minted, closing, pruning, left,
          cert, routes, tts, forced, store, req, load>>

RouteNames == {"plain", "tls", "vend"}
Never == MaxTime + 1
NoToken == [id |-> "none", gen |-> 0, route |-> "plain", exp |-> 0]
\* Session tokens: the signed claims, and the registration whose key signed them.
Token == [id : Ids, gen : 1..MaxGen, route : RouteNames, exp : Nat]
NoTransport == [used |-> FALSE, ver |-> 0, refs |-> 0, retired |-> FALSE, idle |-> FALSE]
Idle == [pc |-> "idle", gen |-> 0, route |-> "plain", tok |-> NoToken, body |-> 0,
         read |-> 0, taken |-> 0, share |-> 0, woken |-> FALSE, at |-> 0, seen |-> FALSE,
         doc |-> 0, refused |-> 0, ver |-> 0, tt |-> 0, status |-> 0]

Init ==
    /\ now = 0
    /\ reg = [i \in Ids |-> 0]
    /\ gens = 0
    /\ owner = [g \in 1..MaxGen |-> "none"]
    /\ live = [g \in 1..MaxGen |-> [toks |-> <<>>, over |-> FALSE]]
    /\ minted = {}
    /\ closing = {}
    /\ pruning = 0
    /\ left = Budget
    /\ cert = 0
    /\ routes = [g \in 1..MaxGen |-> [cur |-> 0, closed |-> FALSE]]
    /\ tts = [s \in Slots |-> NoTransport]
    /\ forced = Never
    /\ store = [doc |-> 1, cert |-> 1]
    /\ req = [q \in Reqs |-> Idle]
    /\ load \in Loads

Tick ==
    /\ now < MaxTime
    /\ now' = now + 1
    /\ UNCHANGED <<reg, gens, owner, live, minted, closing, pruning, left, cert,
                   routes, tts, forced, store, req, load>>

\* A rotation of the certificate in the store, by the user.
RotateCert ==
    /\ store.cert < MaxVersion
    /\ \E in \in load.reqs : in[1] = "tls"
    /\ store' = [store EXCEPT !.cert = @ + 1]
    /\ UNCHANGED <<now, reg, gens, owner, live, minted, closing, pruning, left, cert,
                   routes, tts, forced, req, load>>

-----------------------------------------------------------------------------
\* Registrations.

\* What becomes of the registration that h.sandboxes held under i.
Retire(i) ==
    closing' = closing \cup ({reg[i]} \ {0})

\* AddSandbox: the new registration takes the map entry under h.mu; the old
\* one's transports are closed, and the certificates pruned, after the unlock.
AddSandbox(i) ==
    /\ gens < MaxGen
    /\ gens' = gens + 1
    /\ owner' = [owner EXCEPT ![gens + 1] = i]
    /\ reg' = [reg EXCEPT ![i] = gens + 1]
    /\ Retire(i)
    /\ UNCHANGED <<now, live, minted, pruning, left, cert, routes, tts, forced,
                   store, req, load>>

RemoveSandbox(i) ==
    /\ reg[i] # 0
    /\ reg' = [reg EXCEPT ![i] = 0]
    /\ Retire(i)
    /\ UNCHANGED <<now, gens, owner, live, minted, pruning, left, cert, routes, tts,
                   forced, store, req, load>>

\* tlsTransport.retire: the connections that are idle close when no request is
\* on the transport.
Retired(t) == [t EXCEPT !.retired = TRUE, !.idle = @ /\ t.refs > 0]

\* A retired transport that no request holds and no connection keeps is gone.
Settle(t) == IF t.retired /\ t.refs = 0 /\ ~t.idle THEN NoTransport ELSE t

CloseTransports(g) ==
    /\ g \in closing
    /\ closing' = closing \ {g}
    /\ pruning' = pruning + 1
    /\ tts' = [s \in Slots |-> IF s = routes[g].cur THEN Settle(Retired(tts[s])) ELSE tts[s]]
    /\ routes' = [routes EXCEPT ![g] = [cur |-> 0, closed |-> TRUE]]
    /\ UNCHANGED <<now, reg, gens, owner, live, minted, left, cert, forced, store, req, load>>

\* named: a registered route names the certificate; every sandbox here has one.
Named == \E i \in Ids : reg[i] # 0

PruneCerts ==
    /\ pruning > 0
    /\ pruning' = pruning - 1
    /\ cert' = IF Named THEN cert ELSE 0
    /\ UNCHANGED <<now, reg, gens, owner, live, minted, closing, left, routes, tts,
                   forced, store, req, load>>

-----------------------------------------------------------------------------
\* Tokens.

\* slices.Delete and slices.DeleteFunc: the elements of s at the places that stay.
Staying(s, places) ==
    [k \in 1..Cardinality(places) |->
        s[CHOOSE i \in places : Cardinality({j \in places : j <= i}) = k]]

\* sandbox.remember: to the end if it is there, else appended, and the oldest
\* dropped past maxLive.
Remember(l, t) ==
    IF Contains(l.toks, t)
    THEN [l EXCEPT !.toks = Append(Staying(@, {i \in 1..Len(@) : @[i] # t}), t)]
    ELSE LET more == Append(l.toks, t) IN
         IF Len(more) > MaxLive THEN [toks |-> Tail(more), over |-> TRUE] ELSE [l EXCEPT !.toks = more]

\* Changed form of Unexpired: a token is dropped before its last moment.
UnexpiredEarly(s, t) == Staying(s, {i \in 1..Len(s) : t + 1 < s[i].exp})

\* sandbox.matcher(t): the live tokens that have not expired at t.
Unexpired(s, t) == Staying(s, {i \in 1..Len(s) : t < s[i].exp})

Mint(i, r, exp) ==
    LET g == reg[i]
        t == [id |-> i, gen |-> g, route |-> r, exp |-> exp]
    IN  /\ g # 0
        /\ now < exp
        /\ Cardinality(minted) < load.tokens
        /\ minted' = minted \cup {t}
        /\ live' = [live EXCEPT ![g] = Remember(@, t)]
        /\ UNCHANGED <<now, reg, gens, owner, closing, pruning, left, cert, routes,
                       tts, forced, store, req, load>>

-----------------------------------------------------------------------------
\* One request, from its arrival to the hold of its body.

\* The rest of the handler runs the deferred calls and ends the request.
Answered(r, status) ==
    [Idle EXCEPT !.pc = "done", !.gen = r.gen, !.tt = r.tt, !.taken = r.taken, !.status = status]

\* A request that a check of its own shape refuses before the lookup: an
\* upgrade or CONNECT, a path that is not of a route, another sandbox's
\* arrival address.
RefuseShape(q) ==
    /\ req[q].pc = "idle"
    /\ \E status \in {400, 404} : req' = [req EXCEPT ![q] = Answered(Idle, status)]
    /\ UNCHANGED <<now, reg, gens, owner, live, minted, closing, pruning, left, cert,
                   routes, tts, forced, store, load>>

\* verify: the signature is that of the registration's key, then sandbox, route
\* and expiry.
Valid(t, g, r) == t.gen = g /\ t.route = r /\ now < t.exp

\* share: what one sandbox may hold, from the registered sandboxes of now.
Share ==
    LET n == Cardinality({i \in Ids : reg[i] # 0})
        s == Budget \div (IF n = 0 THEN 1 ELSE n)
    IN  IF s > MaxHeld THEN s ELSE MaxHeld

\* The lookup of the sandbox and the route, and the token from its carrier
\* verified; it is remembered, and the hold of the body starts with the share of
\* this instant.  A route in clear text or in another mode than endpoint reads
\* as an absent one.
Lookup(q, i, r, t, body) ==
    LET g == reg[i]
        known == g # 0
    IN  /\ req[q].pc = "idle"
        /\ \/ /\ ~known
              /\ req' = [req EXCEPT ![q] = Answered(Idle, 404)]
              /\ UNCHANGED live
           \/ /\ known /\ ~Valid(t, g, r)
              /\ req' = [req EXCEPT ![q] = Answered(Idle, 401)]
              /\ UNCHANGED live
           \/ /\ known /\ Valid(t, g, r)
              /\ live' = [live EXCEPT ![g] = Remember(@, t)]
              /\ req' = [req EXCEPT ![q] =
                   [Idle EXCEPT !.gen = g, !.route = r, !.tok = t, !.body = body,
                                !.share = IF body = 0 THEN 0 ELSE Share,
                                !.pc = IF body = 0 THEN "scan" ELSE "take"]]
        /\ UNCHANGED <<now, reg, gens, owner, minted, closing, pruning, left, cert, routes,
                       tts, forced, store, load>>

-----------------------------------------------------------------------------
\* The hold: holdBody, heldBody.take and the budget.

\* The steps of the budget that requests hold, and budget.held of a sandbox.
Held == {h \in Reqs \X (1..MaxHeld) : h[2] <= req[h[1]].taken}
HeldBy(i) == Cardinality({h \in Held : owner[req[h[1]].gen] = i})

CanTake(q) == left >= 1 /\ HeldBy(owner[req[q].gen]) + 1 <= req[q].share

\* budget.take: a step of the budget, or the channel freed, which the next give
\* closes: woken says that it is closed.
Take(q) ==
    /\ req[q].pc = "take"
    /\ \/ /\ CanTake(q)
          /\ left' = left - 1
          /\ req' = [req EXCEPT ![q].pc = "read", ![q].taken = @ + 1]
       \/ /\ ~CanTake(q)
          /\ req' = [req EXCEPT ![q].pc = "wait"]
          /\ UNCHANGED left
    /\ UNCHANGED <<now, reg, gens, owner, live, minted, closing, pruning, cert, routes,
                   tts, forced, store, load>>

\* The select of heldBody.take: bytes came back, or the deadline or the end of
\* the request.
Wake(q) ==
    /\ req[q].pc = "wait" /\ req[q].woken
    /\ req' = [req EXCEPT ![q].pc = "take", ![q].woken = FALSE]
    /\ UNCHANGED <<now, reg, gens, owner, live, minted, closing, pruning, left, cert,
                   routes, tts, forced, store, load>>

BudgetTimeout(q) ==
    /\ req[q].pc = "wait"
    /\ req' = [req EXCEPT ![q] = Answered(@, 503)]
    /\ UNCHANGED <<now, reg, gens, owner, live, minted, closing, pruning, left, cert,
                   routes, tts, forced, store, load>>

\* One step of the body arrives: the end of it, the end of what is held, or more.
Read(q) ==
    LET r == req[q] IN
    /\ r.pc = "read"
    /\ req' = [req EXCEPT ![q] =
         [r EXCEPT !.read = @ + 1,
                   !.pc = IF r.read + 1 = r.body \/ r.read + 1 = MaxHeld THEN "scan" ELSE "take"]]
    /\ UNCHANGED <<now, reg, gens, owner, live, minted, closing, pruning, left, cert,
                   routes, tts, forced, store, load>>

\* The body does not arrive in time (408) or cannot be read (400).
BodyFails(q) ==
    /\ req[q].pc = "read"
    /\ \E status \in {400, 408} : req' = [req EXCEPT ![q] = Answered(@, status)]
    /\ UNCHANGED <<now, reg, gens, owner, live, minted, closing, pruning, left, cert,
                   routes, tts, forced, store, load>>

\* Changed form of Expired: the token is not tested again after the hold.
ExpiredBefore(r) == FALSE

Expired(r) == now >= r.tok.exp

\* The expiry again, at an instant that the scan is to use.  Other requests may
\* go on before it does.
Instant(q) ==
    LET r == req[q] IN
    /\ r.pc = "scan"
    /\ req' = [req EXCEPT ![q] = IF Expired(r) THEN Answered(r, 401)
                                ELSE [r EXCEPT !.at = now, !.pc = "match"]]
    /\ UNCHANGED <<now, reg, gens, owner, live, minted, closing, pruning, left, cert,
                   routes, tts, forced, store, load>>

\* The scan for the live tokens of that instant, which drops the others from
\* the sandbox for every request, then the rules of the request: a token outside
\* its carrier, an unreadable body, the path, request.allow.
Scan(q) ==
    LET r == req[q]
        kept == Unexpired(live[r.gen].toks, r.at)
    IN  /\ r.pc = "match"
        /\ live' = [live EXCEPT ![r.gen].toks = kept]
        /\ \/ \E status \in {400, 403, 404, 413, 415} : req' = [req EXCEPT ![q] = Answered(r, status)]
           \/ req' = [req EXCEPT ![q] =
                [r EXCEPT !.pc = "resolve", !.share = 0, !.seen = Contains(kept, r.tok)]]
        /\ UNCHANGED <<now, reg, gens, owner, minted, closing, pruning, left, cert,
                       routes, tts, forced, store, load>>

-----------------------------------------------------------------------------
\* The credential, the TLS side and the trip upstream.

\* Resolve and credentialValue, or the answer of a route that vends.
Resolve(q) ==
    LET r == req[q] IN
    /\ r.pc = "resolve"
    /\ \/ req' = [req EXCEPT ![q] = Answered(r, 502)]
       \/ /\ r.route = "vend"
          /\ req' = [req EXCEPT ![q] = Answered(r, 200)]
       \/ /\ r.route # "vend"
          /\ req' = [req EXCEPT ![q] =
               [r EXCEPT !.doc = store.doc, !.pc = IF r.route = "tls" THEN "cert" ELSE "send"]]
    /\ UNCHANGED <<now, reg, gens, owner, live, minted, closing, pruning, left, cert,
                   routes, tts, forced, store, load>>

\* clientCertificate and caPool: the secret is read, and parsed unless the
\* cached one came from the same bytes.
ClientCertificate(q) ==
    LET r == req[q] IN
    /\ r.pc = "cert"
    /\ \/ req' = [req EXCEPT ![q] = Answered(r, 502)]
       \/ req' = [req EXCEPT ![q] =
            [r EXCEPT !.ver = store.cert,
                      !.pc = IF cert = store.cert THEN "transport" ELSE "cache"]]
    /\ UNCHANGED <<now, reg, gens, owner, live, minted, closing, pruning, left, cert,
                   routes, tts, forced, store, load>>

\* Changed form of Cached: whatever is registered.
CachedAlways(v) == v

\* cacheCert: kept while a registered route names the secret.
Cached(v) == IF Named THEN v ELSE cert

CacheCert(q) ==
    /\ req[q].pc = "cache"
    /\ cert' = Cached(req[q].ver)
    /\ req' = [req EXCEPT ![q].pc = "transport"]
    /\ UNCHANGED <<now, reg, gens, owner, live, minted, closing, pruning, left, routes,
                   tts, forced, store, load>>

FreeSlot(s) == ~tts[s].used /\ \A u \in Slots : ~tts[u].used => s <= u

\* Changed form of Closed: a removal does not mark the route.
ClosedNever(g) == FALSE

\* sandbox.closeTransports has run.
Closed(g) == routes[g].closed

\* routeTransport: refused when the route is closed, the current transport
\* when it was built for the same certificate, else a new one in its place.
RouteTransport(q) ==
    LET r == req[q]
        c == routes[r.gen].cur
        same == c # 0 /\ tts[c].ver = r.ver
    IN  /\ r.pc = "transport"
        /\ \/ /\ Closed(r.gen)
              /\ req' = [req EXCEPT ![q] = Answered(r, 404)]
              /\ UNCHANGED <<routes, tts>>
           \/ /\ ~Closed(r.gen) /\ same
              /\ tts' = [tts EXCEPT ![c].refs = @ + 1]
              /\ req' = [req EXCEPT ![q] = [r EXCEPT !.tt = c, !.pc = "send"]]
              /\ UNCHANGED routes
           \/ /\ ~Closed(r.gen) /\ ~same
              /\ \E s \in Slots :
                   /\ FreeSlot(s)
                   /\ tts' = [u \in Slots |->
                        IF u = s THEN [NoTransport EXCEPT !.used = TRUE, !.ver = r.ver, !.refs = 1]
                        ELSE IF u = c THEN Settle(Retired(tts[u])) ELSE tts[u]]
                   /\ routes' = [routes EXCEPT ![r.gen].cur = s]
                   /\ req' = [req EXCEPT ![q] = [r EXCEPT !.tt = s, !.pc = "send"]]
        /\ UNCHANGED <<now, reg, gens, owner, live, minted, closing, pruning, left,
                       cert, forced, store, load>>

\* heldBody.complete: the whole body, small enough to be sent again.
Replayable(r) == r.read = r.body /\ r.read < MaxHeld

\* send, and what RoundTrip makes of the answer: passed on, redacted, or 401 for
\* a credential with a lifecycle, which is renewed once.
Send(q) ==
    LET r == req[q] IN
    /\ r.pc = "send"
    /\ \E status \in {200, 401, 502} :
         req' = [req EXCEPT ![q] =
           IF status = 401 /\ r.refused = 0 /\ r.route = "plain" /\ Replayable(r)
           THEN [r EXCEPT !.pc = "renew", !.refused = r.doc] ELSE Answered(r, status)]
    /\ tts' = [s \in Slots |-> IF s = r.tt THEN [tts[s] EXCEPT !.idle = TRUE] ELSE tts[s]]
    /\ UNCHANGED <<now, reg, gens, owner, live, minted, closing, pruning, left, cert,
                   routes, forced, store, load>>

\* mayForceRenew: no renewal was forced within renewInterval, one tick.
MayForce == forced = Never \/ now - forced >= 1

\* Changed form of RenewedSince: within the interval the stored document is
\* taken as it is.
RenewedAnyway(r) == TRUE

\* Another request has renewed the document that was refused.
RenewedSince(r) == store.doc # r.doc

\* renewed: a renewal is forced, or within the interval the secret is read
\* again and used when another request has renewed it since.
Renewed(q) ==
    LET r == req[q]
        retry(d) == req' = [req EXCEPT ![q] = [r EXCEPT !.doc = d, !.pc = "send"]]
        pass == req' = [req EXCEPT ![q] = Answered(r, 401)]
    IN  /\ r.pc = "renew"
        /\ \/ /\ MayForce
              /\ forced' = now
              /\ \/ pass /\ UNCHANGED store
                 \/ /\ store.doc = r.doc /\ store.doc < MaxVersion
                    /\ store' = [store EXCEPT !.doc = @ + 1]
                    /\ retry(store.doc + 1)
                 \/ store.doc # r.doc /\ retry(store.doc) /\ UNCHANGED store
           \/ /\ ~MayForce
              /\ IF RenewedSince(r) THEN retry(store.doc) ELSE pass
              /\ UNCHANGED <<forced, store, load>>
        /\ UNCHANGED <<now, reg, gens, owner, live, minted, closing, pruning, left,
                       cert, routes, tts, load>>

\* Changed form of Given: a body that did not arrive in time keeps its bytes.
GivenRead(r) == IF r.status = 408 THEN 0 ELSE r.taken

\* heldBody.release: all that was taken, whatever was read.
Given(r) == r.taken

\* Changed form of Frees: only the bodies of the same sandbox are woken.
FreesOwn(r, p) == r.taken > 0 /\ p.pc = "wait" /\ owner[r.gen] = owner[p.gen]

\* budget.give closes freed, on which every body waits that found no room.
Frees(r, p) == r.taken > 0 /\ p.pc = "wait"

\* The deferred calls: trip.done releases the transport, held.release gives the
\* bytes back and closes freed.
Done(q) ==
    LET r == req[q]
        after(t) == [t EXCEPT !.refs = @ - 1, !.idle = @ /\ ~(t.retired /\ t.refs = 1)]
    IN  /\ r.pc = "done"
        /\ tts' = [s \in Slots |-> IF s = r.tt THEN Settle(after(tts[s])) ELSE tts[s]]
        /\ left' = left + Given(r)
        /\ req' = [p \in Reqs |->
             IF p = q THEN Idle
             ELSE IF Frees(r, req[p]) THEN [req[p] EXCEPT !.woken = TRUE] ELSE req[p]]
        /\ UNCHANGED <<now, reg, gens, owner, live, minted, closing, pruning, cert, routes,
                       forced, store, load>>

Request(q) ==
    \/ RefuseShape(q)
    \/ \E i \in Ids, t \in minted \cup {NoToken}, in \in load.reqs : Lookup(q, i, in[1], t, in[2])
    \/ Take(q) \/ Wake(q) \/ BudgetTimeout(q) \/ Read(q) \/ BodyFails(q)
    \/ Instant(q) \/ Scan(q) \/ Resolve(q) \/ ClientCertificate(q) \/ CacheCert(q) \/ RouteTransport(q)
    \/ Send(q) \/ Renewed(q) \/ Done(q)

Next ==
    \/ Tick
    \/ RotateCert
    \/ PruneCerts
    \/ \E i \in Ids : AddSandbox(i) \/ RemoveSandbox(i)
    \/ \E g \in 1..MaxGen : CloseTransports(g)
    \/ \E i \in Ids, in \in load.reqs, e \in load.exps : Mint(i, in[1], e)
    \/ \E q \in Reqs : Request(q)

Spec == Init /\ [][Next]_vars

-----------------------------------------------------------------------------
\* Properties.

Pcs == {"idle", "take", "wait", "read", "scan", "match", "resolve", "cert",
        "cache", "transport", "send", "renew", "done"}
\* The request has passed the scan and what came before it.
Admitted(r) == r.pc \in {"resolve", "cert", "cache", "transport", "send", "renew"}

RequestsTypeOK ==
    /\ now \in 0..MaxTime /\ gens \in 0..MaxGen /\ pruning \in 0..MaxGen
    /\ reg \in [Ids -> 0..MaxGen] /\ closing \subseteq 1..MaxGen
    /\ minted \subseteq Token
    /\ left \in 0..Budget /\ cert \in 0..MaxVersion
    /\ \A g \in 1..MaxGen : Len(live[g].toks) <= MaxLive /\ routes[g].cur \in Slots \cup {0}
    /\ \A q \in Reqs : req[q].pc \in Pcs /\ req[q].taken \in 0..MaxHeld

\* A request that goes on after the scan presented a token of the very
\* registration it was looked up in, which had not expired at the instant of the
\* scan, however long the hold of the body took; and the scan looked for that
\* token (proxy.go:157).  There are two ways in which it did not: the sandbox had
\* more than maxLive tokens at once (placeholder.go:28), or the token expired
\* between the instant and the scan, when a request with a later instant can
\* drop it.  The state right after Scan is the one in which now says so.
ScanSeesToken ==
    \A q \in Reqs : Admitted(req[q]) =>
        /\ req[q].tok \in minted /\ req[q].tok.gen = req[q].gen
        /\ req[q].at < req[q].tok.exp
        /\ req[q].seen \/ live[req[q].gen].over \/ req[q].tok.exp <= now

\* The replay budget is exact: what is left and what requests hold add up to
\* it at every moment, whichever way a request ended (broker.go:523).
BudgetExact ==
    left + Cardinality(Held) = Budget

\* Nobody sleeps on bytes that are there: a body that waits on a channel that
\* is still open could not take its step now (heldBody.take, budget.give).
NoLostWakeup ==
    \A q \in Reqs : req[q].pc = "wait" /\ ~req[q].woken => ~CanTake(q)

\* A parsed certificate, with its private key, is in memory only while a
\* registered route names it, or until the prune that a removal still owes:
\* a late request of a removed sandbox does not put it back (tlsroute.go:280).
CertNamed ==
    cert # 0 => Named \/ closing # {} \/ pruning > 0

\* Connections that carry a certificate do not outlive their registration: a
\* transport with idle connections is held by a request, or is the current one
\* of a registration that is served or about to be closed (tlsroute.go:133).
NoConnectionLeft ==
    \A s \in Slots : tts[s].idle /\ tts[s].refs = 0 =>
        \E g \in 1..MaxGen :
            /\ routes[g].cur = s /\ ~tts[s].retired
            /\ g \in closing \/ \E i \in Ids : reg[i] = g

\* A request is sent again only with another document than the one that was
\* refused, also when the renewal was forced by somebody else (proxy.go:646).
RetryIsNewer ==
    \A q \in Reqs : req[q].pc = "send" /\ req[q].refused # 0 => req[q].doc > req[q].refused

\* The replay budget is neither lost nor slept on, whichever way a request that
\* holds a part of it ends: broker.go:523-560.
BudgetSound == BudgetExact /\ NoLostWakeup

\* What a removed sandbox leaves behind goes, however late its requests are:
\* no private key and no connection of it stays in the broker.
RemovedIsGone == CertNamed /\ NoConnectionLeft
=============================================================================
