# brig: specifications, model checking and proofs

TLA+ models of brig, the TLC runs that check them on small instances, and TLAPS
proofs of their main safety properties for instances of any size. `PROJECT.json`
maps every definition to the source lines it stands for and lists the components,
the runs, a mutant for every property, the hazards each property is aimed at, the
findings and the theorems.

## The system

brig runs coding agents in sandboxes (virtual machines under `hull`, containers
under `nerdctl`). Credentials stay on the host: a sandbox gets a token for a
broker, and the broker puts the real credential on the request it passes on.

| part | state it keeps | operations | meets others through |
|---|---|---|---|
| `brig` (cmd/brig, internal/wrap) | none beyond one command; session index, slug claims, postures, publications, git looks in files | run, stop, rm, rm --all, ls, publish, secret and policy commands | files of the state directory, the runtime, the broker's control socket, brigd |
| `brig-broker` (cmd/brig-broker, internal/broker) | registered sandboxes, keys, live tokens, parsed certificates, transports, replay budget | register, remove, status, stop; serving of routes | control socket, lock file, pid file, secret store |
| broker client (internal/injector) | none | Register, Forget, ForgetAll: find, start, stop a broker | start lock, pid file, control socket |
| renewal (internal/renew) | one entry per renewable secret, a journal in the store | Resolve, ForceRenew, Recover | secret store, the provider's token endpoint |
| vended credentials (internal/awscred, gcpcred, cmd/brig-broker/aws.go, gcp.go) | one entry per sandbox and route, with a shared fetch; failing routes | Vend, Ensure, Forget | `aws`, `gcloud`, registrations |
| shared network (internal/runtime: gateway, netalloc, hull) | record of addresses, gateway lock, boot leases | boot, remove, prune | flocks and files, process table, `hull` |
| claims and session index (internal/wrap: slugclaim, index) | two JSON files | claim, remember, forget, prune, migrate | whole-file reads and writes without a lock |
| boot and attach (internal/wrap, internal/runtime) | posture, session entry, publications, temporary home | load, keep or boot, publish, stop, remove | the runtime, the gateway |
| brigd (cmd/brigd) | inventory, one mutex per sandbox | ensure, stop, status for clients | its socket and the socket's flock |
| egress (internal/egress, internal/divert, nerdctl runtime) | divert sets in memory and in an nft table, pins, records, a lock per sandbox | DNS answers, adds, reinstall, boots and stops around them | nft, relay, containers |
| policies (internal/policy, cmd/brig/policy.go) | policy files, the attachment record | create, edit, rename, remove, attach, detach; merge for a run; presets | files that several commands and editors write |
| secret stores (internal/secret) | the keychain, the Secret Service | read, create, write, delete | all of the above |
| what a run hands the guest (internal/wrap, internal/creds, internal/verify) | git looks, installed bundles, mounts in the guest | verification, home, secret files, variables, plan | host files a sandbox can write, the registry, the guest |

What is hard here: the refresh token of a login may be used once, and a broker may
be killed between the provider's answer and the store's write; brokers are started
and stopped by any number of brig processes that only share files; requests, fetches
and connections outlive the sandboxes they were for; two boots pick an address from
one file while a third command stops the gateway under them; whole-file indexes are
written without a lock; an nft table is rebuilt from a copy while answers add to it;
a home is walked while a process of the same user renames what is on the way; and a
delivery of a credential starts over on whatever interrupted ones left mounted.

What makes each part correct:

- renewal: the one valid token pair is never dropped, a refresh token is never
  sent twice, a re-import wins, and a failed write does not hold the secret for good;
- broker life cycle: one broker per directory, a registered sandbox stays served, a
  forgotten one is refused, and an idle broker stops;
- request path: what goes on had a live token after its hold and was scanned for it,
  the replay budget adds up and wakes who waits, nothing of a removed sandbox stays, a retry brings
  something new;
- vended credentials: nobody is served keys of another identity, and a sandbox that
  is gone leaves no keys;
- shared network: no two guests on one address, no gateway taken from under a guest;
- claims: no two session names in one sandbox, no record lost with somebody else's write;
- boot and attach: a run that keeps a sandbox gets what it asked for, and no command
  deletes a home that is in use;
- brigd: one daemon per socket path, one request at a time on a sandbox;
- egress: no answer reaches a guest before its addresses are diverted or pinned, no
  sandbox booted under rules runs without them, and a run is under every policy that
  a user was told is bound to it;
- the data that is decided on: bodies are clean in both directions, what goes upstream
  is what was checked, what boots is what was verified, what is written goes into the
  home that was named and into memory where it should, and the plan foretells the run.

## Modules

Each component has a module with its state, actions and properties; an `MC` module
has the instances TLC checks. Eight `Proofs` modules hold the theorems: HostProofs is about
Brigd, SandboxRun, EgressBoot, PolicyStore, EgressTable, DnsAnswer, RouteRules, BodyScan and
RouteEnv, DecisionsProofs about HomePath,
GuestFiles, GitWatch, SecretStore, ImageVerify, RouteCredential, RouteExpand and RunSecrets,
and each of the others about the component it is named after.

### The broker

**RenewCache** (`internal/renew/cache.go`, `journal.go`). A process is one broker's
Cache; a crashed one never returns and the next has an empty entry. One secret is
modelled, because entries of two names share nothing. Callers of one cache queue
on the entry's turn, so a process runs one operation; `pc[p]` is the store or
provider call it makes next, and every such call succeeds, fails, or fails after it
took effect. Documents are numbers in the order the provider or an import issued
them, and a hash is the document it is of. Retry timers are a set `cooling` of those
that have not run out; time passes at the start of an operation. `head`, `lost`,
`sent` and `rotated` are ghosts: the login's one valid document, documents whose
successor is lost, and what was sent and replaced.

**BrokerLifecycle** (`internal/injector/lifecycle.go`, `client.go`,
`cmd/brig-broker/main.go`, `server.go`). Clients are brig processes inside Register,
Forget or ForgetAll; brokers are processes of the binary, in the phases of newServer,
serve and close. They share the start lock, the broker lock, the control socket and
the pid file. A control call is one step on whichever broker listens then, except
the registration, which is accepted in one step and decided in another because the
broker runs `aws` and `gcloud` in between. A file a dead process left is `Stale`: the
recorded start time tells a reused pid apart.

**BrokerRequests** (`internal/broker`: `broker.go`, `proxy.go`, `tlsroute.go`,
`token.go`). Requests go through ServeHTTP step by step (lookup, token, hold of the
body piece by piece, second test of the token, the scan with the instant of that test,
credential, transport, upstream, renewal after a 401, retry, the end of the response), beside AddSandbox,
RemoveSandbox, closeTransports, pruneCerts, minting, the clock and new versions of the
secret. A registration is a number, the nonce of its key; what a request looked up
stays with it when the registration goes. Each lock of the code is one step.

**RouteRules**, **RouteCredential**, **BodyScan** (`proxy.go`, `allow.go`, `inject.go`,
`mint.go`, `vend.go`, `placeholder.go`, `redact.go`). Functions of one request: the
checks of a route in their order over the ways a path can be written; the field of a
document and what a pointer becomes; and the two automata that see a body in pieces,
each against a definition over the whole body.

**VendCache** (`internal/awscred/cache.go`, `internal/gcpcred/cache.go`,
`cmd/brig-broker/aws.go`, `gcp.go`, `server.go`). Entries are objects, so that a
caller keeps the one it found after Forget took it out of the map. One fetch at a
time runs per entry and every waiter sees its result. What is left of the life of the
keys is a level 0 to 3, where 3 and 2 are the margins of Get and Ensure; a fetch brings
keys of any level, and `recent` (within refetchFloor) lasts as long as it likes. One route
stands for all of a sandbox. The gcp cache is the same code with one margin.

### Hosts and sandboxes

**SharedNetwork** (`internal/runtime/netalloc.go`, `gateway.go`, `hull.go`,
`gatewayip.go`). Processes boot and remove sandboxes and prune the gateway. A boot is
lease, look for the gateway, replace an old one or start one, take an address, start
`hull run`; a removal is `hull rm` and the release of the address. A killed brig drops
its locks and its lease, and its `hull run` goes on or not (`orphans`). The process
table that the code scans for the socket's path is `members`.

**SlugClaims** (`internal/wrap/slugclaim.go`, `index.go`). Processes run, remove and
list. Each read and each write of a file is a step; the write replaces the file with
the copy read earlier. Initially a host of an older release, with its claims in the
session index, or none. The sandboxes of a name are the constant `lands`: several, because
each profile has its own, and any, because BRIG_NAME (`config.go:389-407`) and a profile
called like a session of another (`index.go:40-42`) put two profiles into one.

**SandboxRun** (`internal/wrap/config.go`, `run.go`, `home.go`, `network.go`,
`index.go`; `internal/runtime/hull.go`, `posture.go`, `published.go`). The commands on
one sandbox, one after the other: load, refusals, home, the check whether the sandbox
that is up is kept, boot, and the three records, publications, stop, removal and prune.
A command is killed between any two steps, guests end, and policies come and go.
`torn` is a ghost: what the records do not tell of the sandbox that is there.

**Brigd** (`cmd/brigd/main.go`) and **SandboxService**. Daemons on one socket path with
the flock beside it, connections, `daemon.mu`, a mutex per sandbox, ensure, stop and
status. `OneOwner` states that Brigd implements SandboxService: the requests of the
daemon with the flock that are between lockFor and the deferred Unlock are `busy`,
its inventory is `stock`, the sandboxes that run are `running`. A daemon that gives the
flock back takes its requests out of the service (`Restarts`): what they still do until
the process exits is, like another brig's command, `Outside`.

**EgressTable** (`internal/egress`, `internal/divert`), **EgressBoot**
(`internal/runtime/nerdctl.go`, `nerdctlegress.go`), **DnsAnswer** (`internal/egress/dns.go`,
`resolver.go`), **PolicyStore** (`cmd/brig/policy.go`, `internal/policy`). The resolver
process with its table, memory and pins, where installation is copy, script, pins and
heartbeat and each nft command may fail; the brig processes around it with the lock,
the resolver's records and the container; which queries are forwarded and what an answer
gives a diverted host; and the policies that a run is under while commands with open
editors rewrite them.

### What a run decides

**SecretStore** (`internal/secret`, `cmd/brig/secret.go`, `secretimport.go`): the calls of
create, update, import and delete on the keychain's two items or the Secret Service's
one. **ImageVerify** (`internal/wrap/verify.go`, `internal/verify`,
`internal/runtime/boot.go`): image, boot files and bundle record under the three modes.
**HomePath** (`internal/wrap/rootio.go`, `workspace.go`): the walk to a home with another
process moving names. **GuestFiles** (`internal/wrap/secretfiles.go`,
`internal/profile/volumes.go`, `validate.go`): the commands that cover a directory with
memory and write a credential in it or in a directory below. At any time the agent leaves
a file, a link or a directory at the credential's path, or a directory, a link or nothing
in the place of the directory above it, and opens or closes what is its own; `dirs` has
what each name leads to, its owner and its mode. `Loose` is a way to the file with a link
of the agent's or a directory that others may write to; CredentialInMemory says nothing of
a file by such a way (see below). **GitWatch** (`internal/wrap/gitwatch.go`): the look at
`.git`, the warning and the record. **RouteExpand** (`internal/policy/presets.go`,
`api/policy/v1alpha1`): overlay, defaults and validation of a route, and its way to the
broker as a document, in which an empty list is no list; ExpandsOnce says what the broker
then serves. **RunSecrets**
(`internal/creds`, `internal/wrap/routes.go`, `routestore.go`): the secrets and variables
of a run and of its plan. **RouteEnv** (`internal/wrap/routes.go`,
`internal/injector/endpoint.go`): the variables that routes give the guest. A name or a
value is a word with a number, and an environment a sequence in which the last variable
of a name counts. `BoundRoutes` is what the policies of a run let through: routes with
names of their own, no variable of two routes, and no guest.env that names a variable of
the services. `OfBrig` are the names that brig writes after guest.env; RouteVarsWin does
not promise a route its value of those.

RenewCache, BrokerLifecycle, SharedNetwork and SlugClaims are one run each. The small
modules share runs: `MCEgress`, `MCHost` and `MCDecisions` extend several modules that
have no variable in common, and a variable `side` or `part`, chosen in the initial state,
says which of them moves in this behaviour. Their state spaces add up and do not multiply.

BrokerLifecycle, SharedNetwork and SlugClaims have a constant `Envs`, a set
of environments (signals, hand-started brokers, killed brigs; two processes on one
sandbox, a damaged record; concurrent commands, failing writes), and a variable `env`,
chosen in the initial state and constant after it. A property that needs a quiet
environment says so, and one run checks the quiet and the hostile side by side.

## Runs

| run | instance | checks |
|---|---|---|
| `renew` | 2 incarnations, 3 documents, crashes, failing calls, imports, deletes, junk values | HeadSafe, SendsNoSuperseded, NoReuse, ImportKept |
| `renew_live` | 3 incarnations, 2 documents, fairness | PendingLands, OrphanSettled |
| `lifecycle` | 3 brokers, 2 clients, 2 sandboxes, 2 attempts, the empty and the full environment | ServingOwnsDir, RegisteredServed, ForgottenRefused |
| `lifecycle_live` | 2 brokers, 2 clients, 1 sandbox, 3 attempts, fairness | IdleStops |
| `requests` | 2 sandboxes, 2 requests, 2 registrations, a budget of 3 steps, 2 versions of the secret | ScanSeesToken, BudgetSound, RemovedIsGone, RetryIsNewer |
| `vend_shared` | 1 sandbox, 2 pointers, 2 goroutines, 2 entries | AnswersPointer, LeavesNothing |
| `shared` | 2 processes, 3 sandboxes, 2 addresses, with and without damage | GatewayKept, UniqueAddress, KeepsAddress |
| `shared_same` | 3 processes, 2 sandboxes, several processes on one sandbox | NoDuplicate is violated |
| `slug` | 2 processes one at a time, 4 names on 3 sandboxes, with and without failing writes | OneHome, KeepsSessions |
| `egress` | 2 addresses and 4 policies; 2 brig processes; names with at most 3 records; 2 users and 4 documents | TableSound, RunningFiltered, ResolverJudges, RunFiltered |
| `host` | 2 daemons, 2 connections, 1 sandbox; 1 project, 2 publications of one port | OneOwner (refinement), SocketNamesServer, HomeKept, ReuseFits |
| `decisions` | 13 parts, see below | BodiesClean, SentAsAllowed, CredentialUnambiguous, ExpandsOnce, SecretAsTold, BootsVerified, HomeIsNamed, CredentialInMemory, ChangeIsHeard, PlanForetells, RouteVarsWin |

The comment above each property says what it claims. Some are conjunctions of claims
about one piece of state: BudgetSound (the budget balances; a request waits only while
its part is taken), RemovedIsGone (no certificate of an unnamed secret stays parsed, no
transport of a removed sandbox stays open), TableSound (diverts in memory are in the
table, an answer the guest has is pinned for as long as it may use it, nothing is admitted
before the rules are in), NoReuse, KeepsSessions, BodiesClean and SentAsAllowed. TypeOK
and the inductive invariants of the proofs are checked with TLC during development and
proved; the runs do not repeat them.

Bounds, and why they are enough.

- `renew`: a renewal consumes one document and an import another, so three documents
  allow two renewals in a row, or a renewal across an import; two incarnations are one
  that stops anywhere and one that recovers, and `renew_live` adds a third that takes
  over from a recovery.
- `lifecycle`: three broker processes are one that serves, one that loses to it and one
  that is started while the first goes; two clients are the smallest race; the second
  attempt of Register already takes every path of the retry, and `lifecycle_live` and
  the proofs have the code's three.
- `requests`: two requests meet over one budget of 3 with at most 2 steps each, so that one
  waits for the other; two registrations are the one a request looked up and the one that
  replaced it; with `maxLive` of 2 a third token of a sandbox pushes one out, and one that
  expires at the next tick lies beside one that does not, so that the scan of one request
  can drop the token of the other; three transports
  are two in use and one that is being replaced. `MCLoads` has the tokens of three expiries,
  on a route that vends, the pairs of bodies that
  fit and do not fit, and requests over a route with `inject.tls`. The view leaves out the
  token of a request that was scanned for it, for which the property then holds for good.
- `vend_shared`: entries of two sandboxes share nothing, and two objects are the one in
  the map and the one somebody still holds; a free object is used again.
- `shared`: three sandboxes on two addresses make a full network with one left over.
- `slug`: two names collide, one of them also with a third in a second sandbox, and an
  unnamed run has a sandbox of its own or the one that the first two become.
- `egress`: two addresses are one that was diverted and one that was not; the policies are
  the four shapes of default and rules, one of them with a set at its limit; two brig
  processes are a boot and what races it; three records make an alias chain in any order;
  two users edit one policy while the other attaches, removes or runs it.
- `host`: two daemons are one that goes and its successor, two connections want one
  sandbox; two publications want one host port.
- `decisions`: words of at most 5 letters in pieces of at most 2, with spellings of 2 and
  3, so that a match spans three pieces; paths of two segments; documents of two leaves; two commands with
  three values on a secret; two runs on one directory of boot files and three digests, one
  of them unsigned; four moves of the other process, which is a rename and its reverse
  around two looks; two kept directories, one of them the directory of a credential under
  another profile, and a credential in two pieces; two projects and
  two guest writes; the sessions and the servings of a run by enumeration, where the
  variables are named by `GuestWords` and at most two routes meet a variable of each name
  that brig or the guest may have set.

The state constraint of each bound is in the guard of the action that would pass it.
Symmetry and views are used in runs without liveness only: the view of `renew` drops what
became of documents that nobody has any more, that of `requests` the status of an answer,
that of `vend_shared` the fields of objects nothing reads again. Deadlock is checked in
`lifecycle`, `lifecycle_live`, `vend_shared`, `shared`, `slug` and `host`. `renew` and
`requests` stop when their documents, registrations or tokens are used up; in `egress` a resolver
that failed to start ends the behaviour, and a decision is one step.

Fairness. `lifecycle_live`: weak fairness of the steps of running brokers and of calls
already made, as the scheduler gives them; no call has to be made and nothing has to
fail. `renew_live`: calls to the store and the provider end, as `storeTimeout` and
`tokenTimeout` bound them; time passes; requests for the secret keep coming, some of
them after `retryAfter` and `recheck` (strong fairness of LateResolve, because short
requests may come in between); and a store call repeated for ever succeeds at some
point (strong fairness of the successful outcomes). A store that fails for good holds
a write-back for good, which the code reports and does not claim to solve.

`RenewCache` has a constant `ImportRaces`: whether an import may land between flush's
read of the store and its writes. It is FALSE in both runs. With TRUE, TLC finds the import
overwritten (see below): HeadSafe, SendsNoSuperseded and ImportKept are claimed, and
proved, outside of that window only. NoReuse is proved for both values.

## Proofs

TLAPS proves these for every value of the constants that meets the named
assumptions (constants that denote no process are none, bounds are natural numbers,
`Envs` are sets of known environments; for BrokerRequests, that sandboxes and
requests are finite sets, because references are counted; for PolicyStore, that the
names of files have a last one, which LoadAll takes; for GuestFiles, GitWatch, ImageVerify
and RouteExpand, what kind of data profiles, contents, digests and routes are; for
RouteRules, that a slash which is written as one ends a segment; for BodyScan, that
secrets and spellings are finitely many words over the letters, that no secret is empty and
that none has the mark of the redaction in it; for DnsAnswer, that the diverted host is
a name). Each inductive invariant was
checked by TLC on the instance of its run before it was proved.

- `RenewCacheProofs`: `TypeCorrect`, by one lemma per group of calls. `NothingReused`
  (NoReuse) from `CacheInv`, with imports at any moment; `HeadIsKept` (HeadSafe),
  `NoneSuperseded` (SendsNoSuperseded) and `ImportsStay` (ImportKept) from `RenewInv`,
  under `~ImportRaces`. CacheInv compares the entry of the running cache with the store:
  a document that is not stored yet has a journal step ahead of it, and the stored one is
  then dead at the provider; a step that only deletes the journal deletes none that is
  promotable; and what was sent is held only as spent. RenewInv adds `HeadOK`, that the
  one valid document is in the secret, in a promotable journal or in a running entry
  whose journal says so (and that a differing document succeeds the stored one while
  the secret is that one), and `WriteOK`, that what flush is about to replace is what it
  read, or gone. WriteOK is the part that an import in flush's window breaks, which is
  why the three theorems need the hypothesis. Steps that leave the store alone share one lemma.
- `VendCacheProofs`: `AnswersOwnPointer` (AnswersPointer) and `NothingLeft`
  (LeavesNothing). What a caller carries at each place of its call is inductive: the
  answer that it was woken with is for the pointer that the flight was for, which it
  compares with its own before it returns; keys that it found in the entry are live. An entry or a failure mark of a sandbox that
  is not registered belongs to a registration under way, or the sandbox was forgotten
  under a request.
- `BrokerRequestsProofs`: `ScanSeesOwn` (ScanSeesToken), `NothingOutlives`
  (RemovedIsGone), `RetryAdvances` (RetryIsNewer), from `RequestsInv`. Its request part:
  until the scan, the token of a request is live, has expired, or one of its
  registration was dropped past `maxLive`; the instant that the scan is to use has come, and
  the token had not expired then; the refused document is
  remembered until the retry is answered. Its registration part: the references of a transport are exactly the
  requests that hold it, and one that is not retired is the current one of a single
  registration that is served or about to be closed, so the last holder closes it.
  `BudgetKept` (BudgetSound) from `BudgetInv` beside it: at each place a request holds as
  many steps as it has read, one more while it reads, so what is left and what is held is
  the budget. The steps are a set of pairs of a request and a number, so that the sum is
  a cardinality, which a step changes by the pairs it adds or takes away. A body that
  waits has been woken or has no room: a step that gives room back wakes it.
- `BrokerLifecycleProofs`: `TypeCorrect`; `OneBroker` (ServingOwnsDir, inductive with
  TypeOK: the lock is the reason that no loser touches the files); `Served`
  (RegisteredServed, inductive with TypeOK); `Revoked` (ForgottenRefused), from
  ServingOwnsDir, RegisteredServed and `NoSignal`: a removal that finds nobody
  listening finds no broker with a sandbox, because without signals only an idle stop
  ends a broker.
- `SharedNetworkProofs`: `TypeCorrect`; `GatewayStays` from `GatewayInv` (who is about
  to stop the gateway holds its lock, saw no other lease and no process on it, and a
  boot past its lease holds it to the end), in every environment; `Keeps` from
  `RecordInv` (who is between reading and writing the record holds its lock, and its
  copy is the record); `Addresses` from `RecordInv` and `AddressInv` (one process or one
  left-behind hull run per sandbox, recorded addresses differ, a guest that runs or is
  about to has its address in the record, a removal that gives one back has no guest).
- `SlugClaimsProofs`: `TypeCorrect`; `OneName` from `HomeInv` (every session name in a
  sandbox owns it in whichever file the claims are, a claim is dropped when nobody is in the
  sandbox, and no step replaces a file whose claims are not in the other); `NothingIsLost`
  (KeepsSessions, an action property) from `KeepInv`: the copy that a command is about to
  write back is the file, up to sandboxes that are gone, and the migration removes
  `sessions.json` only while all it has is old claims.
- `HostProofs`: `PathIsServed` (SocketNamesServer) and `Implements` (OneOwner, the
  refinement of SandboxService), from `BrigdInv`: the flock is held exactly from
  lockSocket until serve returns (so one daemon at a time removes and binds the path),
  a daemon that is not there has no connection and no inventory, and the mutex of a
  sandbox names the request that owns it. For the refinement one lemma per action
  shows which step of SandboxService it is: LockFor is Enter because a mutex that is free
  has no owner, Remember and Forget are Records, StatusDone is Leave, Release and Crash
  are Restarts, and what a request of a daemon without the flock does is a stutter or
  Outside. Of SandboxRun, `HomeStays` (HomeKept) and `KeptFits` (ReuseFits) from `RunInv`:
  what each place of a command knows of the sandbox and its records, and that between
  commands the gateway forwards what the record says, up to what a killed or failed
  command tore.
  Of the egress filter, `TableStays` (RunningFiltered) from the places at which the egress lock is
  held and from what a process that saw the sandbox stopped under it knows until it lets
  go; `RunsFiltered` (RunFiltered), from what a run has loaded against the bindings that
  a user was told of; `TableAgrees` (TableSound), from `DivertInv` (what the table
  diverts, a query is about to answer or the guest was told is in the resolver's memory,
  and the script of an install is that memory, under the mutex), `PinInv` (a pin outlives
  the answer it is for) and `EarlyInv` (a table is alive only with its literal hosts
  pinned).
  Four theorems are about sequences of any length, which the code walks with a loop and the
  model with a recursive function `after[n]`. Induction over them rests on two lemmas,
  `LeastNat` (a set of naturals that is not empty has a least member) and `Upward` (a set
  with m and with the successor of each member up to N has all from m to N); `StepsExist`
  gives a walk from its step, and each proof shows what every prefix of the walk keeps.
  `ResolverIsRight` (ResolverJudges): a pass that adds nothing has all names the aliases
  lead to, and passes that each add one are no more than the records. `SentIsAllowed`
  (SentAsAllowed): in a path that canonical lets through, each segment is read, whatever
  the upstream decodes, folds and cuts, as it is written or as a name that matches no
  list. `BodiesStayClean` (BodiesClean) from
  `ScanInv` (what the scan keeps is an end of the squeezed body, long enough that a
  spelling which ends later begins in it) and `RedactInv` (what was sent and what is held
  back, one after the other, hold no secret, and no end of them that is longer than what is
  held back begins one). `RoutesWin` (RouteVarsWin): where the last variable of a name is, piece
  by piece of the environment.
- `DecisionsProofs`, one invariant for each component:
  - `HomesNamed` (HomeIsNamed) from `HomeInv`: every directory that the walk holds was the
    named entry of one that was really above it. What was a home stays one, because the
    entries that ever were are remembered and nobody else writes where the user cannot.
  - `CredentialsInMemory` (CredentialInMemory) from `GuestInv`: what is bound leads to the
    host's own directory of that name, whoever bound it; past the check, the memory is
    mounted and each kept directory is bound in it; while the file is made, checked and
    fed, the directories on the way are root's or the way is loose (`Taken`), so no step
    of the agent's changes a way that is not; from the look at the created file on, no
    mount is on the way and the file is a regular one in memory or its way is loose. A
    step of the agent's is one lemma (`AgentDirs`, `AgentPlantsInv`), whatever it makes.
  - `ChangesHeard` (ChangeIsHeard) from `GitInv`: a command about to record has printed a
    warning of everything that it saw with a hash and that is not in the entry.
  - `SecretsAsTold` (SecretAsTold) from `StoreInv`, with a part for each kind of store. On
    the keychain, `ChainInv`: a sealed value has the key of its item, or a writer that
    will make it so or fail is at work; a command that runs alone finds nothing newer than
    itself. On the keyring, `RingInv`, as long as no two commands overlapped.
  - `BootedIsVerified` (BootsVerified) from `ImageInv`, `KernelInv` and `BundleInv`: a run that has
    not warned compares with a digest, and a file that it found the same came with a
    signed bundle, which no other run takes away unless it warned.
  - `InjectsOneValue` (CredentialUnambiguous): all matches of a field are the same string or
    none is taken, so the order of a map does not matter. Of every document and field.
  - `ExpandsAlike` (ExpandsOnce): an overlay over the same preset is idempotent field by field,
    the defaults are, and the serialised route differs from the expanded one in where its
    lifecycle came from, which the second expansion fills alike, and in its empty lists,
    which the second overlay takes for lists left out. So the broker expands what a policy
    would without its empty lists, and that is the same document unless one of them
    replaced a list of the preset. Of every definition over every preset of the code.
  - `PlanIsRun` (PlanForetells), of every session that a valid profile makes (`IsSession`, the
    guard of SecretsTry: every secret of a chain or a file is declared), with chains of any
    length. The plan's walk of a chain and the run's end at one place (`SameEnd`): what is
    stored on the way is needed, because no source of the shell before it has a value, so it
    is read. From that, the refusals, variables, files and command line agree.

One attempt showed a property to be wrong as it stood. ScanSeesToken excused a token that
the scan did not see when the live list was full at the scan; the proof failed because
entries that expire after a drop make the list shorter again. The excuse is now the drop
itself (`over` in `live`, `placeholder.go:28`), beside the one of the interleaving that
"Findings" tells of.

Only model-checked:

- liveness under fairness, which TLAPS cannot do: PendingLands, OrphanSettled (`renew_live`)
  and IdleStops (`lifecycle_live`);
- that NoDuplicate of `shared_same` is violated.

Every invariant and every action property of the runs has a theorem.

## Findings

`shared_same`: `hull rm` and the release of the address are two steps with no lock
on the sandbox. A `brig run` of the same sandbox in between keeps an address that
the release frees, and the next boot is given it too: two guests on one address.

Other behaviours that the models reach or exclude by an assumption, which no run states
as a property:

*Renewal and broker*

- flush reads the store once and then makes up to three writes; an import in between is
  overwritten with the renewed document of the old login, against `cache.go:59` and
  `cache.go:747` (`ImportRaces`);
- after SIGTERM the control socket closes before the routes: a Forget in between returns
  nil while the broker still serves the sandbox, against `lifecycle.go:103`
  (`RefusesForgotten` without its premise);
- between the removal of the pid file and the release of the lock, a Register starts a
  broker that loses, and waits its whole readyTimeout for the one that is going;
- a request that hangs up is recorded as a failed fetch of its route; a request of a
  sandbox forgotten meanwhile puts a cache entry back, which stays with the keys its
  fetch brings (hence `raced` in LeavesNothing);
- nothing looks at what is left of keys that a fetch brings (`awscred/cli.go:135-139`,
  `cache.go:122-123`, `cache.go:148`): whoever waited on it is given keys that have less than
  the margin or have expired, where `cache.go:62` says "with at least 20 minutes left", and
  a registration is accepted on them. The margin and the expiry are checked on keys that
  the entry already held, which is what AnswersPointer says of their life;
- brokers of two directories on one secret store may delete each other's journal;
- the second test of a token and the scan are two steps (`proxy.go:162`, `proxy.go:168`).
  A token that expires in between may be dropped by the scan of another request, with a
  later instant, and is then not looked for, where `proxy.go:159-161` says that a token
  which passes is still among the live ones. ScanSeesToken allows that case by name, and
  the run does not hold without it.

*Sandboxes and networks*

- claims are read, decided on and written without a lock, so two runs at once are both
  let into one sandbox, against `slugclaim.go:24` (the environment `concurrent`);
- a run without a name claims nothing and is always let through (`slugclaim.go:128`), so
  under BRIG_NAME, or with a profile called like a session of another, it gets into a
  sandbox that a session name owns, or that one into its; `slugclaim.go:111` says that it
  "cannot collide". A claim holds the name alone, so runs of two profiles under one name
  share a sandbox that BRIG_NAME gives both, against `slugclaim.go:30`. OneHome is about
  session names only;
- of two commands that migrate the claims at once, the slower may delete the session entry
  the faster wrote; after a failed write of the migration the session record of the
  same run replaces the file the old claims are in;
- a damaged address record reads as empty while guests run on the addresses it held; stop
  and run again does not keep a sandbox's address;
- a run killed between Runtime.Run and its records (`run.go:491-508`) leaves a sandbox that
  the next run judges by the records of the boot before; a `brig rm` that fails drops the
  index entry while the sandbox lives (`torn` in ReuseFits);
- a publication that withdraws the old forward and then fails leaves a record that names
  a port nobody serves (`hull.go:1002-1019`), and a sandbox that could not be stopped
  loses its forwards when the next boot fails (`hull.go:499-535`);
- an unmanaged nerdctl boot stops what egress it finds without the egress lock
  (`nerdctl.go:429-449`; `nerdctlegress.go:45-50`), hence `raced` in RunningFiltered.

*Policies and secrets*

- a list that a policy empties is lost between brig and the broker: `allow: []` over a
  preset with an allow list is an empty list for brig (`presets.go:268`), is left out of
  the registration (`route.go:263`, omitempty) and the broker's own overlay restores the
  preset's list (`server.go:452`), where `presets.go:144-145` says "Any other list is
  replaced whole"; `set: []` with basicAuth over a preset that sets a header loads and
  expands, and the broker refuses the registration (`routevalidate.go:302-303`).
  ExpandsOnce states what the broker does;
- `brig policy attach` and `detach` rewrite `attachments.yaml` without a lock: of two at
  once one is lost (RunFiltered is about bindings whose write was not overtaken);
- `brig policy create` does not compare the name saved in the editor with the name asked
  for (`policy.go:423-426`; `docs/policies.md:904`);
- a create that overlaps an update or an `import -y` may leave one's value under the other's
  provenance with both reporting success; a delete that overlaps an update leaves the
  secret damaged; on the Secret Service two creates make two items;
- a plan cannot see that a stored secret is empty or damaged (`preview.go:64-76`), and names
  that the runtime reads itself (`HOME`, `PATH`) are resolved in the plan and refused at
  the boot.

*Verification, homes, guests*

- the directory of boot files has no lock: a run without a pin that only warns may replace
  files another run has compared, kernel and initrd may be of two signed bundles, and a
  fetch killed half way is refused until the files are deleted; a runtime that boots by
  tag may boot a tag that moved. ImageVerify assumes that the bundle tag serves signed
  bundles only;
- MkdirAll before the walk may create an empty directory through a planted link, and
  seedOnboarding truncates a file created between its look and its write;
- taking the directories of a credential changes their owner only (`secretfiles.go:558-574`):
  chown follows a link that the agent left in the place of one, and leaves the mode of one
  that it had opened to others. A later delivery through such a way is not held, where
  `secretfiles.go:402-405` says that a guest that is not root cannot create in the
  directories; a link to other memory passes the check of the file system.
  CredentialInMemory excepts these ways by name (`Loose`);
- nothing makes the directory of a credential below the covered one: where neither a kept
  directory nor the agent made it, each delivery fails at `secretfiles.go:410`, before
  the release is deferred, and the directories above it stay root's until one succeeds;
- a pin that an interrupted delivery left is used again by its name
  (`secretfiles.go:261`), whatever the home has at that name by then;
- a guest write after the look at `.git` is unseen until the next command, as documented; a
  quiet `brig rm` drops the baseline.

## Not modelled

`PROJECT.json` lists every part with the reason. In short: command-line parsing,
completion, formatting, reports and telemetry; PEM, JSON, YAML and pointer parsing; the
sockets of brig-broker's listeners; runtime capabilities and probes; the command lines of hull,
nerdctl, aws, gcloud and cosign, which appear by their outcomes; isolated networks and the
gateway's API; the encodings that make the spellings of a token, and decompression.
Timeouts of a single control call are left out of BrokerLifecycle: a call is answered
as long as its broker runs.

Assumptions of single modules: GuestFiles has one delivery at a time, a guest user that is
not root, a home that does not change during a delivery, one credential file in the covered
directory or in a directory of it (the code takes each directory of a longer way in
the same loop), pins that lead to the directory of their name, and a mount dropped only
between deliveries; what is out of the memory may be anything at each look;
GitWatch has commands of one sandbox that do not overlap; SandboxRun has commands that
follow one another, as brigd's mutex makes them; in RunSecrets a chain of one source is
written as `ref:`.

## Plan

Done: RenewCache, BrokerLifecycle, VendCache, SharedNetwork, SlugClaims, then the request
path, brigd with its refinement, egress and policies, the commands on a sandbox, and the
decisions of a run, and the proofs listed above. Left, by weight:

1. Abstract specifications: a one-copy login that RenewCache implements outside of the
   import window, and a directory with at most one serving broker that BrokerLifecycle
   implements.
2. Isolated networks and the gateway's API; brokers of two directories on one store;
   the sealed keychain write of SecretStore as the refinement of the store's write in
   RenewCache.
