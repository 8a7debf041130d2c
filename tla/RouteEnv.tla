------------------------------ MODULE RouteEnv ------------------------------
(***************************************************************************)
(* The environment of a process in a sandbox with routes: what serveRoutes *)
(* gets from the broker and makes variables of (internal/wrap routes.go,   *)
(* internal/injector endpoint.go), and what they replace of the variables  *)
(* that the run set already (internal/wrap run.go).                        *)
(*                                                                         *)
(* A variable is [name, value, secret], a name and a value a word with a   *)
(* number; an environment is a sequence of variables in which the last of  *)
(* a name counts.  A route is                                              *)
(*   name, endpoint (its mode), vends, services (of Google Cloud),         *)
(*   env: the placeholder of each variable of guest.env,                   *)
(*   git: the number of prefixes of guest.git.insteadOf                    *)
(* A serving v is everything else the decision reads: the routes in the    *)
(* order of their names, the variables that are set already, whether       *)
(* the broker knows a region, whether a project is mounted, and the step   *)
(* that fails ("none" for no step).                                        *)
(***************************************************************************)
EXTENDS Naturals, Sequences, FiniteSets

CONSTANT GuestWords  \* the words of the variables that a run sets and of guest.env

VARIABLE srv  \* the serving that was tried, and the environment

Words ==
    GuestWords \cup {"BRIG_PROJECT", "GIT_CONFIG_COUNT", "GIT_CONFIG_KEY", "HOME", "BRIG_ROUTE_TOKEN", "CLOUDSDK_CA",
                    "CLOUDSDK_API_ENDPOINT_OVERRIDES", "SSL_CERT_FILE", "NODE_EXTRA_CA_CERTS",
                    "guest", "mounted", "ca", "token", "region", "URL", "LinkLocalURL", "count", "git"}
VarNames == Words \X Nat
VarValues == (Words \X Nat) \cup (Words \X Nat \X Nat)
VarSet == [name : VarNames, value : VarValues, secret : BOOLEAN]

Word(w) == <<w, 0>>
ProjectName == Word("BRIG_PROJECT")
CountName == Word("GIT_CONFIG_COUNT")
HomeVar == Word("HOME")
GcloudCA == Word("CLOUDSDK_CA")
caEnv == <<Word("SSL_CERT_FILE"), Word("NODE_EXTRA_CA_CERTS")>>

Var(name, value) == [name |-> name, value |-> value, secret |-> FALSE]
SecretVar(name, value) == [name |-> name, value |-> value, secret |-> TRUE]
GitKey(n) == <<"GIT_CONFIG_KEY", n>>
ServiceName(s) == <<"CLOUDSDK_API_ENDPOINT_OVERRIDES", s>>
TokenVar(r) == <<"BRIG_ROUTE_TOKEN", r.name>>
Token(r) == <<"token", r.name>>

\* The value of a name: that of its last variable.
Effective(vars, name) == vars[CHOOSE k \in DOMAIN vars : vars[k].name = name /\
                                 \A j \in DOMAIN vars : vars[j].name = name => j <= k].value
NamesOf(vars) == {vars[k].name : k \in DOMAIN vars}

\* A set in its order, and sequences one after the other.
InOrder(S) == CHOOSE f \in [1..Cardinality(S) -> S] : \A x \in S : \E i \in DOMAIN f : f[i] = x
Joined(words) ==
    LET upTo[n \in 0..Len(words)] == IF n = 0 THEN <<>> ELSE upTo[n - 1] \o words[n]
    IN  upTo[Len(words)]

-----------------------------------------------------------------------------
\* What the policies bound to a run let through: the routes have names of their
\* own, no variable is that of two routes, and one route alone has services,
\* whose variables no guest.env names.
Placeholders == {"{session.token}", "{route.region}", "{route.url}"}
OfServices(name) == name = GcloudCA \/ name[1] = "CLOUDSDK_API_ENDPOINT_OVERRIDES"
IsRoute(r) ==
    /\ r.name \in Nat /\ r.git \in Nat /\ r.endpoint \in BOOLEAN /\ r.vends \in BOOLEAN
    /\ r.services \subseteq Nat /\ IsFiniteSet(r.services)
    /\ DOMAIN r.env \subseteq VarNames /\ IsFiniteSet(DOMAIN r.env) /\ r.env \in [DOMAIN r.env -> Placeholders]
BoundRoutes(routes) ==
    /\ \A k \in DOMAIN routes : IsRoute(routes[k])
    /\ \A j, k \in DOMAIN routes : j # k =>
         /\ routes[j].name # routes[k].name
         /\ DOMAIN routes[j].env \cap DOMAIN routes[k].env = {}
         /\ routes[j].services = {} \/ routes[k].services = {}
    /\ \A j, k \in DOMAIN routes : routes[j].services # {} =>
         \A name \in DOMAIN routes[k].env : ~OfServices(name)

-----------------------------------------------------------------------------
\* Where the guest reaches a route: on the link-local address if it vends.
RouteURL(r) == <<IF r.vends THEN "LinkLocalURL" ELSE "URL", r.name>>

\* What a placeholder of guest.env stands for; a mode without a route URL has none.
FilledIn(r, name) ==
    IF r.env[name] = "{session.token}" THEN <<SecretVar(name, Token(r))>>
    ELSE IF r.env[name] = "{route.region}" THEN <<Var(name, <<"region", r.name>>)>>
    ELSE IF r.endpoint THEN <<Var(name, RouteURL(r))>> ELSE <<>>

hasGit(r) == r.endpoint /\ r.git > 0

\* The variables of one route, before git's: its services, guest.env, the token.
ServiceVars(r) ==
    LET services == InOrder(r.services)
    IN  IF r.endpoint THEN [i \in DOMAIN services |-> Var(ServiceName(services[i]), RouteURL(r))] ELSE <<>>
EnvVars(r) ==
    LET names == InOrder(DOMAIN r.env) IN Joined([i \in DOMAIN names |-> FilledIn(r, names[i])])
RouteVars(r) ==
    ServiceVars(r) \o EnvVars(r) \o (IF hasGit(r) THEN <<SecretVar(TokenVar(r), Token(r))>> ELSE <<>>)

\* Its git entries: a rewrite for each prefix, then the helper emptied and set.
GitEntries(r) ==
    IF hasGit(r) THEN [i \in 1..(r.git + 2) |-> <<"git", r.name, i>>] ELSE <<>>

\* Changed form of gitConfigCount: the routes' entries start at 0.
gitConfigCountZero(forwarded) == {Len(forwarded) - Len(forwarded)}

\* gitConfigCount: the entries the guest has already; none if the count is not one.
gitConfigCount(forwarded) ==
    IF CountName \notin NamesOf(forwarded) \/ Effective(forwarded, CountName) = Word("empty") THEN {0}
    ELSE {n \in {Effective(forwarded, CountName)[2]} : Effective(forwarded, CountName)[1] = "count"}

AllGit(routes) == Joined([k \in DOMAIN routes |-> GitEntries(routes[k])])
AllVars(routes) == Joined([k \in DOMAIN routes |-> RouteVars(routes[k])])

\* The count, then each entry after the guest's own.
Wired(git, base) ==
    IF git = <<>> THEN <<>>
    ELSE <<Var(CountName, <<"count", base + Len(git)>>)>>
         \o [i \in 1..Len(git) |-> Var(GitKey(base + i - 1), git[i])]

\* The files of the brig CA.
CAVars(routes) ==
    LET endpoints == {k \in DOMAIN routes : routes[k].endpoint}
        gcloud == \E k \in endpoints : routes[k].services # {}
    IN  (IF endpoints = {} THEN <<>> ELSE [i \in DOMAIN caEnv |-> Var(caEnv[i], Word("ca"))])
        \o (IF gcloud THEN <<Var(GcloudCA, Word("ca"))>> ELSE <<>>)

\* GuestEnv: {} if a route has no region it names or git's count is not a count.
NeedsRegion(routes) ==
    \E k \in DOMAIN routes : \E name \in DOMAIN routes[k].env : routes[k].env[name] = "{route.region}"
GuestEnv(v) ==
    LET git == AllGit(v.routes)
        bases == IF git = <<>> THEN {0} ELSE gitConfigCount(v.set)
    IN  {AllVars(v.routes) \o Wired(git, base) \o CAVars(v.routes) :
           base \in {b \in bases : v.region \/ ~NeedsRegion(v.routes)}}

\* The steps of serveRoutes in order; a run without an endpoint route asks for
\* no address and no CA, one without another mode registers none.
ServeSteps(v) ==
    LET endpoint == \E k \in DOMAIN v.routes : v.routes[k].endpoint
        other == \E k \in DOMAIN v.routes : ~v.routes[k].endpoint
    IN  (IF endpoint THEN {"address", "ca"} ELSE {}) \cup (IF other THEN {"mode"} ELSE {})
        \cup {"register", "socket", "mint"}

\* serveRoutes: every step, then the variables; {} if the run goes no further.
serveRoutes(v) ==
    IF v.routes = <<>> THEN {<<>>}
    ELSE IF v.fails \in ServeSteps(v) THEN {}
    ELSE GuestEnv(v)

\* The variables without the project's.
WithoutProject(vars) ==
    LET upTo[n \in 0..Len(vars)] ==
          IF n = 0 THEN <<>>
          ELSE IF vars[n].name = ProjectName THEN upTo[n - 1] ELSE Append(upTo[n - 1], vars[n])
    IN  upTo[Len(vars)]

\* guestEnv: HOME unless it is set, what the run set, the routes, the project.
guestEnv(v, routeVars) ==
    (IF HomeVar \in NamesOf(v.set) THEN <<>> ELSE <<Var(HomeVar, Word("guest"))>>)
    \o WithoutProject(v.set) \o WithoutProject(routeVars)
    \o (IF v.project THEN <<Var(ProjectName, Word("mounted"))>> ELSE <<>>)

\* No variable holds a token before the tokens are minted.
Serving(v) ==
    /\ v.routes \in Seq({v.routes[k] : k \in DOMAIN v.routes}) /\ BoundRoutes(v.routes)
    /\ v.project \in BOOLEAN /\ v.set \in Seq(VarSet) /\ \A k \in DOMAIN v.set : v.set[k].value[1] # "token"

ServeInit == srv = <<>>

ServeTry(v) ==
    /\ srv = <<>>
    /\ Serving(v)
    /\ srv' = <<v, {guestEnv(v, vars) : vars \in serveRoutes(v)}>>

-----------------------------------------------------------------------------
\* The names that brig writes itself, whatever guest.env says of them.
OfBrig(name) ==
    \/ name = ProjectName \/ name = CountName \/ \E i \in DOMAIN caEnv : name = caEnv[i]
    \/ name[1] \in {"GIT_CONFIG_KEY", "BRIG_ROUTE_TOKEN"}
Named(routes, name) == \E k \in DOMAIN routes : name \in DOMAIN routes[k].env
Has(env, name, x) == name \in NamesOf(env) /\ Effective(env, name) = x

\* The git entries that the guest has of its own.
OwnEntries(set) ==
    IF CountName \in NamesOf(set) /\ Effective(set, CountName)[1] = "count" THEN Effective(set, CountName)[2] ELSE 0

\* Each variable of guest.env, and each service's, has the route's value.
RoutesValues(v, env) ==
    \A k \in DOMAIN v.routes :
        LET r == v.routes[k] IN
        /\ \A name \in DOMAIN r.env : ~OfBrig(name) =>
             \A i \in DOMAIN FilledIn(r, name) : Has(env, name, FilledIn(r, name)[i].value)
        /\ r.endpoint => \A s \in r.services : Has(env, ServiceName(s), RouteURL(r))
        /\ hasGit(r) /\ ~Named(v.routes, TokenVar(r)) => Has(env, TokenVar(r), Token(r))

\* Git sees the guest's own entries and after them every entry of every route.
GitEntriesKept(v, env) ==
    LET git == AllGit(v.routes)
        base == OwnEntries(v.set)
    IN  git # <<>> =>
          /\ Has(env, CountName, <<"count", base + Len(git)>>)
          /\ \A n \in 0..(base - 1) : GitKey(n) \in NamesOf(v.set) /\ ~Named(v.routes, GitKey(n)) =>
               Has(env, GitKey(n), Effective(v.set, GitKey(n)))
          /\ \A i \in 1..Len(git) : Has(env, GitKey(base + i - 1), git[i])

\* The project's variable names what is mounted or nothing.
ProjectIsMounted(v, env) ==
    /\ ProjectName \in NamesOf(env) <=> v.project
    /\ v.project => Has(env, ProjectName, Word("mounted"))

\* No session token is in a variable that may go on a command line.
TokensSecret(env) == \A k \in DOMAIN env : env[k].value[1] = "token" => env[k].secret

\* Whatever the run has set already, a process in the guest gets what its
\* routes give it: each variable of guest.env and of the services has the
\* route's value, each git route's helper finds that route's token, git sees
\* the guest's own entries and after them every entry of every route, the
\* project's variable names what is mounted or nothing, and no session token
\* is in a variable that may go on a command line
\* (endpoint.go:76-262, routes.go:263-353, run.go:966-1008).
RouteVarsWin ==
    srv # <<>> => \A env \in srv[2] :
        /\ RoutesValues(srv[1], env)
        /\ GitEntriesKept(srv[1], env)
        /\ ProjectIsMounted(srv[1], env)
        /\ TokensSecret(env)
=============================================================================
