----------------------------- MODULE RouteRules -----------------------------
(***************************************************************************)
(* What a route makes of one request (internal/broker proxy.go, allow.go,  *)
(* inject.go, placeholder.go): the checks of ServeHTTP in their order,     *)
(* from the carrier of the token to the headers that go upstream.          *)
(*                                                                         *)
(* A path is a sequence of segments.  A segment has a base, the way it is  *)
(* written (plain, percent-escaped, escaped twice, or in code points that  *)
(* an upstream may fold to ASCII) and perhaps a ;parameter.  A header is   *)
(* its name; the guest's value of it is named by the header.               *)
(***************************************************************************)
EXTENDS Naturals, Sequences, SequencesExt, FiniteSets

Bases == {"own", "repo", "other", "..", "empty", "own/.."}
Writings == {"plain", "escaped", "twice", "folded"}
Segment == [base : Bases, as : Writings, param : BOOLEAN]

\* Routes: what Route.Validate lets through, by what the checks read of it.
\* carrier is where the route reads the token; owned are the headers of
\* inject.headers.set and remove; allow lists are empty when not set.
RouteKinds == {"git", "api", "gcp", "aws"}
RouteOf(k) ==
    [vends    |-> k = "aws",
     services |-> IF k = "gcp" THEN {"own", "repo"} ELSE {},
     methods  |-> IF k = "aws" THEN {} ELSE {"GET"},
     repos    |-> IF k = "git" THEN {<<"own", "repo">>} ELSE {},
     paths    |-> IF k = "api" THEN {<<"own", "*">>, <<"own">>} ELSE {},
     carrier  |-> IF k = "api" THEN "X-Api-Key" ELSE "Authorization",
     owned    |-> {"Authorization"} \cup (IF k = "api" THEN {"X-Api-Key"} ELSE {})]

\* Headers of a guest, by what fold and the rules make of their names.
HeaderNames == {"Authorization", "X-Api-Key", "x_api_key", "X-Forwarded-For",
                "X-HTTP-Method-Override", "Accept", "X-Copy"}
\* Where the request carries the session token.
TokenPlaces == {"carrier", "path", "query", "header", "body"}

CONSTANT SamplePaths  \* the paths that are tried
\* A slash that is written as one ends a segment.
ASSUME PathAssumption ==
    \A p \in SamplePaths : p \in Seq(Segment) /\ \A i \in DOMAIN p : p[i].base = "own/.." => p[i].as # "plain"
Request(k, method, path, headers, token, query) ==
    [kind |-> k, method |-> method, path |-> path, headers |-> headers, token |-> token,
     query |-> query]

VARIABLE rq  \* the request that was served last, and the answer

-----------------------------------------------------------------------------
DotsOrSlash(s) == s.base \in {"..", "own/.."}

\* Changed form of canonical: what is escaped twice is not looked for.
canonicalOnce(path, repos) ==
    \A i \in 1..Len(path) :
        LET s == path[i] IN
        /\ ~(DotsOrSlash(s) /\ s.as = "escaped")
        /\ ~(s.as = "folded" /\ (repos \/ s.base = "own/.."))
        /\ s.base # ".." \/ s.as = "twice"
        /\ s.base = "empty" => i = Len(path) /\ ~s.param

\* canonical: the path reaches the upstream as written.
canonical(path, repos) ==
    \A i \in 1..Len(path) :
        LET s == path[i] IN
        \* an escaped dot, slash or percent sign
        /\ ~(DotsOrSlash(s) /\ s.as \in {"escaped", "twice"})
        /\ s.as # "twice"
        \* a slash in a look-alike; on a route with repos, any byte past ASCII
        /\ ~(s.as = "folded" /\ (repos \/ s.base = "own/.."))
        \* a dot segment, its parameter cut, and an empty segment but the last
        /\ s.base # ".."
        /\ s.base = "empty" => i = Len(path) /\ ~s.param

\* What an upstream may read a path as: it may decode once more, fold code
\* points to ASCII, cut parameters, resolve dot segments and merge slashes.
Enter(names, n) ==
    IF n = ".." THEN (IF names = <<>> THEN names ELSE Front(names))
    ELSE IF n = "empty" THEN names ELSE Append(names, n)
ReadOne(names, s, decodes, folds, cuts) ==
    LET seen == \/ s.as \in {"plain", "escaped"}
                \/ s.as = "twice" /\ decodes
                \/ s.as = "folded" /\ folds
    IN  IF ~seen \/ (s.param /\ ~cuts) THEN Append(names, "raw")
        ELSE IF s.base = "own/.." THEN Enter(Enter(names, "own"), "..")
        ELSE Enter(names, s.base)
Reading(path, decodes, folds, cuts) ==
    LET upTo[n \in 0..Len(path)] ==
          IF n = 0 THEN <<>> ELSE ReadOne(upTo[n - 1], path[n], decodes, folds, cuts)
    IN  upTo[Len(path)]

\* The path as the rules of request.allow read it, decoded once.
Written(path) ==
    [i \in 1..Len(path) |->
        IF path[i].param \/ path[i].as \in {"twice", "folded"} THEN "raw" ELSE path[i].base]

\* allow, with match and repoOf: every list that is set must match.
Match(glob, names) ==
    Len(glob) = Len(names) /\ \A i \in 1..Len(glob) : glob[i] \in {"*", names[i]}

allow(route, method, names) ==
    /\ route.methods # {} => method \in route.methods
    /\ route.paths # {} => \E g \in route.paths : Match(g, names)
    /\ route.repos # {} => /\ Len(names) >= 2
                           /\ \E g \in route.repos : Match(g, <<names[1], names[2]>>)

\* serviceTarget: the service segment as written, no override of the method, a
\* service of the route.
serviceTarget(route, r) ==
    /\ r.path # <<>>
    /\ r.path[1].as = "plain" /\ ~r.path[1].param
    /\ "X-HTTP-Method-Override" \notin r.headers
    /\ r.query # "override"
    /\ r.path[1].base \in route.services

\* sessionToken: the token where the route reads it.
sessionToken(r) == "carrier" \in r.token

\* findPlaceholder: the token anywhere but in its carrier.
findPlaceholder(r) == r.token \cap {"path", "query", "header", "body"} # {}

\* fold: the spellings that a server may read as one name.
fold(h) == IF h = "x_api_key" THEN "X-Api-Key" ELSE h

\* Changed form of Dropped: a name is compared as it is written.
DroppedAsWritten(route, r) ==
    {h \in r.headers : \/ h \in {"X-Forwarded-For", "X-HTTP-Method-Override"} \cup route.owned
                       \/ h = "X-Copy" /\ "header" \in r.token}

\* The headers that never go upstream: underscores, the prefixes, the dropped
\* names, the ones the route owns, and any that carries the token.
Dropped(route, r) ==
    {h \in r.headers :
        \/ h = "x_api_key"
        \/ fold(h) \in {"X-Forwarded-For", "X-HTTP-Method-Override"}
        \/ fold(h) \in route.owned
        \/ h = "X-Copy" /\ "header" \in r.token}

\* injectCredential: the route's header, or Authorization of a basicAuth route.
Injected(route) == {route.carrier}

\* ServeHTTP from the token to the trip.
Serve(r) ==
    LET route == RouteOf(r.kind)
        refuse(c) == [check |-> c, headers |-> {}]
    IN  IF ~sessionToken(r) THEN refuse("token")
        ELSE IF findPlaceholder(r) THEN refuse("placeholder")
        ELSE IF route.vends THEN refuse(IF r.path = <<>> THEN "vended" ELSE "path")
        ELSE IF ~canonical(r.path, route.repos # {}) THEN refuse("path")
        ELSE IF route.services = {} /\ ~allow(route, r.method, Written(r.path))
             THEN refuse("request.allow")
        ELSE IF route.services # {} /\ ~serviceTarget(route, r) THEN refuse("request.services")
        ELSE IF route.services # {} /\ ~allow(route, r.method, Tail(Written(r.path)))
             THEN refuse("request.allow")
        ELSE [check |-> "passed", headers |-> (r.headers \ Dropped(route, r)) \cup Injected(route)]

-----------------------------------------------------------------------------
RulesInit == rq = <<>>

\* Every path with nothing else to refuse, and every set of headers and places
\* of the token on one path.
RulesServe ==
    /\ rq = <<>>
    /\ \/ \E k \in RouteKinds, m \in {"GET", "DELETE"}, p \in SamplePaths :
            LET r == Request(k, m, p, {}, {"carrier"}, "plain") IN rq' = <<r, Serve(r)>>
       \/ \E k \in RouteKinds, hs \in SUBSET HeaderNames, t \in SUBSET TokenPlaces,
            q \in {"plain", "override"} :
            LET plain(b) == [base |-> b, as |-> "plain", param |-> FALSE]
                r == Request(k, "GET", <<plain("own"), plain("repo")>>, hs, t, q)
            IN  rq' = <<r, Serve(r)>>

-----------------------------------------------------------------------------
\* What the policy lets a request reach: its repository, its tree, its service.
WithinRules(route, names) ==
    /\ route.repos # {} => Len(names) >= 2 /\ <<names[1], names[2]>> \in route.repos
    /\ route.paths # {} => names # <<>> /\ names[1] = "own"
    /\ route.services # {} => names # <<>> /\ names[1] \in route.services

\* A request that goes upstream goes to what the policy allowed, however the
\* upstream reads the path: whether it decodes again, folds Unicode, cuts
\* parameters, resolves dots or merges slashes, it ends in the repository, the
\* tree or the service that request.allow checked (proxy.go:722-783).
AllowedIsServed ==
    rq # <<>> /\ rq[2].check = "passed" =>
        \A decodes, folds, cuts \in BOOLEAN :
            WithinRules(RouteOf(rq[1].kind), Reading(rq[1].path, decodes, folds, cuts))

\* Nothing of the guest's goes upstream in a header the route owns, under any
\* spelling that a server reads as that name, nor does the token, nor a method
\* other than the one that was checked (inject.go:189-243).
UpstreamClean ==
    rq # <<>> /\ rq[2].check = "passed" =>
        LET route == RouteOf(rq[1].kind)
            guests == rq[2].headers \ Injected(route)
        IN  /\ {fold(h) : h \in guests} \cap route.owned = {}
            /\ "X-HTTP-Method-Override" \notin guests
            /\ ~("X-Copy" \in guests /\ "header" \in rq[1].token)
            /\ rq[1].token = {"carrier"}

\* What reaches the upstream is the request that was checked, with nothing of
\* the guest's where the route's own values go.
SentAsAllowed == AllowedIsServed /\ UpstreamClean
=============================================================================
