----------------------------- MODULE MCDecisions -----------------------------
(* The stores of a host and the decisions that a single call makes, each on   *)
(* small inputs: one part per behaviour.                                      *)
EXTENDS BodyScan, RouteRules, RouteCredential, RouteExpand, SecretStore, ImageVerify, HomePath,
        GuestFiles, GitWatch, RunSecrets, RouteEnv, TLC

VARIABLE part  \* the module that this behaviour is about
decisionVars == <<part, scn, red, rq, crd, rtx, sec, srv>>
allVars == <<decisionVars, secretVars, imageVars, homeVars, guestFileVars, gitVars>>

\* Paths of at most two segments; the writings of a base that tell rules apart.
MCSamplePaths ==
    LET ok(s) == /\ s.base \in {"repo", "other", "empty"} => s.as # "twice"
                 /\ s.base = "empty" => s.as = "plain"
                 /\ s.base = "own/.." => s.as # "plain"
    IN  UNION {[1..k -> {s \in Segment : ok(s)}] : k \in 0..2}

MCSpellings == {<<"x", "y", "x">>, <<"backslash", "x">>, <<"y", "slash">>}
MCSecrets == {<<"x", "x", "y">>, <<"y", "x">>}
MCScanLetters == {"x", "y", "backslash", "n", "slash", "space"}
MCDocPaths == {<<"a", "b">>, <<"a.b">>, <<"m", "a", "b">>, <<"m", "a.b">>, <<"a", "c">>,
               <<"n", "a", "b">>, <<"n", "a">>, <<"b">>}

\* What a route may override of its preset, one part or all of them.
MCInjects ==
    {{}} \cup {{[set |-> s, carries |-> c /\ UNION s # {}, remove |-> r, allow |-> a, basic |-> b, tls |-> t]} :
                 s \in {{}, {{}}, {{"Authorization"}}, {{"X-Api-Key"}}}, c \in BOOLEAN, r \in {{}, {"Beta"}},
                 a \in {{}, {{}}, {{"Beta"}}}, b \in BOOLEAN, t \in {"none", "cert", "ca"}}
MCGuests ==
    {{}} \cup {{[env |-> e, git |-> g]} :
                 e \in {{}, {<<"URL", "token">>}, {<<"OVERRIDE", "url">>}, {<<"REGION", "region">>}},
                 g \in {{}, {"p"}}}
MCCreds == {{}, {[secret |-> "s", field |-> "none"]}, {[secret |-> "s", field |-> "f"]}}

\* Memory in the home and elsewhere; a file in a directory that another profile keeps;
\* one that would be on the host, which is not valid.
GuestProfile(mem, at, keep, file) == [mem |-> mem, at |-> at, keep |-> keep, file |-> file]
MCProfiles ==
    {GuestProfile(FALSE, FALSE, {}, {}), GuestProfile(FALSE, FALSE, {}, {<<"h">>}), GuestProfile(TRUE, FALSE, {"k"}, {<<"h">>}),
     GuestProfile(TRUE, FALSE, {"h", "k"}, {}), GuestProfile(TRUE, TRUE, {"h"}, {<<>>})}

MCContents == {[size |-> 1, id |-> 1], [size |-> 1, id |-> 2], [size |-> 2, id |-> 3]}

\* Sessions of a run.  The chains of a variable over the shell and two secrets, with the
\* store in any state; then what a route, a forwarded name or the runtime can object to.
SourcesOf(v) == {<<"env", v>>, <<"secrets", "s">>, <<"secrets", "t">>}
ChainsOf(v) == {<<>>} \cup {c \in UNION {[1..k -> SourcesOf(v)] : k \in 1..3} :
                             \A i, j \in DOMAIN c : c[i] = c[j] => i = j}
Session(v, chain) ==
    [decl |-> [s \in {"s", "t"} |-> "optional"], env |-> v :> chain, files |-> {}, aws |-> {}, deny |-> {"DENIED"},
     forward |-> {}, shell |-> [n \in {"V", "AWS_PROFILE", "DENIED", "HOME", projectVar} |-> "set"],
     allow |-> {}, routes |-> {}, clash |-> FALSE, offline |-> FALSE, served |-> TRUE,
     open |-> TRUE, held |-> [s \in {"s", "t"} |-> "held"]]
Injecting(secrets, vends) == [injects |-> secrets, vends |-> vends]

SessionTry ==
    /\ sec = <<>>
    /\ \/ \E chain \in ChainsOf("V"), d \in [{"s", "t"} -> {"required", "optional"}], f \in {{}, {"s"}},
             rs \in {{}, {Injecting({"s"}, FALSE)}}, fw \in {{}, {"V"}}, open \in BOOLEAN,
             hs \in Values, ht \in {"absent", "held"},
             sh \in {<<"unset", {}>>, <<"set", {"argv"}>>, <<"reference", {}>>, <<"reference", {"refs"}>>} :
             /\ ~open => hs = "absent" /\ ht = "absent"
             /\ SecretsTry([Session("V", chain) EXCEPT !.decl = d, !.files = f, !.routes = rs, !.forward = fw,
                   !.open = open, !.held = [s |-> hs, t |-> ht], !.shell["V"] = sh[1], !.allow = sh[2]])
       \/ \E v \in {"V", "HOME", projectVar}, cl, off, sv \in BOOLEAN, aw \in {{}, {"t"}},
             rs \in {{}, {Injecting({}, TRUE)}, {Injecting({"t"}, TRUE)}, {Injecting({"t"}, FALSE)}},
             fw \in {{}, {"AWS_PROFILE"}, {"DENIED"}, {"HOME"}, {projectVar}}, al \in {{}, {"denied"}, {"argv"}} :
             SecretsTry([Session(v, <<<<"secrets", "s">>>>) EXCEPT !.routes = rs, !.forward = fw, !.allow = al,
                   !.clash = cl, !.offline = off, !.served = sv, !.aws = aw, !.files = aw])

\* Servings: one route of any form beside none or a git route, over sets that carry a
\* name of the route, git entries, a count that is none, HOME or the project's name.
GuestOf(placeholders) == [n \in {Word(p[1]) : p \in placeholders} |->
                          (CHOOSE p \in placeholders : Word(p[1]) = n)[2]]
Forwarded == {<<>>, <<Var(Word("X"), Word("own"))>>, <<Var(Word("HOME"), Word("own")), SecretVar(Word("T"), Word("own"))>>,
              <<Var(ProjectName, Word("own"))>>, <<Var(CountName, Word("text"))>>, <<Var(CountName, Word("empty"))>>,
              <<Var(Word("SSL_CERT_FILE"), Word("own"))>>,
              <<Var(CountName, <<"count", 2>>), Var(GitKey(0), Word("own")), Var(GitKey(1), Word("own"))>>}
ServingTry ==
    /\ srv = <<>>
    /\ \E env \in {{}, {<<"X", "{route.url}">>}, {<<"SSL_CERT_FILE", "{route.url}">>}, {<<"T", "{session.token}">>, <<"X", "{route.url}">>},
                    {<<"X", "{route.region}">>, <<"T", "{session.token}">>}},
          endpoint, vends, cloud, region, project \in BOOLEAN, git \in 0..2, second \in {0, 1}, set \in Forwarded,
          fails \in {"none", "address", "mode", "register", "socket", "ca", "mint"} :
          /\ fails # "none" => git = 0 /\ set = <<>> /\ second = 0
          /\ LET route(n, e, end, ven, svc, g) ==
                   [name |-> n, endpoint |-> end, vends |-> ven, services |-> svc, env |-> GuestOf(e), git |-> g]
                 one == route(1, env, endpoint, vends, IF cloud THEN {1} ELSE {}, git)
                 two == route(2, {<<"U", "{session.token}">>}, TRUE, FALSE, {}, 1)
             IN  ServeTry([routes |-> IF second = 1 THEN <<one, two>> ELSE <<one>>, set |-> set, region |-> region,
                        project |-> project, fails |-> fails])

Alike == Permutations(Writers) \cup Permutations(Boots)

Init ==
    /\ part \in {"bodies", "requests", "credentials", "routes", "secrets",
                "images", "kernels", "records", "homes", "files", "git", "sessions", "servings"}
    /\ ScanInit /\ RulesInit /\ CredentialInit /\ ExpandInit /\ SecretInit
    /\ ImageInit /\ HomeInit /\ GuestFileInit /\ GitInit /\ SecretsInit /\ ServeInit
    /\ part # "secrets" => kind = "keyring" /\ item = {}
    /\ part # "kernels" => kern = 0 /\ tagB = 1
    /\ part # "homes" => ours
    /\ part # "files" => rt = "hull" /\ gp = GuestProfile(FALSE, FALSE, {}, {})

\* The action of one part leaves the others alone.
Stores == <<secretVars, imageVars, homeVars, guestFileVars, gitVars>>

Next ==
    \/ part = "bodies" /\ ScanBody /\ UNCHANGED <<part, rq, crd, rtx, sec, srv, Stores>>
    \/ part = "bodies" /\ RedactBody /\ UNCHANGED <<part, rq, crd, rtx, sec, srv, Stores>>
    \/ part = "requests" /\ RulesServe /\ UNCHANGED <<part, scn, red, crd, rtx, sec, srv, Stores>>
    \/ part = "credentials" /\ CredentialTry /\ UNCHANGED <<part, scn, red, rq, rtx, sec, srv, Stores>>
    \/ part = "routes" /\ ExpandTry /\ UNCHANGED <<part, scn, red, rq, crd, sec, srv, Stores>>
    \/ part = "sessions" /\ SessionTry /\ UNCHANGED <<part, scn, red, rq, crd, rtx, srv, Stores>>
    \/ part = "servings" /\ ServingTry /\ UNCHANGED <<part, scn, red, rq, crd, rtx, sec, Stores>>
    \/ part = "secrets" /\ SecretNext /\ UNCHANGED <<decisionVars, imageVars, homeVars, guestFileVars, gitVars>>
    \/ part = "images" /\ ImageNext /\ UNCHANGED <<decisionVars, secretVars, kernelVars, rcd, homeVars, guestFileVars, gitVars>>
    \/ part = "kernels" /\ KernelNext /\ UNCHANGED <<decisionVars, secretVars, im, rcd, homeVars, guestFileVars, gitVars>>
    \/ part = "records" /\ RecordTry /\ UNCHANGED <<decisionVars, secretVars, im, kernelVars, homeVars, guestFileVars, gitVars>>
    \/ part = "homes" /\ HomeNext /\ UNCHANGED <<decisionVars, secretVars, imageVars, guestFileVars, gitVars>>
    \/ part = "files" /\ GuestFileNext /\ UNCHANGED <<decisionVars, secretVars, imageVars, homeVars, gitVars>>
    \/ part = "git" /\ GitNext /\ UNCHANGED <<decisionVars, secretVars, imageVars, homeVars, guestFileVars>>

Spec == Init /\ [][Next]_allVars
=============================================================================
