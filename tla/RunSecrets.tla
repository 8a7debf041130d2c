----------------------------- MODULE RunSecrets -----------------------------
(***************************************************************************)
(* Which credentials a run hands the guest, and what `brig plan` says of   *)
(* them beforehand: the bindings of a profile with BRIG_FORWARD_ENV and    *)
(* the routes of its policies (internal/wrap config.go, routes.go,         *)
(* routestore.go), the secrets a run needs and reads, the variables they   *)
(* are bound to (internal/creds resolve.go, bind.go), the rows of a plan,  *)
(* which reads no value (preview.go), and the command line of the runtime  *)
(* (internal/runtime).                                                     *)
(*                                                                         *)
(* A session w is everything the decision reads:                           *)
(*   decl     the secrets of the profile, "required" or "optional"         *)
(*   env      the variables it binds: a chain of sources <<"env", name>>   *)
(*            and <<"secrets", name>>, or <<>> for a literal value         *)
(*   files    the secrets it writes to files, aws those under ~/.aws       *)
(*   deny     its denylist                                                 *)
(*   forward  BRIG_FORWARD_ENV                                             *)
(*   shell    what the shell holds for each name ("unset" is empty too;    *)
(*            "reference" looks like op://...)                             *)
(*   allow    BRIG_ALLOW_REFS, BRIG_ALLOW_DENIED, BRIG_ENV_ARGV            *)
(*   routes   the secrets each route injects and whether it vends AWS      *)
(*            keys; clash if the policies cannot apply together; offline   *)
(*            if the run has no network; served if this runtime can serve  *)
(*            the routes                                                   *)
(*   open     whether the store opens; held what it has for each secret    *)
(***************************************************************************)
EXTENDS Naturals, Sequences, FiniteSets, FiniteSetsExt, Functions

VARIABLE sec  \* the session that was tried, its plan and its run

Values == {"absent", "empty", "held", "damaged"}
projectVar == "BRIG_PROJECT"
awsShadowVars == {"AWS_PROFILE"}
runtimeReads == {"HOME"}

\* A reference has a namespace and a name, and names no empty secret.
IsChain(refs) == refs \in Seq({"env", "secrets"} \X STRING)

\* What a valid profile makes: every secret of a chain or a file is declared.
IsSession(w) ==
    /\ w.decl \in [DOMAIN w.decl -> {"required", "optional"}] /\ "" \notin DOMAIN w.decl
    /\ \A v \in DOMAIN w.env :
         /\ IsChain(w.env[v])
         /\ \A k \in DOMAIN w.env[v] : w.env[v][k][1] = "secrets" => w.env[v][k][2] \in DOMAIN w.decl
    /\ w.files \subseteq DOMAIN w.decl /\ w.forward \subseteq STRING
    /\ \A s \in DOMAIN w.decl : s \in DOMAIN w.held /\ w.held[s] \in Values
    /\ \A r \in w.routes : "" \notin r.injects

-----------------------------------------------------------------------------
(* Load: the bindings of the run.  A chain of one is written ref:.         *)

\* With names in BRIG_FORWARD_ENV the bindings that only read the shell make
\* room for them; a name that the profile binds to another source keeps it.
envOverride(w) ==
    LET kept == {v \in DOMAIN w.env : ~(Len(w.env[v]) = 1 /\ w.env[v][1][1] = "env")}
    IN  IF w.forward = {} THEN w.env
        ELSE [v \in kept \cup w.forward |-> IF v \in kept THEN w.env[v] ELSE <<<<"env", v>>>>]

routesOf(w) == IF w.clash THEN {} ELSE w.routes
brokeredSecrets(w) == UNION {r.injects : r \in routesOf(w)}

\* The chain has a source that the broker injects.
namesBrokered(refs, brokered) ==
    \E k \in DOMAIN refs : refs[k][1] = "secrets" /\ refs[k][2] \in brokered

\* Without the bindings that name a brokered secret, wherever in the chain.
withRoutes(bindings, brokered) ==
    Restrict(bindings, {v \in DOMAIN bindings : ~namesBrokered(bindings[v], brokered)})

withoutProjectVar(bindings) == Restrict(bindings, DOMAIN bindings \ {projectVar})

\* The run's own secrets, files and bindings.
Config(w) ==
    LET b == brokeredSecrets(w) IN
    [decl |-> Restrict(w.decl, DOMAIN w.decl \ b), files |-> w.files \ b, aws |-> w.aws \ b,
     env |-> withoutProjectVar(withRoutes(envOverride(w), b)), profile |-> withRoutes(w.env, b)]

-----------------------------------------------------------------------------
(* Refusals before anything boots.                                         *)

\* Keys that the AWS SDKs of the guest would read before the route that vends.
awsShadowRefusal(w) ==
    /\ \E r \in w.routes : r.vends
    /\ DOMAIN Config(w).env \cap awsShadowVars # {}
awsHomeRefusal(w) == (\E r \in w.routes : r.vends) /\ Config(w).aws # {}

\* sessionRefusal as far as routes go.
routeRefusal(w) ==
    \/ w.clash
    \/ w.routes # {} /\ (~w.served \/ w.offline \/ awsShadowRefusal(w) \/ awsHomeRefusal(w))

\* What the broker would inject must be in the store: a listing is enough.
checkRouteStore(w) ==
    LET b == brokeredSecrets(w) IN
    [err |-> b # {} /\ ~w.open, missing |-> {s \in b : w.open /\ w.held[s] = "absent"}]
routeStoreRefusal(w) == LET st == checkRouteStore(w) IN st.err \/ st.missing # {}

-----------------------------------------------------------------------------
(* BuildEnv: the secrets that are read and the variables that are set.     *)

\* A source of the shell that has a value ends the chain.
Answered(ref, w) == ref[1] = "env" /\ w.shell[ref[2]] # "unset"

Needed(w) ==
    LET c == Config(w)
        wanted(refs) == {refs[k][2] : k \in {i \in DOMAIN refs : refs[i][1] = "secrets" /\
                                              ~\E j \in 1..(i - 1) : Answered(refs[j], w)}}
        reached == (UNION {wanted(c.profile[v]) : v \in DOMAIN c.profile}) \cup c.files
    IN  {s \in DOMAIN c.decl : c.decl[s] = "required" \/ s \in reached}

\* ResolveSecrets reads them all, and names every required one it misses.
Read(w) == IF w.open THEN {s \in Needed(w) : w.held[s] \in {"held", "empty"}} ELSE {}
missing(w) == {s \in Needed(w) \ Read(w) : Config(w).decl[s] = "required"}

\* The first source with a value, or 0.
Source(refs, w) ==
    LET has(ref) == Answered(ref, w) \/ (ref[1] = "secrets" /\ ref[2] \in Read(w) /\ w.held[ref[2]] = "held")
    IN  Min({k \in DOMAIN refs : has(refs[k])} \cup {Len(refs) + 1}) % (Len(refs) + 1)

\* The guards on a value: the denylist, and a reference that nothing resolved.
admit(v, value, w) ==
    /\ v \notin w.deny \/ "denied" \in w.allow
    /\ value # "reference" \/ "refs" \in w.allow

\* Bind: the variables of the guest, each with where its value is from.
Bind(w) ==
    LET env == Config(w).env
        at(v) == Source(env[v], w)
        from(v) == IF env[v] = <<>> THEN "literal" ELSE IF at(v) = 0 THEN "none" ELSE env[v][at(v)][1]
        value(v) == IF from(v) = "env" THEN w.shell[env[v][at(v)][2]] ELSE "plain"
    IN  {<<v, from(v)>> : v \in {u \in DOMAIN env : from(u) # "none" /\ admit(u, value(u), w)}}

\* splitEnv: the variables whose values are on the command line of the runtime,
\* and those it refuses to pass on.
hatchExposes(w, var) == "argv" \in w.allow /\ var[2] # "secrets" /\ var[1] \notin runtimeReads
inArgv(w) == {var \in Bind(w) : (var[1] \in runtimeReads /\ var[2] # "secrets") \/ hatchExposes(w, var)}
splitEnvRefusal(w) == \E var \in Bind(w) : var[2] = "secrets" /\ var[1] \in runtimeReads

Run(w) ==
    LET refused == missing(w) # {} \/ routeRefusal(w) \/ routeStoreRefusal(w) \/ splitEnvRefusal(w)
    IN  [refused |-> refused,
         vars    |-> IF refused THEN {} ELSE Bind(w),
         files   |-> IF refused THEN {} ELSE Config(w).files \cap Read(w),
         argv    |-> IF refused THEN {} ELSE inArgv(w)]

-----------------------------------------------------------------------------
(* Plan: the same chains, from a listing.                                  *)

Listed(w) == w.open /\ DOMAIN Config(w).decl # {}
stored(s, w) == Listed(w) /\ w.held[s] # "absent"

\* The state of a secret that one source alone delivers.
secretRow(name, delivery, s, w) ==
    [name |-> name, delivery |-> delivery, secret |-> s,
     state |-> IF ~Listed(w) THEN "unknown" ELSE IF stored(s, w) THEN "resolved" ELSE "unresolved",
     source |-> IF stored(s, w) THEN "secrets" ELSE "none"]

\* Where the walk of a chain ends, 0 for nowhere.
ChainEnd(refs, w) ==
    Min({k \in DOMAIN refs : Answered(refs[k], w) \/ (refs[k][1] = "secrets" /\ stored(refs[k][2], w))}
          \cup {Len(refs) + 1}) % (Len(refs) + 1)

\* Changed form of Names: a secret passed on the way to a value of the shell stays named.
NamesPassed(refs, end) ==
    LET passed == {k \in DOMAIN refs : refs[k][1] = "secrets" /\ (end = 0 \/ k <= end)}
    IN  IF passed = {} THEN "" ELSE refs[Max(passed)][2]

\* The secret a row is about: the one that ends the chain, the last of a chain
\* that ends nowhere, none when the shell answered.
Names(refs, end) ==
    LET passed == {k \in DOMAIN refs : refs[k][1] = "secrets" /\ (end = 0 \/ k = end)}
    IN  IF passed = {} THEN "" ELSE refs[Max(passed)][2]

bindingRow(v, refs, w) ==
    LET end == ChainEnd(refs, w)
        value == IF end > 0 /\ refs[end][1] = "env" THEN w.shell[refs[end][2]] ELSE ""
        unlisted == ~Listed(w) /\ \E k \in DOMAIN refs : refs[k][1] = "secrets"
    IN  [name |-> v, delivery |-> "env", secret |-> Names(refs, end),
         state |-> IF end > 0 THEN (IF admit(v, value, w) THEN "resolved" ELSE "withheld")
                   ELSE IF unlisted THEN "unknown" ELSE "unresolved",
         source |-> IF end > 0 THEN refs[end][1] ELSE "none"]

\* Preview: a row for each binding with a source, each file, and each required
\* secret that no row so far is about.
Preview(w) ==
    LET c == Config(w)
        bound == {bindingRow(v, c.env[v], w) : v \in {u \in DOMAIN c.env : c.env[u] # <<>>}}
        filed == {secretRow("file", "file", s, w) : s \in c.files}
        delivered == {r.secret : r \in bound \cup filed}
    IN  bound \cup filed \cup
        {secretRow("", "none", s, w) : s \in {t \in DOMAIN c.decl : c.decl[t] = "required"} \ delivered}

\* planArgvExposed: from the literals and the rows.
planArgvExposed(w) ==
    LET c == Config(w)
        literals == {v \in DOMAIN c.env : c.env[v] = <<>> /\ (v \notin w.deny \/ "denied" \in w.allow)}
        rows == {r \in Preview(w) : r.delivery = "env" /\ r.state = "resolved"}
    IN  {var \in {<<v, "literal">> : v \in literals} \cup {<<r.name, r.source>> : r \in rows} : hatchExposes(w, var)}

Plan(w) ==
    [refused |-> routeRefusal(w) \/ routeStoreRefusal(w), rows |-> Preview(w), argv |-> planArgvExposed(w)]

-----------------------------------------------------------------------------
SecretsInit == sec = <<>>

SecretsTry(w) == sec = <<>> /\ IsSession(w) /\ sec' = <<w, Plan(w), Run(w)>>

-----------------------------------------------------------------------------
\* A row that says the run cannot have a required secret.
Warns(w, rows) ==
    \E r \in rows : /\ r.state \in {"unresolved", "unknown"}
                    /\ r.secret \in DOMAIN Config(w).decl /\ Config(w).decl[r.secret] = "required"

\* `brig plan` foretells the run.  Where every listed secret can be read and is
\* not empty: the run is refused exactly when the plan says so or shows a
\* required secret that is not there (or the runtime will not take a secret
\* under that name); otherwise the variables it sets, their sources, its files
\* and what is seen on the command line are those of the plan.  Whatever the
\* store holds, an injected secret is read for no variable and no file, and no
\* stored value is on the command line (creds/preview.go:83-181,
\* creds/resolve.go:180-268, creds/bind.go:25-140, wrap/routes.go:433-496).
PlanForetells ==
    sec # <<>> =>
        LET w == sec[1]  plan == sec[2]  run == sec[3]
            truthful == ~w.open \/ \A s \in DOMAIN w.held : w.held[s] \in {"absent", "held"}
            resolved(d) == {r \in plan.rows : r.delivery = d /\ r.state = "resolved"}
        IN  /\ truthful => (run.refused <=> plan.refused \/ Warns(w, plan.rows) \/ splitEnvRefusal(w))
            /\ truthful /\ ~run.refused =>
                 /\ {var \in run.vars : var[2] # "literal"} = {<<r.name, r.source>> : r \in resolved("env")}
                 /\ run.files = {r.secret : r \in resolved("file")}
                 /\ plan.argv = {var \in run.argv : var[1] \notin runtimeReads}
            /\ ~w.clash => brokeredSecrets(w) \cap (Needed(w) \cup run.files \cup {r.secret : r \in plan.rows}) = {}
            /\ \A var \in run.argv : var[2] # "secrets"
=============================================================================
