---------------------------- MODULE RouteExpand ----------------------------
(***************************************************************************)
(* A route of a policy (internal/policy/presets.go, api/policy/v1alpha1):  *)
(* its validation as written, the overlay on its preset, the defaults and  *)
(* the validation of the result.  brig expands the routes of a run and     *)
(* sends them to the broker, which expands what it gets once more.         *)
(*                                                                         *)
(* A part that may be left out is a set of at most one: {} is left out.    *)
(* The lists set and allow of an inject may also be given with no member,  *)
(* and {{}} is not {}.                                                     *)
(***************************************************************************)
EXTENDS Naturals, FiniteSets

CONSTANTS
    Injects,  \* the inject of a route as policies write it
    Guests,   \* its guest
    Creds     \* its credential

ASSUME ExpandAssumption ==
    /\ Injects \subseteq SUBSET [set : SUBSET SUBSET STRING, carries : BOOLEAN, remove : SUBSET STRING,
                                 allow : SUBSET SUBSET STRING, basic : BOOLEAN, tls : STRING]
    /\ \A inject \in Injects : \A in \in inject : in.carries => UNION in.set # {}
    /\ Guests \subseteq SUBSET [env : SUBSET (STRING \X STRING), git : SUBSET STRING]
    /\ Creds \subseteq SUBSET [secret : STRING, field : STRING]

VARIABLES rtx  \* a route: as written, as brig expands it, as the broker does

-----------------------------------------------------------------------------
\* Routes and presets.

NoInject == [set |-> {}, carries |-> FALSE, remove |-> {}, allow |-> {}, basic |-> FALSE, tls |-> "none"]
NoGuest == [env |-> {}, git |-> {}]
NoRoute == [preset |-> "none", mode |-> "none", up |-> "none", cred |-> {}, life |-> "none", fromPreset |-> FALSE,
            inject |-> {}, guest |-> {}, allow |-> "none", services |-> {}]

Sets(h, remove, allow) == {[NoInject EXCEPT !.set = {{h}}, !.carries = TRUE, !.remove = remove, !.allow = allow]}
Env(names) == {[NoGuest EXCEPT !.env = names]}

\* The presets that brig ships, with the modes that each supports.
Preset == [
    oauth  |-> [NoRoute EXCEPT !.up = "anthropic", !.cred = {[secret |-> "none", field |-> "token"]},
                  !.life = "oauth", !.fromPreset = TRUE,
                  !.inject = Sets("Authorization", {"Authorization", "X-Api-Key"}, {{"Beta"}}),
                  !.guest = Env({<<"URL", "url">>, <<"TOKEN", "token">>})],
    apikey |-> [NoRoute EXCEPT !.up = "anthropic", !.inject = Sets("X-Api-Key", {"Authorization"}, {{"Beta"}}),
                  !.guest = Env({<<"URL", "url">>, <<"TOKEN", "token">>})],
    github |-> [NoRoute EXCEPT !.up = "github",
                  !.inject = {[NoInject EXCEPT !.basic = TRUE, !.remove = {"Authorization"}]},
                  !.guest = {[NoGuest EXCEPT !.git = {"https://github.com/"}]}],
    aws    |-> [NoRoute EXCEPT !.inject = Sets("Authorization", {"Authorization"}, {}),
                  !.guest = Env({<<"URL", "url">>, <<"REGION", "region">>}), !.allow = "GET"],
    gcp    |-> [NoRoute EXCEPT !.inject = Sets("Authorization", {"Authorization"}, {}),
                  !.guest = Env({<<"GCP", "url">>})]]

Vends(r) == r.preset = "aws"

-----------------------------------------------------------------------------
\* Validation.

\* CertificateOnly: nothing but a client certificate is presented.
CertificateOnly(in) == in.tls = "cert" /\ UNION in.set = {} /\ ~in.basic
carriesCredential(in) == UNION in.set # {} \/ in.basic

\* HeaderInject.validate: no header in two lists, but for Authorization, which is
\* removed before it is set; the credential reaches upstream.
HeadersValid(in, needsValue) ==
    /\ \A h \in UNION in.set : h \in in.remove => h = "Authorization"
    /\ needsValue => in.carries
    /\ "Authorization" \notin UNION in.allow
    /\ (UNION in.allow) \cap ((UNION in.set) \cup in.remove) = {}

InjectValid(in, complete, expanded) ==
    /\ ~(UNION in.set # {} /\ in.basic)
    /\ complete => UNION in.set # {} \/ in.basic \/ in.tls = "cert"
    /\ HeadersValid(in, complete /\ UNION in.set # {})
    /\ expanded => "Authorization" \in in.remove

\* Guest.validate: placeholders only, the region for aws, and what brig writes
\* itself for gcp is not set.
GuestValid(g, complete, preset) ==
    /\ complete => g.env # {} \/ g.git # {}
    /\ \A e \in g.env : /\ e[2] \in {"url", "token"} \cup (IF preset = "aws" THEN {"region"} ELSE {})
                        /\ preset = "gcp" => e[1] # "OVERRIDE"

\* RequestAllow.validate and validateServices: "open" is a request with no allow.
AllowValid(allow, preset) == allow # "empty" /\ (allow = "repos" => preset = "github")
ServicesValid(r) == r.services # {} /\ r.allow \in {"none", "open"} /\ r.services \subseteq {"storage", "compute"}

\* checkOrigin: a bare https origin in canonical form.
checkOrigin(up) == up # "path"

CredentialValid(c) == c.secret # "none"

\* Route.validate, of a route as written or expanded.
Valid(r, expanded) ==
    LET complete == expanded \/ r.preset = "none" IN
    /\ r.services # {} => r.preset = "gcp"
    /\ \A in \in r.inject : in.tls # "none" => r.preset = "none"
    /\ IF Vends(r) THEN r.up = "none" /\ (~expanded => r.inject = {})
       ELSE IF r.preset = "gcp" THEN r.up = "none" /\ ServicesValid(r)
       ELSE IF r.up # "none" THEN checkOrigin(r.up) ELSE ~complete
    /\ r.cred = {} => \E in \in r.inject : CertificateOnly(in)
    /\ \A c \in r.cred :
         /\ r.life # "none" => r.fromPreset
         /\ CredentialValid(c)
         /\ \A in \in r.inject : complete /\ in.tls # "none" => carriesCredential(in)
    /\ \A in \in r.inject : InjectValid(in, complete, expanded)
    /\ \A g \in r.guest : GuestValid(g, complete, r.preset)
    /\ complete => r.inject # {} /\ r.guest # {}
    /\ AllowValid(r.allow, r.preset)

-----------------------------------------------------------------------------
\* Expansion.  A refusal is the empty set.

Or(x, none, y) == IF x = none THEN y ELSE x

CredOver(base, c) ==
    IF c = {} THEN base.cred
    ELSE {[secret |-> Or(x.secret, "none", b.secret), field |-> Or(x.field, "none", b.field)] :
             x \in c, b \in IF base.cred = {} THEN {[secret |-> "none", field |-> "none"]} ELSE base.cred}

\* A list that is given replaces the preset's, also when it has no member.
InjectOver(base, in) ==
    IF in = {} THEN base.inject
    ELSE {[b EXCEPT !.set = Or(x.set, {}, @), !.carries = IF x.set = {} THEN @ ELSE x.carries,
                    !.remove = @ \cup x.remove, !.allow = Or(x.allow, {}, @), !.basic = @ \/ x.basic] :
             x \in in, b \in IF base.inject = {} THEN {NoInject} ELSE base.inject}

EnvOver(have, add) == {e \in have : \A a \in add : a[1] # e[1]} \cup add

GuestOver(base, g) ==
    IF g = {} THEN base.guest
    ELSE {[env |-> EnvOver(b.env, x.env), git |-> Or(x.git, {}, b.git)] :
             x \in g, b \in IF base.guest = {} THEN {NoGuest} ELSE base.guest}

\* overlay: a preset that keeps its credential fresh keeps upstream and field.
\* decodePreset marks the lifecycle as the preset's.
Overlay(base, r) ==
    LET fresh == base.life # "none"
        moved == r.up \notin {"none", base.up}
        other == \E c \in r.cred, b \in base.cred : c.field \notin {"none", b.field}
    IN  IF fresh /\ (moved \/ other) THEN {}
        ELSE {[base EXCEPT !.preset = r.preset, !.mode = Or(r.mode, "none", "endpoint"),
                 !.up = Or(r.up, "none", @), !.cred = CredOver(base, r.cred),
                 !.inject = InjectOver(base, r.inject), !.guest = GuestOver(base, r.guest),
                 !.allow = Or(r.allow, "none", @), !.services = Or(r.services, {}, @)]}

\* setDefaults: the guest's Authorization, which holds a session token, is removed.
setDefaults(r) ==
    [r EXCEPT !.mode = Or(@, "none", "endpoint"),
              !.inject = {[in EXCEPT !.remove = @ \cup {"Authorization"}] : in \in @}]

\* A mode that this build does not serve expands as written: the run refuses it.
Filled(r) ==
    LET over == IF r.preset = "none" THEN {r} ELSE Overlay(Preset[r.preset], r)
    IN  {e \in {setDefaults(o) : o \in over} : Valid(e, TRUE)}

\* Changed form of ExpandRoute: a route that vends takes no inject.
ExpandRoute_noInject(r) == IF Vends(r) /\ r.inject # {} THEN {} ELSE Filled(r)

\* ExpandRoute: of a route that vends only the preset's own inject is taken.
ExpandRoute(r) ==
    IF Vends(r) /\ r.inject # {}
    THEN {e \in Filled([r EXCEPT !.inject = {}]) : e.inject = r.inject}
    ELSE Filled(r)

\* As a document, which names no empty list: one that was given reads as left out.
Bare(r) == [r EXCEPT !.inject = {[in EXCEPT !.set = @ \ {{}}, !.allow = @ \ {{}}] : in \in @}]

\* What the broker reads: no document says where a lifecycle came from, either.
OnTheWire(r) == [Bare(r) EXCEPT !.fromPreset = FALSE]

-----------------------------------------------------------------------------
ExpandInit == rtx = [at |-> "none", written |-> NoRoute, brig |-> {}, broker |-> {}]

\* A policy that does not validate does not load (parse).
ExpandTry ==
    /\ rtx.at = "none"
    /\ \E preset \in DOMAIN Preset \cup {"none"}, up \in {"none", "other", "path"}, cred \in Creds,
          inject \in Injects, guest \in Guests, allow \in {"none", "open", "GET", "repos"},
          services \in {{}, {"storage"}} :
         LET r == [NoRoute EXCEPT !.preset = preset, !.up = up, !.cred = cred, !.inject = inject,
                                  !.guest = guest, !.allow = allow, !.services = services]
             once == ExpandRoute(r)
         IN  /\ Valid(r, FALSE)
             /\ rtx' = [at |-> "tried", written |-> r, brig |-> once,
                        broker |-> UNION {ExpandRoute(OnTheWire(e)) : e \in once}]

-----------------------------------------------------------------------------
\* A list of the preset that the route gives with no member.
Emptied(r) ==
    \E in \in r.inject, b \in IF r.preset = "none" THEN {NoInject} ELSE Preset[r.preset].inject :
        (in.set = {{}} /\ b.set # {}) \/ (in.allow = {{}} /\ b.allow # {})

\* The broker, which does not know that a route was expanded, serves the same document
\* as brig expanded, whatever a policy overrides of a preset (presets.go:139-203); but
\* a list of the preset that the policy empties is lost on the way, and the broker
\* serves or refuses the route as if the policy had left that list out
\* (presets.go:260-270, route.go:252-264).  Either way a route that is served sends its
\* credential one way, never beside the guest's own Authorization
\* (routevalidate.go:296-430).
ExpandsOnce ==
    /\ \A e \in rtx.brig :
         /\ rtx.broker = ExpandRoute(Bare(rtx.written))
         /\ ~Emptied(rtx.written) => {Bare(f) : f \in rtx.broker} = {Bare(e)}
    /\ \A e \in rtx.brig \cup rtx.broker : \A in \in e.inject :
         /\ "Authorization" \in in.remove \ UNION in.allow
         /\ ~(in.basic /\ UNION in.set # {})
         /\ e.cred # {} => carriesCredential(in)
=============================================================================
