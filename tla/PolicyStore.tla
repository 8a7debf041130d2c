---------------------------- MODULE PolicyStore ----------------------------
(***************************************************************************)
(* The policy directory and the attachment record (cmd/brig/policy.go,     *)
(* internal/policy): the commands that create, edit, rename and remove     *)
(* policies and bind them, by several brig processes with editors open     *)
(* between their checks and their writes, and what a run makes of it.      *)
(*                                                                         *)
(* Files are numbered in the order of their names; the file of policy n is *)
(* file n, though what it declares is the name inside it.  One profile.    *)
(***************************************************************************)
EXTENDS Naturals, FiniteSetsExt

CONSTANTS
    Users,   \* brig processes
    PNames,  \* policy names
    Inline,  \* the profile's own policy: list
    Documents \* documents that parse: [name, def, deny]

\* The profile's list is of policy names; of any names, one is the last.
ASSUME PolicyAssumption ==
    /\ Inline \subseteq PNames
    /\ \A S \in SUBSET PNames : S # {} => \E m \in S : \A n \in S : m >= n

VARIABLES
    files,    \* the document in a file: at most one
    spoilt,   \* the files that no longer parse
    att,      \* the record: which policy is bound to the profile or to the session
    attBad,   \* the record does not parse
    use,      \* a process: its command and where that is
    promised  \* the bindings that a user was told of and has not detached

policyVars == <<files, spoilt, att, attBad, use, promised>>

Binders == {"profile", "session"}
Idle == [pc |-> "idle", op |-> "none", n |-> 0, path |-> 0, force |-> FALSE, doc |-> {},
         bind |-> {}, snap |-> {}, names |-> {}, owed |-> {}, def |-> "none", deny |-> {}]

PolicyInit ==
    /\ files = [f \in PNames |-> {}] /\ spoilt = {}
    /\ att = {} /\ attBad = FALSE
    /\ use = [u \in Users |-> Idle]
    /\ promised = {}

-----------------------------------------------------------------------------
\* Reading.

\* LoadAll: by the name inside; of two files that declare one the later wins.
Declaring(n) == {f \in PNames : \E d \in files[f] : d.name = n}
Loads(n) == Declaring(n) # {}
PathOf(n) == Max(Declaring(n))
Loaded(n) == UNION {files[f] : f \in IF Loads(n) THEN {PathOf(n)} ELSE {}}
OnDisk(f) == files[f] # {} \/ f \in spoilt

\* Bindings of a policy: inline, to the profile and to the session.
Bound(n) == n \in Inline \/ \E b \in Binders : <<n, b>> \in att

\* Changed form of EffectivePolicies: a name that declares no document is left out.
EffectiveThatLoad(rec, sess) ==
    {n \in PNames : Loads(n) /\ (n \in Inline \/ <<n, "profile">> \in rec \/ (sess /\ <<n, "session">> \in rec))}

\* EffectivePolicies: what binds a run, with or without the session's name.
EffectivePolicies(rec, sess) ==
    {n \in PNames : n \in Inline \/ <<n, "profile">> \in rec \/ (sess /\ <<n, "session">> \in rec)}

\* Merge: the strictest default of the documents that have egress, all the rules.
MergedDefault(ds) ==
    IF \A d \in ds : d.def = "none" THEN "none"
    ELSE IF \E d \in ds : d.def = "deny" THEN "deny" ELSE "allow"
MergedDeny(ds) == UNION {d.deny : d \in ds}

-----------------------------------------------------------------------------
\* A refusal changes nothing and is no step.

Starts(u, rec) == use[u] = Idle /\ use' = [use EXCEPT ![u] = rec]
Finishes(u) == use' = [use EXCEPT ![u] = Idle]
Store == <<files, spoilt, att, attBad, promised>>

Create(u, n, force) ==
    /\ Loads(n) => PathOf(n) = n
    /\ OnDisk(n) => force
    /\ Starts(u, [Idle EXCEPT !.pc = "editor", !.op = "create", !.n = n, !.path = n, !.force = force])
    /\ UNCHANGED Store

Edit(u, n, force) ==
    /\ Loads(n)
    /\ Starts(u, [Idle EXCEPT !.pc = "editor", !.op = "edit", !.n = n, !.path = PathOf(n), !.force = force])
    /\ UNCHANGED Store

\* The editor fails, or what it saved does not parse: the draft stays beside.
EditorQuits(u) ==
    /\ use[u].pc = "editor"
    /\ Finishes(u) /\ UNCHANGED Store

Writes(f, d) == files' = [files EXCEPT ![f] = {d}] /\ spoilt' = spoilt \ {f}

\* create does not look at the name that was saved.
CreateSave(u, d) ==
    /\ use[u].pc = "editor" /\ use[u].op = "create"
    /\ Writes(use[u].path, d)
    /\ Finishes(u) /\ UNCHANGED <<att, attBad, promised>>

\* edit reads the directory again, and the bindings when the policy is renamed.
EditCheck(u, d) ==
    /\ use[u].pc = "editor" /\ use[u].op = "edit"
    /\ Loads(d.name) => PathOf(d.name) = use[u].path
    /\ use[u].force \/ d.name = use[u].n \/ (~attBad /\ ~Bound(use[u].n))
    /\ use' = [use EXCEPT ![u].pc = "write", ![u].doc = {d}]
    /\ UNCHANGED Store

EditWrite(u) ==
    /\ use[u].pc = "write"
    /\ \E d \in use[u].doc : Writes(use[u].path, d)
    /\ Finishes(u) /\ UNCHANGED <<att, attBad, promised>>

RemoveCheck(u, n, force) ==
    /\ Loads(n)
    /\ force \/ (~attBad /\ ~Bound(n))
    /\ Starts(u, [Idle EXCEPT !.pc = "remove", !.op = "rm", !.n = n, !.path = PathOf(n)])
    /\ UNCHANGED Store

RemoveFile(u) ==
    /\ use[u].pc = "remove"
    /\ files' = [files EXCEPT ![use[u].path] = {}] /\ spoilt' = spoilt \ {use[u].path}
    /\ Finishes(u) /\ UNCHANGED <<att, attBad, promised>>

\* attach and detach read the record and write the whole of it back; a policy in
\* the profile's own list is neither attached nor detached.
AttachRead(u, n, b) ==
    /\ Loads(n) /\ n \notin Inline /\ ~attBad
    /\ Starts(u, [Idle EXCEPT !.pc = "save", !.op = "attach", !.bind = {<<n, b>>}, !.snap = att])
    /\ UNCHANGED Store

DetachRead(u, n, b) ==
    /\ ~(b = "profile" /\ n \in Inline) /\ ~attBad /\ <<n, b>> \in att
    /\ Starts(u, [Idle EXCEPT !.pc = "save", !.op = "detach", !.bind = {<<n, b>>}, !.snap = att])
    /\ UNCHANGED Store

Record(u) == IF use[u].op = "attach" THEN use[u].snap \cup use[u].bind ELSE use[u].snap \ use[u].bind

\* Attachments.Save, by a file beside it and a rename.  Two that overlap lose one
\* of the two changes: what is not in the record is then promised no more.
SaveRecord(u) ==
    /\ use[u].pc = "save"
    /\ \/ /\ att' = Record(u) /\ attBad' = FALSE
          /\ promised' = Record(u) \cap (promised \cup use[u].bind)
       \/ UNCHANGED <<att, attBad, promised>>
    /\ Finishes(u) /\ UNCHANGED <<files, spoilt>>

-----------------------------------------------------------------------------
\* A run: ResolvePolicies reads the record, then the directory.  A record that does
\* not parse, and a bound name that nothing declares, refuse it.
RunRead(u, sess) ==
    /\ ~attBad
    /\ LET names == EffectivePolicies(att, sess) IN
       Starts(u, [Idle EXCEPT !.pc = "load", !.op = "run", !.names = names,
                    !.owed = Inline \cup {n \in PNames : <<n, "profile">> \in promised
                                                         \/ (sess /\ <<n, "session">> \in promised)}])
    /\ UNCHANGED Store

RunLoad(u) ==
    /\ use[u].pc = "load"
    /\ IF \A n \in use[u].names : Loads(n)
       THEN LET ds == UNION {Loaded(n) : n \in use[u].names} IN
            use' = [use EXCEPT ![u].pc = "runs", ![u].def = MergedDefault(ds), ![u].deny = MergedDeny(ds),
                               ![u].doc = UNION {Loaded(n) : n \in use[u].owed}]
       ELSE Finishes(u)
    /\ UNCHANGED Store

RunEnds(u) == use[u].pc = "runs" /\ Finishes(u) /\ UNCHANGED Store

\* A hand edit that spoils a file or the record, and one that mends the record.
Spoil ==
    /\ \/ \E f \in PNames : /\ files[f] # {} /\ files' = [files EXCEPT ![f] = {}]
                            /\ spoilt' = spoilt \cup {f} /\ UNCHANGED attBad
       \/ attBad' = ~attBad /\ UNCHANGED <<files, spoilt>>
    /\ UNCHANGED <<att, use, promised>>

PolicyNext ==
    \/ \E u \in Users, n \in PNames, force \in BOOLEAN :
         Create(u, n, force) \/ Edit(u, n, force) \/ RemoveCheck(u, n, force)
    \/ \E u \in Users, d \in Documents : CreateSave(u, d) \/ EditCheck(u, d)
    \/ \E u \in Users, n \in PNames, b \in Binders : AttachRead(u, n, b) \/ DetachRead(u, n, b)
    \/ \E u \in Users, sess \in BOOLEAN : RunRead(u, sess)
    \/ \E u \in Users : \/ EditorQuits(u) \/ EditWrite(u) \/ RemoveFile(u) \/ SaveRecord(u)
                        \/ RunLoad(u) \/ RunEnds(u)
    \/ Spoil

PolicySpec == PolicyInit /\ [][PolicyNext]_policyVars

-----------------------------------------------------------------------------
\* A run that starts is under every policy that a user was told is bound to it:
\* one whose file was removed, renamed, spoilt or replaced meanwhile is merged as
\* it now reads or the run is refused, never left out, and neither a permissive
\* policy beside it nor the order of the documents weakens its default or its
\* deny rules (merge.go:27-119, attachments.go:35-64).
RunFiltered ==
    \A u \in Users : use[u].pc = "runs" =>
        \A n \in use[u].owed : \E d \in use[u].doc :
            /\ d.name = n
            /\ d.def = "deny" => use[u].def = "deny"
            /\ d.deny \subseteq use[u].deny
=============================================================================
