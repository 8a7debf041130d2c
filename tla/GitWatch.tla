------------------------------ MODULE GitWatch ------------------------------
(***************************************************************************)
(* The look that brig takes at the .git of a session's project             *)
(* (internal/wrap/gitwatch.go).  git on the host runs programs that .git   *)
(* names, and the sandbox can write there; each command on the session     *)
(* reads the watched paths one by one, while the guest may write, compares *)
(* them with the look before, warns, and only then records the new look.   *)
(*                                                                         *)
(* One sandbox, whose commands do not overlap; brig may be killed at every *)
(* step.  A path holds a content: none, or [size, id].                     *)
(***************************************************************************)
EXTENDS Naturals, Sequences

CONSTANTS
    Projects,    \* directories of the host
    Contents,    \* what a file may hold: [size, id]
    Budget,      \* bytes that one look may hash (maxGitWatchBytes)
    MaxGuest     \* bound on the writes of the guest and the user

ASSUME GitAssumption ==
    /\ "none" \notin Projects
    /\ Contents \subseteq [size : Nat, id : Nat]
    /\ Budget \in Nat

VARIABLES
    tree,    \* by project and path: at most one content
    gone,    \* the projects that the user deleted
    shared,  \* the project that the running sandbox has, at most one
    entry,   \* git-watch.json: [project, files], at most one
    gw,      \* the command
    heard,   \* <<project, path, content>>: there at a first look, or named since
    guest    \* writes so far

gitVars == <<tree, gone, shared, entry, gw, heard, guest>>

\* The watched paths in the order of the look: .git/config, a hook in .git/hooks,
\* and a hook in the directory that core.hooksPath of that config names.
Paths == <<"config", "hook", "tree">>
PathSet == {"config", "hook", "tree"}
\* The content of .git/config that sets core.hooksPath to the working tree.
HooksPath == [size |-> 1, id |-> 2]

Idle == [pc |-> "idle", verb |-> "none", quiet |-> FALSE, project |-> "none", at |-> "none", i |-> 1,
         left |-> Budget, look |-> {}, first |-> FALSE, changed |-> {}]

GitInit ==
    /\ tree = [p \in Projects |-> [q \in PathSet |-> {}]]
    /\ gone = {} /\ shared = {} /\ entry = {} /\ gw = Idle /\ heard = {} /\ guest = 0

-----------------------------------------------------------------------------
\* The guest and the user.

GuestWrites ==
    /\ guest < MaxGuest /\ guest' = guest + 1
    /\ \E p \in shared \ gone, q \in PathSet : \E c \in {{}} \cup {{x} : x \in Contents} :
         tree[p][q] # c /\ tree' = [tree EXCEPT ![p][q] = c]
    /\ UNCHANGED <<gone, shared, entry, gw, heard>>

\* The user deletes a project, or makes it again, empty.
UserDeletes ==
    /\ guest < MaxGuest /\ guest' = guest + 1
    /\ \E p \in Projects :
         /\ gone' = IF p \in gone THEN gone \ {p} ELSE gone \cup {p}
         /\ tree' = [tree EXCEPT ![p] = [q \in PathSet |-> {}]]
    /\ UNCHANGED <<shared, entry, gw, heard>>

-----------------------------------------------------------------------------
\* A command on the session: a run, a stop or a removal, with or without -q.

Prev == IF entry = {} THEN "none" ELSE (CHOOSE e \in entry : TRUE).project

Command ==
    /\ gw.pc = "idle"
    /\ \E verb \in {"run", "rm"}, quiet \in BOOLEAN, named \in Projects \cup {"none"} :
         /\ verb = "rm" => named = "none" /\ shared # {}
         /\ LET project == IF named = "none" THEN Prev ELSE named
                at == IF Prev \in Projects \ gone THEN Prev ELSE project
            IN  gw' = [Idle EXCEPT !.pc = IF project = "none" THEN "act" ELSE IF at \in gone THEN "forget" ELSE "look",
                         !.verb = verb, !.quiet = quiet, !.project = project, !.at = at, !.first = at # Prev]
    /\ UNCHANGED <<tree, gone, shared, entry, heard, guest>>

\* describe: a file is hashed whole, or recorded by its size.
Described(c) == IF c.size <= gw.left THEN [size |-> c.size, id |-> c.id] ELSE [size |-> c.size, id |-> 0]

\* hooksPathInProject: the config as it is now, which may not be what was described.
Watched(q) == q = "tree" => tree[gw.at]["config"] = {HooksPath}

\* snapshotProjectGit, one path; what is not there is left out.
LookAt ==
    /\ gw.pc = "look" /\ gw.i <= Len(Paths)
    /\ LET q == Paths[gw.i]
           seen == IF Watched(q) THEN tree[gw.at][q] ELSE {}
       IN  gw' = [gw EXCEPT !.i = @ + 1, !.look = @ \cup {<<q, Described(c), c>> : c \in seen},
                     !.left = IF \E c \in seen : c.size <= gw.left THEN @ - (CHOOSE c \in seen : TRUE).size ELSE @]
    /\ UNCHANGED <<tree, gone, shared, entry, heard, guest>>

\* The look fails: a path that cannot be read.  The command goes on without it.
LookFails ==
    /\ gw.pc = "look"
    /\ gw' = [gw EXCEPT !.pc = "act"]
    /\ UNCHANGED <<tree, gone, shared, entry, heard, guest>>

LookFiles == {<<l[1], l[2]>> : l \in gw.look}

\* diffGitWatch: paths that were added, removed, or are recorded otherwise.
Changes ==
    UNION {{f[1] : f \in (e.files \ LookFiles) \cup (LookFiles \ e.files)} : e \in entry}

\* Changed form of Silent: a command that may not warn records what it saw.
SilentNever(changes) == FALSE

\* -q and --json silence warnings, and the baseline then stays.
Silent(changes) == changes # {} /\ gw.quiet

\* CheckProjectGit after the look: the warning is printed before the look is
\* recorded, and a session that moves looks at its new project next.
Compare ==
    /\ gw.pc = "look" /\ gw.i > Len(Paths)
    /\ LET changes == IF gw.first THEN {} ELSE Changes
           moves == gw.at # gw.project
       IN  \/ /\ Silent(changes)
              /\ gw' = [gw EXCEPT !.pc = "act"] /\ UNCHANGED heard
           \/ /\ ~Silent(changes)
              /\ heard' = heard \cup
                   {<<gw.at, l[1], l[3]>> : l \in {k \in gw.look : gw.first \/ (k[1] \in changes /\ ~gw.quiet)}}
              /\ gw' = IF moves /\ gw.project \in gone THEN [gw EXCEPT !.pc = "forget"]
                       ELSE IF moves THEN [gw EXCEPT !.at = gw.project, !.i = 1, !.left = Budget, !.look = {}, !.first = TRUE]
                       ELSE [gw EXCEPT !.pc = IF gw.first \/ changes # {} THEN "record" ELSE "act"]
    /\ UNCHANGED <<tree, gone, shared, entry, guest>>

\* recordGitWatch; a write that fails is warned of, and the old look stays.
Record ==
    /\ gw.pc = "record"
    /\ entry' \in {entry, {[project |-> gw.project, files |-> LookFiles]}}
    /\ gw' = [gw EXCEPT !.pc = "act"]
    /\ UNCHANGED <<tree, gone, shared, heard, guest>>

\* A project that is gone has nothing left to look at, and its look is dropped.
Forget ==
    /\ gw.pc = "forget" /\ entry' = {} /\ gw' = [gw EXCEPT !.pc = "act"]
    /\ UNCHANGED <<tree, gone, shared, heard, guest>>

\* The verb itself.  A run boots the sandbox with the project; a removal stops it
\* and forgets the look (forgetGitWatch).
Act ==
    /\ gw.pc = "act"
    /\ IF gw.verb = "rm" THEN shared' = {} /\ entry' = {}
       ELSE shared' = (IF gw.project \in gone \cup {"none"} THEN shared ELSE {gw.project}) /\ UNCHANGED entry
    /\ gw' = Idle
    /\ UNCHANGED <<tree, gone, heard, guest>>

Killed ==
    /\ gw.pc # "idle" /\ gw' = Idle
    /\ UNCHANGED <<tree, gone, shared, entry, heard, guest>>

GitNext ==
    \/ GuestWrites \/ UserDeletes \/ Command \/ LookAt \/ LookFails \/ Compare \/ Record \/ Forget \/ Act \/ Killed

-----------------------------------------------------------------------------
\* A change is named before it is taken for granted.  Whatever the look holds of a
\* path of the session's project was there at the first look or has been named in
\* a warning that was printed: a quiet command, a failed write, a crash between
\* the warning and the record, and a session that moves to another project and
\* back never make a file that the guest wrote part of the baseline unheard.  The
\* look tells two contents of one size apart unless it ran out of its bytes
\* (gitwatch.go:109-169).
ChangeIsHeard ==
    \A e \in entry : \A q \in PathSet, c \in Contents :
        <<e.project, q, c>> \notin heard =>
            \A f \in e.files : f[1] = q /\ f[2].size = c.size => f[2].id # c.id \/ f[2].id = 0
=============================================================================
