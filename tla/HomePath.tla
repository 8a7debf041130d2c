----------------------------- MODULE HomePath -----------------------------
(***************************************************************************)
(* How brig reaches the home of a sandbox and writes in it                 *)
(* (internal/wrap/rootio.go, workspace.go): the path T/a/w is checked,     *)
(* created, walked with the directory above each name held open, and       *)
(* compared with what the whole path names; files are then read and        *)
(* written below the open directory, and before the boot the path is       *)
(* walked and compared once more.  Meanwhile a process of the same user,   *)
(* which a sandbox may be, renames, replaces and links what it can write.  *)
(*                                                                         *)
(* T is the last directory above the home that the user may not be able to *)
(* write.  The home holds one file, f.                                     *)
(***************************************************************************)
EXTENDS Naturals

CONSTANTS MaxMoves  \* bound on the moves of the other process

VARIABLES
    ent,     \* the entries: by directory and name
    ours,    \* T is the user's to write
    wk,      \* brig: where it is
    wrote,   \* the directories in which brig wrote files, and the files outside
    named,   \* the real entries that there ever were: <<directory, name, directory>>
    moves    \* moves so far

homeVars == <<ent, ours, wk, wrote, named, moves>>

\* A and B may be the directory a; W and U the directory w; X is elsewhere and has
\* a w of its own, V is a file elsewhere.  U is in A under another name too.
Entry(k, to) == [k |-> k, to |-> to]
None == Entry("none", "-")
DirEntry(d) == Entry("dir", d)
Link(d) == Entry("link", d)

Slots == {<<"T", "a">>, <<"A", "w">>, <<"B", "w">>, <<"X", "w">>, <<"W", "f">>, <<"U", "f">>}
EntryKinds(s) ==
    IF s = <<"T", "a">> THEN {None, DirEntry("A"), DirEntry("B"), Link("X")}
    ELSE IF s \in {<<"A", "w">>, <<"B", "w">>} THEN {None, DirEntry("W"), Link("U"), Link("X"), Entry("file", "-")}
    ELSE IF s = <<"X", "w">> THEN {None, DirEntry("X")}
    ELSE {None, Entry("file", "guest"), Link("V"), Entry("pipe", "-")}

Start == [pc |-> "check", again |-> FALSE, held |-> "-", saw |-> "-", seen |-> "-", handed |-> "-"]

HomeInit ==
    /\ ours \in BOOLEAN
    /\ ent = [s \in Slots |-> IF s = <<"T", "a">> THEN (IF ours THEN DirEntry("A") ELSE Link("B"))
                              ELSE IF s = <<"X", "w">> THEN DirEntry("X") ELSE None]
    /\ wk = Start /\ wrote = {} /\ moves = 0
    /\ named = {<<s[1], s[2], ent[s].to>> : s \in {t \in Slots : ent[t].k = "dir"}}

-----------------------------------------------------------------------------
\* The other process.

Remember == named' = named \cup {<<s[1], s[2], ent'[s].to>> : s \in {t \in Slots : ent'[t].k = "dir"}}

Move ==
    /\ moves < MaxMoves /\ moves' = moves + 1
    /\ \E s \in Slots \ (IF ours THEN {<<"X", "w">>} ELSE {<<"T", "a">>, <<"X", "w">>}) :
         \E e \in EntryKinds(s) \ {ent[s]} : ent' = [ent EXCEPT ![s] = e]
    /\ Remember /\ UNCHANGED <<ours, wk, wrote>>

-----------------------------------------------------------------------------
\* Names.

At(d, n) == IF <<d, n>> \in Slots THEN ent[<<d, n>>] ELSE None
\* What the kernel makes of a name, links followed.
Follow(d, n) == IF At(d, n).k \in {"dir", "link"} THEN At(d, n).to ELSE "-"
WholePath == IF Follow("T", "a") = "-" THEN "-" ELSE Follow(Follow("T", "a"), "w")

\* trustedPrefix: names in directories that the user cannot write are opened in one
\* go, whatever links are there.  The home itself is never one of them.
Prefix == IF ours THEN "T" ELSE Follow("T", "a")
FirstName == IF ours THEN "a" ELSE "w"

Goto(pc) == wk' = [wk EXCEPT !.pc = pc]
Refuse == wk' = [wk EXCEPT !.pc = "refused", !.held = "-"]

\* checkWorkspacePathBeforeCreate, then MkdirAll, which follows links.
PathOK ==
    /\ ours => At("T", "a").k \in {"dir", "none"}
    /\ At(Follow("T", "a"), "w").k \in {"dir", "none"}

CheckPath ==
    /\ wk.pc = "check"
    /\ IF PathOK THEN Goto("mkdir") ELSE Refuse
    /\ UNCHANGED <<ent, ours, wrote, named, moves>>

MakePath ==
    /\ wk.pc = "mkdir"
    /\ LET up == IF Follow("T", "a") = "-" THEN "A" ELSE Follow("T", "a")
           e == IF At("T", "a") = None THEN [ent EXCEPT ![<<"T", "a">>] = DirEntry("A")] ELSE ent
       IN  /\ ent' = IF e[<<up, "w">>] = None THEN [e EXCEPT ![<<up, "w">>] = DirEntry(IF up = "X" THEN "X" ELSE "W")] ELSE e
           /\ wk' = [wk EXCEPT !.pc = "look", !.held = Prefix, !.saw = FirstName]
    /\ Remember /\ UNCHANGED <<ours, wrote, moves>>

\* openPathHandle: look at a name in the directory held, refuse all but a directory.
Look ==
    /\ wk.pc = "look"
    /\ LET e == At(wk.held, wk.saw) IN
       IF e.k = "dir" THEN wk' = [wk EXCEPT !.pc = "open", !.seen = e.to] ELSE Refuse
    /\ UNCHANGED <<ent, ours, wrote, named, moves>>

\* Changed form of SameDir: what was opened is not compared with what was seen.
AnyDir(opened) == TRUE

\* os.SameFile of the look and the open.
SameDir(opened) == opened = wk.seen

\* The open stays below the directory held: it follows a link only to a directory
\* inside (U is inside A), and fails on one that leads out.
OpenName ==
    /\ wk.pc = "open"
    /\ LET e == At(wk.held, wk.saw)
           inside == e.k = "dir" \/ (e.k = "link" /\ e.to = "U" /\ wk.held = "A")
       IN  IF ~inside \/ ~SameDir(e.to) THEN Refuse
           ELSE wk' = [wk EXCEPT !.held = e.to, !.saw = "w", !.pc = IF wk.saw = "a" THEN "look" ELSE "whole"]
    /\ UNCHANGED <<ent, ours, wrote, named, moves>>

\* The whole path still names what is held.
CheckWhole ==
    /\ wk.pc = "whole"
    /\ IF WholePath # wk.held THEN Refuse
       ELSE Goto(IF wk.again THEN "still" ELSE "exists")
    /\ UNCHANGED <<ent, ours, wrote, named, moves>>

-----------------------------------------------------------------------------
\* PrepareWorkspace, below the directory held.  A name is looked at first and a link
\* refused (exists); a file that is there is opened, and must be a regular one.

SeedExists ==
    /\ wk.pc = "exists"
    /\ \/ At(wk.held, "f").k = "link" /\ Refuse
       \/ At(wk.held, "f").k \notin {"link", "none"} /\ Goto("marker")
       \/ At(wk.held, "f").k = "none" /\ Goto("write")
    /\ UNCHANGED <<ent, ours, wrote, named, moves>>

\* writeFile: create, or open what has come to be there since; a link that leads
\* out of the home fails, a pipe is refused.
writeFile(next) ==
    LET e == At(wk.held, "f") IN
    \/ /\ e.k \in {"none", "file"} /\ <<wk.held, "f">> \in Slots
       /\ ent' = [ent EXCEPT ![<<wk.held, "f">>] = Entry("file", "brig")]
       /\ wrote' = wrote \cup {wk.held} /\ next
    \/ e.k \in {"link", "pipe"} /\ Refuse /\ UNCHANGED <<ent, wrote>>
    \/ <<wk.held, "f">> \notin Slots /\ wrote' = wrote \cup {wk.held} /\ next /\ UNCHANGED ent

SeedWrite ==
    /\ wk.pc = "write"
    /\ writeFile(Goto("marker"))
    /\ UNCHANGED <<ours, named, moves>>

\* writeIfChanged, readFile and openRegular: the look, the read, the write.
MarkerRead ==
    /\ wk.pc = "marker"
    /\ IF At(wk.held, "f").k \in {"link", "pipe"} THEN Refuse ELSE Goto("rewrite")
    /\ UNCHANGED <<ent, ours, wrote, named, moves>>

MarkerWrite ==
    /\ wk.pc = "rewrite"
    /\ writeFile(wk' = [Start EXCEPT !.again = TRUE])
    /\ UNCHANGED <<ours, named, moves>>

\* EnsureRunning: the path is walked again, and handed over while it names that.
VerifyStillOurs ==
    /\ wk.pc = "still"
    /\ IF WholePath # wk.held THEN Refuse ELSE wk' = [wk EXCEPT !.pc = "handed", !.handed = WholePath]
    /\ UNCHANGED <<ent, ours, wrote, named, moves>>

HomeNext ==
    \/ Move \/ CheckPath \/ MakePath \/ Look \/ OpenName \/ CheckWhole \/ SeedExists \/ SeedWrite
    \/ MarkerRead \/ MarkerWrite \/ VerifyStillOurs

-----------------------------------------------------------------------------
\* Brig writes only in the home that the user named.  However the names on the way
\* change between two looks, a directory in which brig wrote, or which it handed
\* to the runtime, has been the real entry w of a directory that was the real a,
\* or that a's name leads to where nobody can change it; never one that a link of
\* the other process chose, and never a file that a link in the home leads to
\* (rootio.go:224-345, 470-482, 632-733).
HomeIsNamed ==
    \A d \in wrote \cup ({wk.handed} \ {"-"}) :
        \E a \in {"A", "B", "X"} :
            /\ <<a, "w", d>> \in named
            /\ <<"T", "a", a>> \in named \/ (~ours /\ a = Prefix)
=============================================================================
