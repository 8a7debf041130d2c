----------------------------- MODULE GuestFiles -----------------------------
(***************************************************************************)
(* How brig puts a credential into a sandbox as a file                     *)
(* (internal/wrap/secretfiles.go, internal/profile/volumes.go and          *)
(* validate.go).  A profile covers a directory c of the home with memory,  *)
(* or mounts the memory elsewhere (at:), and keeps some directories below  *)
(* it on the host; each run of brig on the sandbox pins, covers, binds     *)
(* back, checks, and writes the files, command by command in the guest.    *)
(* A command may fail and brig may be killed at each of them; the next run *)
(* starts over on what is mounted, perhaps with another profile.           *)
(*                                                                         *)
(* The agent, whom an earlier run started, changes what is in the memory   *)
(* as far as the owners and the modes of its directories let it, at any    *)
(* time: the credential, the directories on the way to it, their modes.    *)
(*                                                                         *)
(* One delivery runs at a time, the guest's user is not root, and the home *)
(* on the host is not changed under a delivery.                            *)
(***************************************************************************)
EXTENDS Naturals, FiniteSets

CONSTANTS
    KeptNames, \* names in c that a profile may keep on the host
    Profiles, \* the profiles of a user, of which the valid ones run
    Pieces    \* commands that one credential takes (MaxFeed)

\* What a profile writes: nothing, or a file <<>> (directly in c) or <<k>>, in the
\* directory k.
FilePaths == {{}, {<<>>}} \cup {{<<k>>} : k \in KeptNames}
ASSUME GuestAssumption == Profiles \subseteq [mem : BOOLEAN, at : BOOLEAN, keep : SUBSET KeptNames, file : FilePaths]

VARIABLES
    gp,       \* the profile: [mem, at, keep, file]
    rt,       \* "hull", or "container", which mounts at create only
    cover,    \* the roots that are memory: of {"home", "at"}
    dirs,     \* of the directories of the memory: what each name leads to, who owns it,
              \* and whether its mode lets others write to it
    bind,     \* binds: from node to node
    src,      \* what each kept name is in the home on the host
    cred,     \* the file at each node in memory
    dv,       \* the delivery
    served,   \* the last delivery succeeded, and nothing has changed since
    spilled   \* a piece of a credential went outside memory by a way that was not Loose

guestFileVars == <<gp, rt, cover, dirs, bind, src, cred, dv, served, spilled>>

-----------------------------------------------------------------------------
\* Profiles.

\* EphemeralPath: below the memory, and in no directory that is kept.
EphemeralPath(p, f) == p.mem /\ \A k \in p.keep : f # <<k>>

\* validateVolumes and validateFiles.
ProfileValid(p) ==
    /\ p.at => p.mem
    /\ p.keep # {} => p.mem
    /\ \A f \in p.file : EphemeralPath(p, f)

-----------------------------------------------------------------------------
\* Paths in the guest, and the nodes that they lead to through the mounts.

Share(x) == <<"share", x>>
Mem(root) == IF root = "home" THEN "home memory" ELSE "at memory"
Base(root) == IF root \in cover THEN Mem(root) ELSE IF root = "home" THEN "share" ELSE "guest"
Node(root, x) == IF <<Base(root), x>> \in DOMAIN bind THEN bind[<<Base(root), x>>] ELSE <<Base(root), x>>
Pin(x) == <<"pin", x>>
InMemory(n) == n[1] \in {"home memory", "at memory"}

\* The directories of the memory: the root <<>>, and those that a path may name.  A
\* name in the root leads to its directory, or by a link away to anything of the
\* agent's, on memory or on the share, or nowhere.
GuestDirs == {"home", "at"} \X (UNION FilePaths)
Closed(root) == [to |-> Mem(root), owner |-> "root", open |-> FALSE]
NoDir == [to |-> "nowhere", owner |-> "root", open |-> FALSE]
Bound(root, f) == f # <<>> /\ <<Base(root), f[1]>> \in DOMAIN bind
FileNode(root, f) ==
    <<IF Bound(root, f) THEN Node(root, f[1])[1] ELSE IF root \in cover THEN dirs[<<root, f>>].to ELSE Base(root), f>>
\* The path's directory is the memory's own.
Here(d) == dirs[d].to = Mem(d[1]) /\ ~Bound(d[1], d[2])
Way(root, f) == {<<root, <<>>>>, <<root, f>>}

\* The agent left a link on the way, or a directory that others may write to.
Loose(root, f) == \E d \in Way(root, f) : dirs[d].open \/ dirs[d].to = "away"

\* mountTarget: where the guest sees c.
mountTarget(p) == IF p.at THEN "at" ELSE "home"
Root == mountTarget(gp)

NoFile == [k |-> "none", n |-> 0]
Nodes == {"home memory", "at memory"} \X (UNION FilePaths)
NoDelivery == [pc |-> "idle", todo |-> {}, n |-> 0, calm |-> FALSE]

\* createTimeVolumes: a container has its mounts from the start.
Mounted(p) ==
    IF rt = "hull" \/ ~p.mem THEN <<{}, <<>>>>
    ELSE <<{mountTarget(p)}, [n \in {<<Mem(mountTarget(p)), k>> : k \in p.keep} |-> Share(n[2])]>>

\* Memory that was just mounted: root's, with the directories that mounts are on.
Fresh(b) == [d \in GuestDirs |-> IF d[2] = <<>> \/ <<Mem(d[1]), d[2][1]>> \in DOMAIN b THEN Closed(d[1]) ELSE NoDir]

Booted(p) ==
    /\ cover' = Mounted(p)[1] /\ bind' = Mounted(p)[2] /\ dirs' = Fresh(Mounted(p)[2])
    /\ cred' = [n \in Nodes |-> NoFile]

GuestFileInit ==
    /\ gp \in {p \in Profiles : ProfileValid(p)} /\ rt \in {"hull", "container"}
    /\ cover = Mounted(gp)[1] /\ bind = Mounted(gp)[2] /\ dirs = Fresh(bind)
    /\ src = [k \in KeptNames |-> "dir"] /\ cred = [n \in Nodes |-> NoFile]
    /\ dv = NoDelivery /\ served = FALSE /\ spilled = FALSE

-----------------------------------------------------------------------------
\* Between deliveries.

\* The user changes the profile and runs again: on the sandbox as it is, or after
\* it was stopped.
EditProfile ==
    /\ dv.pc = "idle"
    /\ \E p \in Profiles : p # gp /\ ProfileValid(p) /\ gp' = p
    /\ served' = FALSE
    /\ UNCHANGED <<rt, cover, dirs, bind, src, cred, dv, spilled>>
Reboot ==
    /\ dv.pc = "idle"
    /\ Booted(gp) /\ served' = FALSE
    /\ UNCHANGED <<gp, rt, src, dv, spilled>>

\* The guest's kernel drops a mount on the home share, whose directory the host
\* replaced.
MountDropped ==
    /\ dv.pc = "idle" /\ "home" \in cover
    /\ cover' = cover \ {"home"}
    /\ bind' = [n \in {m \in DOMAIN bind : m[1] # "home memory"} |-> bind[n]]
    /\ served' = FALSE
    /\ UNCHANGED <<gp, rt, dirs, src, cred, dv, spilled>>

\* The agent changes its home on the host.
HomeChanges ==
    /\ dv.pc = "idle"
    /\ \E k \in KeptNames, e \in {"dir", "other"} : src[k] # e /\ src' = [src EXCEPT ![k] = e]
    /\ served' = FALSE
    /\ UNCHANGED <<gp, rt, cover, dirs, bind, cred, dv, spilled>>

\* At any time, where a file of a profile may go.
WrittenPaths(root) == UNION {p.file : p \in {q \in Profiles : mountTarget(q) = root}}
AgentWrites(d) == Here(d) /\ (dirs[d].owner = "guest" \/ dirs[d].open)
Disturbed == dv' = [dv EXCEPT !.calm = FALSE] /\ served' = FALSE

\* The agent leaves something at the file's own path, in a directory it may write to.
AgentPlants ==
    /\ \E r \in cover, e \in {"none", "file", "link", "dir"} : \E f \in WrittenPaths(r) :
         /\ AgentWrites(<<r, f>>)
         /\ cred' = [cred EXCEPT ![FileNode(r, f)] = [k |-> e, n |-> 0]]
    /\ Disturbed /\ UNCHANGED <<gp, rt, cover, dirs, bind, src, spilled>>

\* It leaves a directory, a link or nothing at a name on the way; a mount stays.
AgentRearranges ==
    /\ \E r \in cover : \E f \in WrittenPaths(r) \ {<<>>} :
         /\ AgentWrites(<<r, <<>>>>) /\ ~Bound(r, f)
         /\ \E to \in {"nowhere", Mem(r), "away"} :
              dirs' = [dirs EXCEPT ![<<r, f>>] = [to |-> to, owner |-> "guest", open |-> FALSE]]
         /\ cred' = [cred EXCEPT ![<<Mem(r), f>>] = NoFile]
    /\ Disturbed /\ UNCHANGED <<gp, rt, cover, bind, src, spilled>>

\* It changes the mode of a directory that is its.
AgentOpens ==
    /\ \E r \in cover : \E f \in WrittenPaths(r) \cup {<<>>} :
         /\ Here(<<r, f>>) /\ dirs[<<r, f>>].owner = "guest"
         /\ dirs' = [dirs EXCEPT ![<<r, f>>].open = ~@]
    /\ Disturbed /\ UNCHANGED <<gp, rt, cover, bind, src, cred, spilled>>

-----------------------------------------------------------------------------
\* One delivery.  A command that fails ends it; brig may be killed too, and the
\* directory is then not handed back.

Doing(pc) == dv.pc = pc
To(pc, todo) == dv' = [dv EXCEPT !.pc = pc, !.todo = todo]
Guest == <<cover, dirs, bind, cred>>
Stop == dv' = NoDelivery /\ UNCHANGED Guest

\* credentialDirs: the directories on the way to the file.  chownGuest: chown leaves
\* the mode, follows a link, and takes of a mount what is mounted.
Target == CHOOSE f \in gp.file : TRUE
credentialDirs == Way(Root, Target)
Chowned(ds, user) ==
    [d \in GuestDirs |-> IF d \in ds /\ Here(d)
                    THEN [to |-> dirs[d].to, owner |-> user, open |-> dirs[d].open] ELSE dirs[d]]

\* The deepest directory is handed back first; brig may fail or be killed before each.
HandBack == \E ds \in {{}, {<<Root, Target>>}, credentialDirs} : dirs' = Chowned(ds, "guest")
GiveUp == dv' = NoDelivery /\ HandBack /\ UNCHANGED <<cover, bind, cred>>

\* ensureTarget: a link or a file where a directory is kept is refused, and what is
\* not there is made.
Prepare ==
    /\ Doing("idle") /\ served' = FALSE
    /\ IF \E k \in gp.keep : src[k] = "other"
       THEN UNCHANGED <<src, dv>>
       ELSE /\ src' = [k \in KeptNames |-> IF k \in gp.keep THEN "dir" ELSE src[k]]
            /\ To(IF gp.mem THEN "table" ELSE "done", {})
    /\ UNCHANGED <<gp, rt, Guest, spilled>>

CommandFails ==
    /\ dv.pc \notin {"idle", "done"}
    /\ IF dv.pc \in {"create", "inspect", "feed"} THEN GiveUp ELSE Stop
    /\ UNCHANGED <<gp, rt, src, served, spilled>>

\* mountVolumes: what is mounted decides what is left to do.  Memory in the home from
\* before the profile said at: cannot be moved.
ReadTable ==
    /\ Doing("table")
    /\ \/ Root \in cover /\ To("check", {}) /\ UNCHANGED Guest
       \/ Root \notin cover /\ gp.at /\ "home" \in cover /\ Stop
       \/ /\ Root \notin cover /\ ~(gp.at /\ "home" \in cover)
          /\ To("pin", IF gp.at THEN {} ELSE {k \in gp.keep : Pin(k) \notin DOMAIN bind}) /\ UNCHANGED Guest
    /\ UNCHANGED <<gp, rt, src, served, spilled>>

\* mount --bind and mount -t tmpfs, by a runtime that lets brig mount.
BindTo(n, from) == bind' = [m \in DOMAIN bind \cup {n} |-> IF m = n THEN from ELSE bind[m]]

PinOne ==
    /\ Doing("pin") /\ rt = "hull"
    /\ \E k \in dv.todo : BindTo(Pin(k), Node("home", k)) /\ To("pin", dv.todo \ {k})
    /\ UNCHANGED <<gp, rt, cover, dirs, src, cred, served, spilled>>
CoverIt ==
    /\ Doing("pin") /\ dv.todo = {} /\ rt = "hull"
    /\ cover' = cover \cup {Root}
    /\ dirs' = [d \in GuestDirs |-> IF d[1] = Root THEN Fresh(<<>>)[d] ELSE dirs[d]]
    /\ cred' = [n \in Nodes |-> IF n[1] = Mem(Root) THEN NoFile ELSE cred[n]]
    /\ To("bind", gp.keep)
    /\ UNCHANGED <<gp, rt, bind, src, served, spilled>>

\* createGuestTarget makes the directory, and the mount goes over it.
createGuestTarget ==
    /\ Doing("bind")
    /\ \E k \in dv.todo : dirs[<<Root, <<k>>>>] = NoDir /\ dirs' = [dirs EXCEPT ![<<Root, <<k>>>>] = Closed(Root)]
    /\ UNCHANGED <<gp, rt, cover, bind, src, cred, dv, served, spilled>>
BindBack ==
    /\ Doing("bind")
    /\ \E k \in dv.todo :
         /\ dirs[<<Root, <<k>>>>] = Closed(Root)
         /\ BindTo(<<Mem(Root), k>>, IF gp.at THEN Node("home", k) ELSE bind[Pin(k)])
         /\ To("bind", dv.todo \ {k})
    /\ UNCHANGED <<gp, rt, cover, dirs, src, cred, served, spilled>>

\* Every kept directory must be mounted by now, whoever mounted it.
CheckMounts ==
    /\ Doing("check") \/ (Doing("bind") /\ dv.todo = {})
    /\ IF \A k \in gp.keep : <<Mem(Root), k>> \in DOMAIN bind THEN To("verify", {}) /\ UNCHANGED Guest ELSE Stop
    /\ UNCHANGED <<gp, rt, src, served, spilled>>

\* verifyVolumes: c is memory and no kept directory is.
VerifyVolumes ==
    /\ Doing("verify")
    /\ \/ (Root \notin cover \/ \E k \in gp.keep : InMemory(Node(Root, k))) /\ Stop
       \/ /\ Root \in cover /\ \A k \in gp.keep : ~InMemory(Node(Root, k))
          /\ dv' = [dv EXCEPT !.pc = IF gp.file = {} THEN "release" ELSE "hold", !.calm = gp.file = {}]
          /\ UNCHANGED Guest
    /\ UNCHANGED <<gp, rt, src, served, spilled>>

\* Changed form of Hold: the directories stay the agent's.
Hold_not ==
    /\ Doing("hold") /\ To(IF Target = <<>> THEN "create" ELSE "way", {})
    /\ UNCHANGED <<gp, rt, Guest, src, served, spilled>>

\* writeSecretFiles: the directories on the way are root's while files are written to
\* them, the shallowest first.  One that is not there fails the run, and those before it
\* stay root's.
Hold ==
    /\ Doing("hold") /\ dirs' = Chowned({<<Root, <<>>>>}, "root")
    /\ To(IF Target = <<>> THEN "create" ELSE "way", {})
    /\ UNCHANGED <<gp, rt, cover, bind, src, cred, served, spilled>>

There == FileNode(Root, Target)
HoldWay ==
    /\ Doing("way")
    /\ IF There[1] = "nowhere" THEN Stop
       ELSE dirs' = Chowned({<<Root, Target>>}, "root") /\ To("create", {}) /\ UNCHANGED <<cover, bind, cred>>
    /\ UNCHANGED <<gp, rt, src, served, spilled>>

\* writeSecretFile: a file or a link that is there is removed and the file made new, by
\* whatever way the path leads; a directory that is there stays.  Out of the memory
\* anything may be there.
CreateFile ==
    /\ Doing("create")
    /\ \/ /\ InMemory(There) /\ cred[There].k # "dir"
          /\ cred' = [cred EXCEPT ![There] = [k |-> "file", n |-> 0]] /\ To("inspect", {})
          /\ UNCHANGED <<cover, dirs, bind>>
       \/ ~InMemory(There) /\ There[1] # "nowhere" /\ To("inspect", {}) /\ UNCHANGED Guest
       \/ (InMemory(There) => cred[There].k = "dir") /\ GiveUp
    /\ UNCHANGED <<gp, rt, src, served, spilled>>

\* Changed form of Safe: what the file is on is not asked.
Safe_anywhere(n) == InMemory(n) => cred[n].k = "file"

\* verifySecretFile: a regular file, on memory.
Safe(n) == InMemory(n) /\ cred[n].k = "file"

InspectFile ==
    /\ Doing("inspect")
    /\ \/ (Safe(There) \/ There[1] = "away") /\ dv' = [dv EXCEPT !.pc = "feed", !.n = 0] /\ UNCHANGED Guest
       \/ ~Safe(There) /\ GiveUp
    /\ UNCHANGED <<gp, rt, src, served, spilled>>

\* One piece is appended to what the path leads to by now, or is lost though the command
\* succeeded.  More than the credential counts as one piece more.
Appended(c) == IF c.k = "link" THEN c ELSE [k |-> "file", n |-> IF c.n > Pieces THEN c.n ELSE c.n + 1]
Feed ==
    /\ Doing("feed") /\ dv.n < Pieces
    /\ dv' = [dv EXCEPT !.n = @ + 1]
    /\ \/ UNCHANGED <<cred, spilled>>
       \/ /\ InMemory(There) /\ cred[There].k # "dir"
          /\ cred' = [cred EXCEPT ![There] = Appended(@)]
          /\ spilled' = (spilled \/ (cred[There].k = "link" /\ ~Loose(Root, Target)))
       \/ /\ ~InMemory(There) /\ There[1] # "nowhere"
          /\ spilled' = (spilled \/ ~Loose(Root, Target)) /\ UNCHANGED cred
    /\ UNCHANGED <<gp, rt, cover, dirs, bind, src, served>>

\* What is no file may have any size.
Entire(n) == cred[n] = [k |-> "file", n |-> Pieces]
CheckSize ==
    /\ Doing("feed") /\ dv.n = Pieces
    /\ \/ /\ InMemory(There) => Entire(There) \/ cred[There].k \in {"link", "dir"}
          /\ dv' = [dv EXCEPT !.pc = "release", !.calm = TRUE] /\ dirs' = Chowned(credentialDirs, "guest")
          /\ UNCHANGED <<cover, bind, cred>>
       \/ (InMemory(There) => ~Entire(There)) /\ GiveUp
    /\ UNCHANGED <<gp, rt, src, served, spilled>>

\* releaseTmpfs: the agent gets the directory.
ReleaseDir ==
    /\ Doing("release") /\ dirs' = Chowned({<<Root, <<>>>>}, "guest") /\ To("done", {})
    /\ UNCHANGED <<gp, rt, cover, bind, src, cred, served, spilled>>
Delivered ==
    /\ Doing("done") /\ dv' = NoDelivery /\ served' = dv.calm
    /\ UNCHANGED <<gp, rt, Guest, src, spilled>>

GuestFileNext ==
    \/ EditProfile \/ Reboot \/ MountDropped \/ HomeChanges \/ AgentPlants \/ AgentRearranges \/ AgentOpens
    \/ Prepare \/ CommandFails \/ ReadTable \/ PinOne \/ CoverIt \/ createGuestTarget \/ BindBack \/ CheckMounts
    \/ VerifyVolumes \/ Hold \/ HoldWay \/ CreateFile \/ InspectFile \/ Feed \/ CheckSize \/ ReleaseDir \/ Delivered

-----------------------------------------------------------------------------
\* A credential stays in memory and the kept state on the host.  However earlier
\* deliveries ended, whatever the profile was when they ran, whatever they left mounted
\* and whatever the agent puts at the credential's path or makes of the directories
\* above it, no piece of a credential goes to the host share or through something of the
\* agent's: unless the agent had left a link in the place of a directory on the way, or
\* had made one writable to others, which brig's taking the directories does not undo.
\* After a delivery that succeeded the file is whole, on memory, with the same
\* exception, and each kept directory leads to the host's own and never to a copy in
\* the memory above it (secretfiles.go:196-374, 396-556).
CredentialInMemory ==
    /\ ~spilled
    /\ served =>
         /\ gp.mem => Root \in cover
         /\ \A k \in gp.keep : Node(Root, k) = Share(k)
         /\ \A f \in gp.file : \/ Loose(Root, f)
                               \/ InMemory(FileNode(Root, f)) /\ Entire(FileNode(Root, f))
=============================================================================
