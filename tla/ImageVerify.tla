---------------------------- MODULE ImageVerify ----------------------------
(***************************************************************************)
(* What brig checks of a sandbox before it boots (internal/wrap/verify.go, *)
(* internal/verify, internal/runtime/boot.go): the image, by digest or by  *)
(* tag while the registry moves the tag; the kernel and the initrd, which  *)
(* several runs fetch into one directory and compare with a bundle whose   *)
(* signature verified; and the record of an installed runtime bundle.      *)
(*                                                                         *)
(* Digests and bundles are numbers; 0 is none.  A file is named by the     *)
(* bundle it is from.                                                      *)
(***************************************************************************)
EXTENDS Naturals

CONSTANTS
    Boots,     \* runs that share the directory of the boot files
    Digests,   \* digests that the image's tag may name
    Signed,    \* those that the publisher signed
    Bundles,   \* boot bundles, all signed
    Own        \* a build of the user's own

ASSUME ImageAssumption == 0 \notin Digests \cup Bundles

VARIABLES
    im,      \* a run and its image
    tagB,    \* the bundle that the registry serves
    kern,    \* the kernel in the directory
    initrd,  \* the initrd in the directory
    prov,    \* provenance.json: [d, k, i], at most one
    bt,      \* the runs and their boot files
    rcd      \* a run on an installed runtime bundle

kernelVars == <<tagB, kern, initrd, prov, bt>>
imageVars == <<im, kernelVars, rcd>>

Modes == {"off", "warn", "require"}

-----------------------------------------------------------------------------
\* The image.  The outcomes are those of internal/verify.

NoImage == [pc |-> "start", mode |-> "off", pins |-> TRUE, ours |-> FALSE, tag |-> 0, localCopy |-> 0,
            digest |-> 0, out |-> "none", warned |-> FALSE, asked |-> FALSE, said |-> FALSE,
            booted |-> 0]

ImageStart ==
    /\ im.pc = "start"
    /\ \E mode \in Modes, pins, ours \in BOOLEAN, tag \in Digests, l \in Digests \cup {0} :
         im' = [im EXCEPT !.pc = IF mode = "off" THEN "boot" ELSE "look", !.mode = mode, !.pins = pins, !.ours = ours,
                          !.tag = tag, !.localCopy = l]

\* The registry serves another digest under the tag.
TagMoves ==
    /\ im.pc \notin {"start", "end"}
    /\ \E d \in Digests \ {im.tag} : im' = [im EXCEPT !.tag = d]

\* Image and Verify up to the digest: not brig's registry, no cosign, no answer.
Resolve ==
    /\ im.pc = "look"
    /\ \/ ~im.ours /\ im' = [im EXCEPT !.pc = "decide", !.out = "NotOurs"]
       \/ im.ours /\ im' = [im EXCEPT !.pc = "decide", !.out = "NoTooling"]
       \/ im.ours /\ im.pins /\ im' = [im EXCEPT !.pc = "decide", !.out = "Unresolved"]
       \/ im.ours /\ im' = [im EXCEPT !.pc = "cosign", !.digest = IF im.pins THEN im.tag ELSE 0]

\* cosign verifies the digest that was resolved, or what the tag names now; the
\* local copy is compared with what verified.  A cosign that hangs has failed.
Cosign ==
    /\ im.pc = "cosign"
    /\ LET subject == IF im.pins THEN im.digest ELSE im.tag
           out == IF subject \notin Signed THEN "Failed"
                  ELSE IF im.pins /\ im.localCopy \notin {0, im.digest} THEN "Mismatch" ELSE "Verified"
       IN  \/ im' = [im EXCEPT !.pc = "decide", !.out = out]
           \/ im' = [im EXCEPT !.pc = "decide", !.out = "Failed"]

\* BRIG_VERIFY=require boots nothing but what verified.
Refused(i) == i.mode = "require" /\ i.out # "Verified"

\* confirm: the user is asked, and a run without a terminal answers no.
Asks(i) == i.out \in {"Failed", "Unresolved", "Mismatch"}

\* verifyTag and verifyDigest.  A registry that brig does not sign for, and a host
\* without cosign, are warned of; of the rest the user is asked.  The digest is
\* booted as it was resolved.
Decide ==
    /\ im.pc = "decide"
    /\ LET told == [im EXCEPT !.warned = im.out # "Verified", !.said = im.out = "Verified"]
       IN  \/ Refused(im) /\ im' = [told EXCEPT !.pc = "end"]
           \/ ~Refused(im) /\ ~Asks(im) /\ im' = [told EXCEPT !.pc = "boot"]
           \/ ~Refused(im) /\ Asks(im) /\ \E yes \in BOOLEAN :
                im' = [told EXCEPT !.pc = IF yes THEN "boot" ELSE "end", !.asked = yes]

\* The runtime boots the digest, or else the copy that it has or pulls by the tag.
BootImage ==
    /\ im.pc = "boot"
    /\ im' = [im EXCEPT !.pc = "end",
                !.booted = IF im.digest # 0 THEN im.digest ELSE IF im.localCopy # 0 THEN im.localCopy ELSE im.tag]

ImageNext == ImageStart \/ TagMoves \/ Resolve \/ Cosign \/ Decide \/ BootImage

-----------------------------------------------------------------------------
\* Kernel and initrd.

NoBoot == [pc |-> "idle", mode |-> "off", want |-> 0, ref |-> 0, again |-> FALSE, list |-> {}, fallback |-> FALSE,
           same |-> TRUE, warned |-> FALSE, said |-> FALSE, got |-> <<0, 0>>]

KernelInit ==
    /\ tagB \in Bundles
    /\ \/ kern = 0 /\ initrd = 0 /\ prov = {}
       \/ \E b \in Bundles : kern = b /\ initrd = b /\ prov \in {{}, {[d |-> b, k |-> b, i |-> b]}}
       \/ kern = Own /\ initrd = Own /\ prov \in {{}} \cup {{[d |-> b, k |-> Own, i |-> Own]} : b \in Bundles}
    /\ bt = [r \in Boots |-> NoBoot]

Moves(r, s) == bt' = [bt EXCEPT ![r] = s]
Files == <<kern, initrd, prov>>

Release == \E b \in Bundles \ {tagB} : tagB' = b /\ UNCHANGED <<kern, initrd, prov, bt>>

\* verifyBootAssets: the bundle that the tag names is verified by its digest.  Not
\* brig's, no cosign and no answer are warned of; a failed signature is refused.
VerifyBoot(r) ==
    /\ bt[r] = NoBoot
    /\ \E mode \in {"warn", "require"} :
         \/ Moves(r, [NoBoot EXCEPT !.pc = "resolve", !.mode = mode, !.want = tagB])
         \/ mode = "warn" /\ Moves(r, [NoBoot EXCEPT !.pc = "resolve", !.mode = mode, !.warned = TRUE])
    /\ UNCHANGED <<tagB, Files>>

\* replaceBootArtifacts: files that are there are taken, or else fetched, by the
\* digest that verified or by the tag.
ResolveFiles(r) ==
    /\ bt[r].pc = "resolve"
    /\ LET ref == IF bt[r].want # 0 THEN bt[r].want ELSE tagB IN
       Moves(r, [bt[r] EXCEPT !.pc = IF kern # 0 /\ initrd # 0 THEN "list" ELSE "kernel", !.ref = ref])
    /\ UNCHANGED <<tagB, Files>>

\* orasPull, file by file; a fetch that fails or is killed leaves what it wrote.
PullKernel(r) ==
    /\ bt[r].pc = "kernel"
    /\ kern' = bt[r].ref /\ Moves(r, [bt[r] EXCEPT !.pc = "initrd"])
    /\ UNCHANGED <<tagB, initrd, prov>>
PullInitrd(r) ==
    /\ bt[r].pc = "initrd"
    /\ initrd' = bt[r].ref /\ Moves(r, [bt[r] EXCEPT !.pc = "record"])
    /\ UNCHANGED <<tagB, kern, prov>>
PullFails(r) ==
    /\ bt[r].pc \in {"kernel", "initrd", "record"}
    /\ Moves(r, NoBoot) /\ UNCHANGED <<tagB, Files>>

\* writeFetchRecord: what the files are now, under the digest of the fetch.
WriteRecord(r) ==
    /\ bt[r].pc = "record"
    /\ prov' = IF bt[r].want # 0 THEN {[d |-> bt[r].want, k |-> kern, i |-> initrd]} ELSE {}
    /\ Moves(r, [bt[r] EXCEPT !.pc = "list"])
    /\ UNCHANGED <<tagB, kern, initrd>>

\* Changed form of Unread: what the record beside the files lists vouches for them.
UnreadNever(b) == FALSE

\* The list is not the registry's.
Unread(b) == b.fallback

\* bootDigestsUnread: BRIG_VERIFY=require refuses, warn boots and says so.
WithoutCheck(r) ==
    Moves(r, IF bt[r].mode = "require" THEN NoBoot ELSE [bt[r] EXCEPT !.pc = "boot", !.warned = TRUE])

\* staleBundle: an older bundle that brig fetched, whole.
staleBundle(r) == \E p \in prov : p.d # bt[r].want /\ kern = p.k /\ initrd = p.i

\* The files differ: an older bundle is fetched again once, anything else refused.
Differs(r) ==
    Moves(r, IF ~bt[r].again /\ staleBundle(r)
            THEN [bt[r] EXCEPT !.pc = "kernel", !.ref = bt[r].want, !.again = TRUE, !.same = TRUE] ELSE NoBoot)

\* BundleDigests: the layers of the manifest, which is checked against the digest.
Manifest(d) == {<<d, d>>}
\* ProvenanceDigests: the record, when it is of that bundle.
Recorded(d) == {<<p.k, p.i>> : p \in {q \in prov : q.d = d}}

\* expectedBootDigests: the registry's manifest of the digest; when it cannot be
\* read, the record, unless that names another bundle.
ReadList(r) ==
    /\ bt[r].pc = "list"
    /\ \/ bt[r].want = 0 /\ Moves(r, [bt[r] EXCEPT !.pc = "boot"])
       \/ bt[r].want # 0 /\ Moves(r, [bt[r] EXCEPT !.pc = "read", !.list = Manifest(bt[r].want), !.fallback = FALSE])
       \/ bt[r].want # 0 /\ prov = {} /\ WithoutCheck(r)
       \/ bt[r].want # 0 /\ prov # {} /\ Recorded(bt[r].want) = {} /\ Differs(r)
       \/ Recorded(bt[r].want) # {} /\ Moves(r, [bt[r] EXCEPT !.pc = "read", !.list = Recorded(bt[r].want), !.fallback = TRUE])
    /\ UNCHANGED <<tagB, Files>>

\* compareBootDigests, one file after the other.
ReadKernel(r) ==
    /\ bt[r].pc = "read"
    /\ Moves(r, [bt[r] EXCEPT !.pc = "compare", !.same = \E e \in bt[r].list : e[1] = kern])
    /\ UNCHANGED <<tagB, Files>>
CompareFiles(r) ==
    /\ bt[r].pc = "compare"
    /\ LET same == bt[r].same /\ \E e \in bt[r].list : e[2] = initrd IN
       \/ ~same /\ Differs(r)
       \/ same /\ Unread(bt[r]) /\ WithoutCheck(r)
       \/ same /\ ~Unread(bt[r]) /\ Moves(r, [bt[r] EXCEPT !.pc = "boot", !.said = TRUE])
    /\ UNCHANGED <<tagB, Files>>

BootFiles(r) ==
    /\ bt[r].pc = "boot"
    /\ Moves(r, [bt[r] EXCEPT !.pc = "booted", !.list = {}, !.got = <<kern, initrd>>])
    /\ UNCHANGED <<tagB, Files>>

KernelNext ==
    \/ Release
    \/ \E r \in Boots : \/ VerifyBoot(r) \/ ResolveFiles(r) \/ PullKernel(r) \/ PullInitrd(r) \/ PullFails(r)
                        \/ WriteRecord(r) \/ ReadList(r) \/ ReadKernel(r) \/ CompareFiles(r) \/ BootFiles(r)

-----------------------------------------------------------------------------
\* ReadBundleRecord and Blob: the record in the release's list, then the signature
\* on the list.
RecordVerdict(b) ==
    IF ~b.beside \/ ~b.parses THEN "unread"
    ELSE IF ~b.match \/ ~b.listed \/ b.sig = "Failed" THEN "differs"
    ELSE IF b.sig = "Verified" THEN "verified" ELSE "unread"

\* checkBundleRecord: first the files, which are beside the record and are what it
\* lists.  What differs is refused in every mode.
RecordTry ==
    /\ rcd.at = "none"
    /\ \E mode \in {"warn", "require"},
          b \in [beside : BOOLEAN, parses : BOOLEAN, match : BOOLEAN, listed : BOOLEAN,
                sig : {"Verified", "NoTooling", "Unresolved", "Failed"}] :
         rcd' = [at |-> "tried", mode |-> mode, good |-> b.match /\ b.listed /\ b.sig = "Verified",
                 differs |-> b.beside /\ b.parses /\ ~(b.match /\ b.listed),
                 boots |-> RecordVerdict(b) = "verified" \/ (RecordVerdict(b) = "unread" /\ mode = "warn"),
                 said |-> RecordVerdict(b) = "verified"]

ImageInit ==
    /\ im = NoImage /\ KernelInit
    /\ rcd = [at |-> "none", mode |-> "warn", good |-> FALSE, differs |-> FALSE, boots |-> FALSE, said |-> FALSE]

-----------------------------------------------------------------------------
\* What boots is what brig says of it.  Under BRIG_VERIFY=require, or when the run
\* said that the image verified, a runtime that boots by digest boots one that the
\* publisher signed, whatever the tag and the local copy became meanwhile; a run
\* that warns boots an image whose signature failed only after it asked
\* (verify.go:159-267).  The kernel and the initrd that a run boots are files of
\* signed bundles unless it warned, though runs fetch, replace and record them at
\* once and a fetch stops half way (verify.go:480-562); and a runtime bundle
\* whose record does not vouch for it is never called verified, nor booted when
\* it differs (verify.go:719-809).
BootsVerified ==
    /\ im.booted # 0 =>
         /\ im.pins /\ (im.mode = "require" \/ im.said) => im.booted \in Signed
         /\ im.mode # "off" /\ ~im.said => im.warned
         /\ im.ours /\ im.mode = "warn" /\ im.out = "Failed" => im.asked
    /\ \A r \in Boots : bt[r].pc = "booted" /\ ~bt[r].warned => bt[r].got \in Bundles \X Bundles
    /\ rcd.said \/ (rcd.boots /\ rcd.mode = "require") => rcd.good
    /\ rcd.boots => ~rcd.differs
=============================================================================
