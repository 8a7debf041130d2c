-------------------------- MODULE DecisionsProofs --------------------------
(***************************************************************************)
(* What TLAPS proves of the decisions that a run and a request rest on,    *)
(* one component after the other; they share no state.  The stores, walks  *)
(* and deliveries (HomePath, GuestFiles, GitWatch, SecretStore,            *)
(* ImageVerify) keep an inductive invariant each, for any number of steps, *)
(* projects, writers, boots and digests.  The decisions that are made once *)
(* (RouteCredential, RouteExpand, RunSecrets) are proved of every input:   *)
(* any document, any definition of a route over a preset, any session that *)
(* a valid profile makes.                                                  *)
(***************************************************************************)
EXTENDS HomePath, GuestFiles, GitWatch, SecretStore, ImageVerify, RouteCredential, RouteExpand, RunSecrets,
        Integers, FiniteSetTheorems, TLAPS

-----------------------------------------------------------------------------
(* The path of a home (HomePath). *)

HomeSpec == HomeInit /\ [][HomeNext]_homeVars

HomePlaces == {"check", "mkdir", "look", "open", "whole", "exists", "write", "marker", "rewrite",
               "still", "handed", "refused"}
Dirs == {"A", "B", "X"}
HomeWords == {"-", "T", "A", "B", "X", "W", "U", "V", "a", "w", "guest", "brig"}
WalkSet == [pc : HomePlaces, again : BOOLEAN, held : HomeWords, saw : HomeWords, seen : HomeWords,
            handed : HomeWords]
EntrySet == [k : {"none", "dir", "link", "file", "pipe"}, to : HomeWords]

(* d is a directory that was the real a, or that a's name leads to for good; a
   home has been the real w of one. *)
Above(d) == d \in Dirs /\ (<<"T", "a", d>> \in named \/ (~ours /\ d = Prefix))
Home(d) == \E a \in Dirs : <<a, "w", d>> \in named /\ Above(a)

(* What is held and seen at a place of the walk. *)
WalkOK ==
    /\ wk.pc \in {"look", "open"} =>
         \/ wk.held = "T" /\ wk.saw = "a" /\ ours
         \/ Above(wk.held) /\ wk.saw = "w"
    /\ wk.pc = "open" => <<wk.held, wk.saw, wk.seen>> \in named
    /\ wk.pc \in {"whole", "exists", "write", "marker", "rewrite", "still"} => Home(wk.held)
    /\ wk.handed # "-" => Home(wk.handed)

HomeInv ==
    /\ wk \in WalkSet
    /\ ours \in BOOLEAN
    /\ ent \in [Slots -> EntrySet]
    /\ ent[<<"T", "a">>] \in EntryKinds(<<"T", "a">>) \cup {Link("B")}
    /\ ~ours => ent[<<"T", "a">>] = Link("B")
    /\ \A s \in Slots : ent[s].k = "dir" => <<s[1], s[2], ent[s].to>> \in named
    /\ \A d \in wrote : Home(d)
    /\ WalkOK

-----------------------------------------------------------------------------
LEMMA PrefixIs == ASSUME HomeInv, ~ours PROVE Prefix = "B"
  BY DEF HomeInv, Prefix, Follow, At, Slots, Link, Entry

(* What was a home stays one: real entries are remembered, and where the user
   cannot write nobody else does. *)
LEMMA HomesStay ==
    ASSUME HomeInv, named \subseteq named', ours' = ours, ~ours => ent'[<<"T", "a">>] = ent[<<"T", "a">>],
           NEW d
    PROVE  (Above(d) => Above(d)') /\ (Home(d) => Home(d)')
<1>1. ASSUME NEW a, Above(a) PROVE Above(a)'
  BY <1>1 DEF HomeInv, Above, Prefix, Follow, At, Slots
<1> QED BY <1>1 DEF Home

(* A step that leaves the entries alone, and the walk as the invariant asks. *)
LEMMA WalkStep ==
    ASSUME HomeInv, UNCHANGED <<ent, ours, named>>,
           wk' \in WalkSet,
           \A d \in wrote' : d \in wrote \/ Home(d),
           WalkOK'
    PROVE  HomeInv'
<1>1. \A d : Home(d) => Home(d)' BY HomesStay DEF HomeInv
<1> QED BY <1>1 DEF HomeInv

LEMMA RefuseStep ==
    ASSUME HomeInv, UNCHANGED <<ent, ours, named, wrote>>, Refuse
    PROVE  HomeInv'
<1>1. wk' \in WalkSet
  BY DEF WalkSet, EntrySet, HomeWords, HomeInv, Refuse, HomePlaces
<1>2. wk'.pc = "refused" /\ wk'.handed = wk.handed BY DEF HomeInv, Refuse
<1>3. \A d : Home(d) => Home(d)' BY HomesStay
<1>4. WalkOK' BY <1>2, <1>3 DEF HomeInv, WalkOK
<1> QED BY <1>1, <1>4, WalkStep

LEMMA GotoStep ==
    ASSUME HomeInv, UNCHANGED <<ent, ours, named>>, NEW pc \in HomePlaces, Goto(pc),
           \A d \in wrote' : d \in wrote \/ Home(d),
           pc \notin {"look", "open"},
           Home(wk.held)
    PROVE  HomeInv'
<1>1. wk' \in WalkSet
  BY DEF WalkSet, EntrySet, HomeWords, HomeInv, Goto
<1>2. wk'.pc = pc /\ wk'.handed = wk.handed /\ wk'.held = wk.held BY DEF HomeInv, Goto
<1>3. \A d : Home(d) => Home(d)' BY HomesStay
<1>4. WalkOK' BY <1>2, <1>3 DEF HomeInv, WalkOK
<1> QED BY <1>1, <1>4, WalkStep

LEMMA MoveInv == ASSUME HomeInv, Move PROVE HomeInv'
<1>1. PICK s \in Slots \ (IF ours THEN {<<"X", "w">>} ELSE {<<"T", "a">>, <<"X", "w">>}) :
        \E e \in EntryKinds(s) \ {ent[s]} : ent' = [ent EXCEPT ![s] = e]
  BY DEF Move
<1>2. PICK e \in EntryKinds(s) : ent' = [ent EXCEPT ![s] = e] BY <1>1
<1>3. /\ named' = named \cup {<<t[1], t[2], ent'[t].to>> : t \in {u \in Slots : ent'[u].k = "dir"}}
      /\ UNCHANGED <<ours, wk, wrote>>
  BY DEF Move, Remember
<1>4. e \in EntrySet BY <1>2 DEF WalkSet, EntrySet, HomeWords, EntryKinds, None, Entry, DirEntry, Link
<1>5. <<"T", "a">> \in Slots BY DEF Slots
<1>6. /\ ent' \in [Slots -> EntrySet]
      /\ ent'[<<"T", "a">>] \in EntryKinds(<<"T", "a">>) \cup {Link("B")}
      /\ ~ours => ent'[<<"T", "a">>] = ent[<<"T", "a">>]
  BY <1>1, <1>2, <1>4, <1>5 DEF HomeInv
<1>7. \A d : (Above(d) => Above(d)') /\ (Home(d) => Home(d)') BY <1>3, <1>6, HomesStay
<1>8. WalkOK' BY <1>3, <1>7 DEF HomeInv, WalkOK
<1>9. \A t \in Slots : ent'[t].k = "dir" => <<t[1], t[2], ent'[t].to>> \in named' BY <1>3
<1>10. (\A d \in wrote : Home(d))' BY <1>3, <1>7 DEF HomeInv
<1>11. ~ours => ent'[<<"T", "a">>] = Link("B") BY <1>6 DEF HomeInv
<1> QED BY <1>3, <1>6, <1>8, <1>9, <1>10, <1>11 DEF HomeInv

LEMMA CheckPathInv == ASSUME HomeInv, CheckPath PROVE HomeInv'
<1>1. CASE Refuse BY <1>1, RefuseStep DEF CheckPath
<1>2. CASE Goto("mkdir")
  <2>1. wk' \in WalkSet
    BY <1>2 DEF WalkSet, EntrySet, HomeWords, HomeInv, Goto, HomePlaces
  <2>2. wk'.pc = "mkdir" /\ wk'.handed = wk.handed BY <1>2 DEF HomeInv, Goto
  <2>3. \A d : Home(d) => Home(d)' BY HomesStay DEF CheckPath
  <2>4. WalkOK' BY <2>2, <2>3 DEF HomeInv, WalkOK
  <2> QED BY <2>1, <2>4, WalkStep DEF CheckPath
<1> QED BY <1>1, <1>2 DEF CheckPath

LEMMA MakePathInv == ASSUME HomeInv, MakePath PROVE HomeInv'
<1> DEFINE up == IF Follow("T", "a") = "-" THEN "A" ELSE Follow("T", "a")
           e == IF At("T", "a") = None THEN [ent EXCEPT ![<<"T", "a">>] = DirEntry("A")] ELSE ent
           w == DirEntry(IF up = "X" THEN "X" ELSE "W")
<1>1. /\ ent' = IF e[<<up, "w">>] = None THEN [e EXCEPT ![<<up, "w">>] = w] ELSE e
      /\ wk' = [wk EXCEPT !.pc = "look", !.held = Prefix, !.saw = FirstName]
      /\ named' = named \cup {<<t[1], t[2], ent'[t].to>> : t \in {u \in Slots : ent'[u].k = "dir"}}
      /\ UNCHANGED <<ours, wrote>>
  BY DEF MakePath, Remember
<1>2. /\ <<"T", "a">> \in Slots /\ <<"T", "a">> # <<up, "w">>
      /\ DirEntry("A") \in EntryKinds(<<"T", "a">>) /\ DirEntry("A") \in EntrySet
      /\ w \in EntrySet
  BY DEF WalkSet, EntrySet, HomeWords, Slots, EntryKinds, DirEntry, Entry
<1>3. /\ e \in [Slots -> EntrySet]
      /\ e[<<"T", "a">>] \in EntryKinds(<<"T", "a">>) \cup {Link("B")}
      /\ ~ours => e[<<"T", "a">>] = ent[<<"T", "a">>]
  BY <1>2 DEF HomeInv, At, Link, None, Entry
<1>4. /\ ent' \in [Slots -> EntrySet]
      /\ ent'[<<"T", "a">>] = e[<<"T", "a">>]
  <2> HIDE DEF e, up, w
  <2>1. CASE e[<<up, "w">>] = None BY <2>1, <1>1, <1>2, <1>3
  <2>2. CASE e[<<up, "w">>] # None BY <2>2, <1>1, <1>3
  <2> QED BY <2>1, <2>2
<1>5. \A d : (Above(d) => Above(d)') /\ (Home(d) => Home(d)') BY <1>1, <1>3, <1>4, HomesStay
<1>6. /\ wk' \in WalkSet
      /\ wk'.pc = "look" /\ wk'.held = Prefix /\ wk'.saw = FirstName /\ wk'.handed = wk.handed
  BY <1>1, PrefixIs DEF WalkSet, EntrySet, HomeWords, HomeInv, HomePlaces, Prefix, FirstName
<1>7. ~ours => Above(Prefix)
  BY PrefixIs DEF Above, Dirs
<1>8. WalkOK'
  <2>1. /\ (wk.held = "T" /\ wk.saw = "a" /\ ours)' \/ (Above(wk.held) /\ wk.saw = "w")'
    BY <1>1, <1>5, <1>6, <1>7 DEF Prefix, FirstName
  <2>2. (wk.handed # "-" => Home(wk.handed))' BY <1>5, <1>6 DEF HomeInv, WalkOK
  <2> QED BY <1>6, <2>1, <2>2 DEF WalkOK
<1>9. (\A d \in wrote : Home(d))' BY <1>1, <1>5 DEF HomeInv
<1> HIDE DEF e, up, w
<1>10. (\A s \in Slots : ent[s].k = "dir" => <<s[1], s[2], ent[s].to>> \in named)' BY <1>1
<1>11. (~ours => ent[<<"T", "a">>] = Link("B"))' BY <1>1, <1>3, <1>4 DEF HomeInv
<1> QED BY <1>1, <1>3, <1>4, <1>6, <1>8, <1>9, <1>10, <1>11 DEF HomeInv

LEMMA LookInv == ASSUME HomeInv, Look PROVE HomeInv'
<1> DEFINE e == At(wk.held, wk.saw)
<1>1. CASE e.k # "dir" BY <1>1, RefuseStep DEF Look
<1>2. CASE e.k = "dir"
  <2>1. wk' = [wk EXCEPT !.pc = "open", !.seen = e.to] BY <1>2 DEF Look
  <2>2. <<wk.held, wk.saw>> \in Slots /\ e = ent[<<wk.held, wk.saw>>]
    BY <1>2 DEF At, None, Entry
  <2>3. <<wk.held, wk.saw, e.to>> \in named /\ e.to \in HomeWords BY <1>2, <2>2 DEF WalkSet, EntrySet, HomeWords, HomeInv
  <2>4. /\ wk' \in WalkSet
        /\ wk'.pc = "open" /\ wk'.held = wk.held /\ wk'.saw = wk.saw /\ wk'.seen = e.to /\ wk'.handed = wk.handed
    BY <2>1, <2>3 DEF WalkSet, EntrySet, HomeWords, HomeInv, HomePlaces
  <2>5. UNCHANGED <<ent, ours, wrote, named>> /\ wk.pc = "look" BY DEF Look
  <2>6. \A d : (Above(d) => Above(d)') /\ (Home(d) => Home(d)') BY <2>5, HomesStay
  <2>7. WalkOK' BY <2>3, <2>4, <2>5, <2>6 DEF HomeInv, WalkOK
  <2> QED BY <2>4, <2>5, <2>7, WalkStep
<1> QED BY <1>1, <1>2

LEMMA OpenNameInv == ASSUME HomeInv, OpenName PROVE HomeInv'
<1> DEFINE e == At(wk.held, wk.saw)
<1>1. CASE Refuse BY <1>1, RefuseStep DEF OpenName
<1>2. CASE ~Refuse
  <2>1. /\ wk' = [wk EXCEPT !.held = e.to, !.saw = "w", !.pc = IF wk.saw = "a" THEN "look" ELSE "whole"]
        /\ e.to = wk.seen /\ (e.k = "dir" \/ e.k = "link")
        /\ wk.pc = "open" /\ UNCHANGED <<ent, ours, wrote, named>>
    BY <1>2 DEF OpenName, SameDir
  <2>2. <<wk.held, wk.saw, e.to>> \in named /\ e.to \in HomeWords BY <2>1 DEF WalkSet, EntrySet, HomeWords, HomeInv, WalkOK
  <2>3. /\ wk' \in WalkSet
        /\ wk'.pc = (IF wk.saw = "a" THEN "look" ELSE "whole") /\ wk'.held = e.to /\ wk'.saw = "w"
        /\ wk'.handed = wk.handed
    BY <2>1, <2>2 DEF WalkSet, EntrySet, HomeWords, HomeInv, HomePlaces
  <2>4. \A d : (Above(d) => Above(d)') /\ (Home(d) => Home(d)') BY <2>1, HomesStay
  <2>5. CASE wk.saw = "a"
    <3>1. wk.held = "T" BY <2>1, <2>5 DEF HomeInv, WalkOK
    <3>2. e \in EntryKinds(<<"T", "a">>) \cup {Link("B")} /\ e.k # "none"
      BY <3>1, <2>1, <2>5 DEF At, Slots, HomeInv
    <3>3. e.to \in Dirs BY <3>2 DEF EntryKinds, None, DirEntry, Link, Entry, Dirs
    <3>4. Above(e.to) BY <3>1, <3>3, <2>2, <2>5 DEF Above
    <3>5. WalkOK' BY <2>3, <2>4, <2>5, <3>4 DEF HomeInv, WalkOK
    <3> QED BY <2>1, <2>3, <3>5, WalkStep
  <2>6. CASE wk.saw # "a"
    <3>1. Above(wk.held) /\ wk.saw = "w" BY <2>1, <2>6 DEF HomeInv, WalkOK
    <3>2. Home(e.to) BY <3>1, <2>2 DEF Home, Above
    <3>3. WalkOK' BY <2>3, <2>4, <2>6, <3>2 DEF HomeInv, WalkOK
    <3> QED BY <2>1, <2>3, <3>3, WalkStep
  <2> QED BY <2>5, <2>6
<1> QED BY <1>1, <1>2

LEMMA CheckWholeInv == ASSUME HomeInv, CheckWhole PROVE HomeInv'
<1>1. CASE Refuse BY <1>1, RefuseStep DEF CheckWhole
<1>2. CASE ~Refuse
  <2>1. Home(wk.held) BY DEF HomeInv, WalkOK, CheckWhole
  <2>2. PICK pc \in {"still", "exists"} : Goto(pc) BY <1>2 DEF CheckWhole
  <2> QED BY <2>1, <2>2, GotoStep DEF CheckWhole, HomePlaces
<1> QED BY <1>1, <1>2

LEMMA SeedExistsInv == ASSUME HomeInv, SeedExists PROVE HomeInv'
<1>1. CASE Refuse BY <1>1, RefuseStep DEF SeedExists
<1>2. CASE ~Refuse
  <2>1. Home(wk.held) BY DEF HomeInv, WalkOK, SeedExists
  <2>2. PICK pc \in {"marker", "write"} : Goto(pc) BY <1>2 DEF SeedExists
  <2> QED BY <2>1, <2>2, GotoStep DEF SeedExists, HomePlaces
<1> QED BY <1>1, <1>2

LEMMA MarkerReadInv == ASSUME HomeInv, MarkerRead PROVE HomeInv'
<1>1. CASE Refuse BY <1>1, RefuseStep DEF MarkerRead
<1>2. CASE ~Refuse
  <2>1. Home(wk.held) BY DEF HomeInv, WalkOK, MarkerRead
  <2>2. Goto("rewrite") BY <1>2 DEF MarkerRead
  <2> QED BY <2>1, <2>2, GotoStep DEF MarkerRead, HomePlaces
<1> QED BY <1>1, <1>2

(* A file that is written below the directory held: no entry of a directory
   changes, and the directory is a home. *)
LEMMA WriteStep ==
    ASSUME HomeInv, Home(wk.held), NEW e, ent' = e, UNCHANGED <<ours, named>>,
           e = ent \/ (<<wk.held, "f">> \in Slots /\ e = [ent EXCEPT ![<<wk.held, "f">>] = Entry("file", "brig")]),
           wrote' = wrote \cup {wk.held},
           wk' \in WalkSet,
           wk'.pc \in {"marker", "check"}, wk'.held = wk.held \/ wk'.pc = "check",
           wk'.handed \in {wk.handed, "-"}
    PROVE  HomeInv'
<1>1. /\ ent' \in [Slots -> EntrySet]
      /\ ent'[<<"T", "a">>] = ent[<<"T", "a">>]
      /\ \A s \in Slots : ent'[s].k = "dir" => ent'[s] = ent[s]
  <2>1. CASE e = ent BY <2>1 DEF HomeInv
  <2>2. CASE <<wk.held, "f">> \in Slots /\ e = [ent EXCEPT ![<<wk.held, "f">>] = Entry("file", "brig")]
    <3>1. Entry("file", "brig") \in EntrySet /\ Entry("file", "brig").k # "dir" BY DEF WalkSet, EntrySet, HomeWords, Entry
    <3>2. <<"T", "a">> # <<wk.held, "f">> OBVIOUS
    <3> QED BY <2>2, <3>1, <3>2 DEF HomeInv, Slots
  <2> QED BY <2>1, <2>2
<1>2. \A d : Home(d) => Home(d)' BY <1>1, HomesStay
<1>3. WalkOK' BY <1>2 DEF HomeInv, WalkOK
<1>4. (\A d \in wrote : Home(d))' BY <1>2 DEF HomeInv
<1>5. (\A s \in Slots : ent[s].k = "dir" => <<s[1], s[2], ent[s].to>> \in named)' BY <1>1 DEF HomeInv
<1> QED BY <1>1, <1>3, <1>4, <1>5 DEF HomeInv

LEMMA SeedWriteInv == ASSUME HomeInv, SeedWrite PROVE HomeInv'
<1>1. CASE Refuse /\ UNCHANGED <<ent, wrote>> BY <1>1, RefuseStep DEF SeedWrite
<1>2. CASE ~(Refuse /\ UNCHANGED <<ent, wrote>>)
  <2>1. Home(wk.held) BY DEF HomeInv, WalkOK, SeedWrite
  <2>2. /\ ent' = ent \/ (<<wk.held, "f">> \in Slots /\ ent' = [ent EXCEPT ![<<wk.held, "f">>] = Entry("file", "brig")])
        /\ wrote' = wrote \cup {wk.held} /\ Goto("marker") /\ UNCHANGED <<ours, named>>
    BY <1>2 DEF SeedWrite, writeFile
  <2>3. /\ wk' \in WalkSet
        /\ wk'.pc = "marker" /\ wk'.held = wk.held /\ wk'.handed = wk.handed
    BY <2>2 DEF WalkSet, EntrySet, HomeWords, HomeInv, Goto, HomePlaces
  <2> QED BY <2>1, <2>2, <2>3, WriteStep
<1> QED BY <1>1, <1>2

LEMMA MarkerWriteInv == ASSUME HomeInv, MarkerWrite PROVE HomeInv'
<1>1. CASE Refuse /\ UNCHANGED <<ent, wrote>> BY <1>1, RefuseStep DEF MarkerWrite
<1>2. CASE ~(Refuse /\ UNCHANGED <<ent, wrote>>)
  <2>1. Home(wk.held) BY DEF HomeInv, WalkOK, MarkerWrite
  <2>2. /\ ent' = ent \/ (<<wk.held, "f">> \in Slots /\ ent' = [ent EXCEPT ![<<wk.held, "f">>] = Entry("file", "brig")])
        /\ wrote' = wrote \cup {wk.held} /\ wk' = [Start EXCEPT !.again = TRUE] /\ UNCHANGED <<ours, named>>
    BY <1>2 DEF MarkerWrite, writeFile
  <2>3. /\ wk' \in WalkSet
        /\ wk'.pc = "check" /\ wk'.handed = "-"
    BY <2>2 DEF WalkSet, EntrySet, HomeWords, Start, HomePlaces
  <2> QED BY <2>1, <2>2, <2>3, WriteStep
<1> QED BY <1>1, <1>2

LEMMA VerifyStillOursInv == ASSUME HomeInv, VerifyStillOurs PROVE HomeInv'
<1>1. CASE Refuse BY <1>1, RefuseStep DEF VerifyStillOurs
<1>2. CASE ~Refuse
  <2>1. Home(wk.held) BY DEF HomeInv, WalkOK, VerifyStillOurs
  <2>2. /\ wk' = [wk EXCEPT !.pc = "handed", !.handed = wk.held] /\ UNCHANGED <<ent, ours, wrote, named>>
    BY <1>2 DEF VerifyStillOurs
  <2>3. /\ wk' \in WalkSet
        /\ wk'.pc = "handed" /\ wk'.handed = wk.held
    BY <2>2 DEF WalkSet, EntrySet, HomeWords, HomeInv, HomePlaces
  <2>4. \A d : Home(d) => Home(d)' BY <2>2, HomesStay
  <2>5. WalkOK' BY <2>1, <2>3, <2>4 DEF WalkOK
  <2> QED BY <2>2, <2>3, <2>5, WalkStep
<1> QED BY <1>1, <1>2

LEMMA HomeInitInv == HomeInit => HomeInv
<1> SUFFICES ASSUME HomeInit PROVE HomeInv OBVIOUS
<1>1. wk = Start /\ wrote = {} /\ ours \in BOOLEAN BY DEF HomeInit
<1>2. <<"T", "a">> \in Slots BY DEF Slots
<1>3. /\ ent \in [Slots -> EntrySet]
      /\ ent[<<"T", "a">>] = IF ours THEN DirEntry("A") ELSE Link("B")
  BY <1>2 DEF WalkSet, EntrySet, HomeWords, HomeInit, DirEntry, Link, None, Entry
<1>4. ent[<<"T", "a">>] \in EntryKinds(<<"T", "a">>) \cup {Link("B")} BY <1>3 DEF EntryKinds
<1>5. \A s \in Slots : ent[s].k = "dir" => <<s[1], s[2], ent[s].to>> \in named BY DEF HomeInit
<1>6. WalkOK BY <1>1 DEF WalkOK, Start
<1> QED BY <1>1, <1>3, <1>4, <1>5, <1>6 DEF WalkSet, EntrySet, HomeWords, HomeInv, Start, HomePlaces

\* However another process moves the names on the way to a home between two looks of
\* brig, the directory in which brig writes, and the one that it hands to the runtime,
\* has been the entry of that name of a directory that was really the one above it:
\* openIn holds each directory that it found, checkWhole and verifyStillOurs compare
\* what is held with what is named (rootio.go:224-345, 470-482, 632-733).
THEOREM HomesNamed == HomeSpec => []HomeIsNamed
<1>1. HomeInv /\ [HomeNext]_homeVars => HomeInv'
  <2> SUFFICES ASSUME HomeInv, [HomeNext]_homeVars PROVE HomeInv' OBVIOUS
  <2>1. CASE UNCHANGED homeVars
    BY <2>1 DEF homeVars, HomeInv, WalkOK, Home, Above, Prefix, Follow, At
  <2> QED BY <2>1, MoveInv, CheckPathInv, MakePathInv, LookInv, OpenNameInv, CheckWholeInv, SeedExistsInv,
             SeedWriteInv, MarkerReadInv, MarkerWriteInv, VerifyStillOursInv DEF HomeNext
<1>2. HomeInv => HomeIsNamed
  BY DEF HomeInv, WalkOK, Home, Above, Dirs, HomeIsNamed
<1> QED BY HomeInitInv, <1>1, <1>2, PTL DEF HomeSpec

-----------------------------------------------------------------------------
(* Files of credentials in a sandbox (GuestFiles). *)

GuestSpec == GuestFileInit /\ [][GuestFileNext]_guestFileVars

DeliveryPlaces == {"idle", "table", "pin", "bind", "check", "verify", "hold", "way", "create", "inspect", "feed",
                   "release", "done"}
DeliverySet == [pc : DeliveryPlaces, todo : SUBSET KeptNames, n : Nat, calm : BOOLEAN]
FileNames == {<<>>} \cup {<<k>> : k \in KeptNames}
NodeSet == {"home memory", "at memory"} \X FileNames
FileKinds == [k : {"none", "file", "link", "dir"}, n : Nat]
DirSet == {"home", "at"} \X FileNames
DirKinds == [to : {"home memory", "at memory", "away", "nowhere"}, owner : {"root", "guest"}, open : BOOLEAN]

(* Whatever is bound leads to the host's own directory of that name. *)
BindOK ==
    /\ DOMAIN bind \subseteq {"pin", "home memory", "at memory"} \X KeptNames
    /\ \A n \in DOMAIN bind : bind[n] = Share(n[2])
(* A name in a root leads into its own memory, away or nowhere; the root is there. *)
DirsOK ==
    \A r \in {"home", "at"}, f \in FileNames :
        /\ dirs[<<r, f>>].to \in {Mem(r), "away", "nowhere"}
        /\ f = <<>> => dirs[<<r, f>>].to = Mem(r)
GuestTypes ==
    /\ gp \in Profiles /\ ProfileValid(gp) /\ rt \in {"hull", "container"}
    /\ cover \subseteq {"home", "at"}
    /\ dirs \in [DirSet -> DirKinds] /\ DirsOK
    /\ cred \in [NodeSet -> FileKinds]
    /\ dv \in DeliverySet
    /\ BindOK

(* The memory is mounted and so is each kept directory in it. *)
Kept == \A k \in gp.keep : <<Mem(Root), k>> \in DOMAIN bind
(* The file is whole, on memory, unless the way to it is loose. *)
WholeFile == \A f \in gp.file : Loose(Root, f) \/ (InMemory(FileNode(Root, f)) /\ Entire(FileNode(Root, f)))
(* The directories on the way are root's, as far as that holds. *)
TopHeld == dirs[<<Root, <<>>>>].owner = "root"
Taken ==
    \/ dirs[<<Root, <<>>>>].open
    \/ ~Here(<<Root, Target>>)
    \/ dirs[<<Root, Target>>].owner = "root"

DeliveryOK ==
    /\ dv.pc \notin {"idle", "done"} => gp.mem
    /\ dv.pc = "pin" =>
         /\ "home" \notin cover
         /\ gp.at => dv.todo = {}
         /\ ~gp.at => \A k \in gp.keep \ dv.todo : Pin(k) \in DOMAIN bind
    /\ dv.pc = "bind" =>
         /\ gp.at => "home" \notin cover
         /\ ~gp.at => \A k \in gp.keep : Pin(k) \in DOMAIN bind
         /\ dv.todo \subseteq gp.keep
    /\ dv.pc = "verify" => Kept
    /\ dv.pc \in {"hold", "way", "create", "inspect", "feed", "release", "done"} /\ gp.mem => Root \in cover /\ Kept
    /\ dv.pc \in {"hold", "way", "create", "inspect", "feed"} => gp.file # {}
    /\ dv.pc \in {"way", "create", "inspect", "feed"} => TopHeld
    /\ dv.pc \in {"create", "inspect", "feed"} => Taken
    /\ dv.pc = "feed" => ~Bound(Root, Target) /\ (Loose(Root, Target) \/ Safe(There))
    /\ dv.pc \in {"release", "done"} /\ dv.calm => WholeFile
    /\ served => dv.pc = "idle" /\ (gp.mem => Root \in cover /\ Kept) /\ WholeFile

GuestInv == GuestTypes /\ DeliveryOK /\ ~spilled

-----------------------------------------------------------------------------
LEMMA PairIn ==
    ASSUME NEW A, NEW B, NEW x \in A, NEW y \in B
    PROVE  <<x, y>> \in A \X B /\ <<x, y>>[1] = x /\ <<x, y>>[2] = y
  OBVIOUS

LEMMA ProfileIs ==
    ASSUME gp \in Profiles
    PROVE  /\ Root \in {"home", "at"} /\ Mem(Root) \in {"home memory", "at memory"}
           /\ gp.mem \in BOOLEAN /\ gp.at \in BOOLEAN /\ gp.keep \subseteq KeptNames
           /\ gp.file = {} \/ \E f \in FileNames : gp.file = {f}
           /\ Root = IF gp.at THEN "at" ELSE "home"
<1>1. gp \in [mem : BOOLEAN, at : BOOLEAN, keep : SUBSET KeptNames, file : FilePaths] BY GuestAssumption
<1> QED BY <1>1 DEF Root, mountTarget, Mem, FilePaths, FileNames

LEMMA NodesAre == Nodes = NodeSet /\ GuestDirs = DirSet
<1>1. UNION FilePaths = FileNames
  <2>1. \A f \in FileNames : \E p \in FilePaths : f \in p BY DEF FilePaths, FileNames
  <2>2. \A p \in FilePaths : \A f \in p : f \in FileNames BY DEF FilePaths, FileNames
  <2> QED BY <2>1, <2>2
<1> QED BY <1>1 DEF Nodes, NodeSet, GuestDirs, DirSet

LEMMA DirIs ==
    ASSUME NEW r \in {"home", "at"}, NEW f \in FileNames
    PROVE  /\ <<r, f>> \in DirSet /\ <<r, f>>[1] = r /\ <<r, f>>[2] = f /\ <<Mem(r), f>> \in NodeSet
           /\ Here(<<r, f>>) <=> dirs[<<r, f>>].to = Mem(r) /\ ~Bound(r, f)
<1>1. Mem(r) \in {"home memory", "at memory"} BY DEF Mem
<1>2. <<r, f>> \in DirSet /\ <<r, f>>[1] = r /\ <<r, f>>[2] = f BY PairIn, Zenon DEF DirSet
<1>3. <<Mem(r), f>> \in NodeSet BY <1>1, PairIn, Zenon DEF NodeSet
<1>4. Here(<<r, f>>) <=> dirs[<<r, f>>].to = Mem(r) /\ ~Bound(r, f) BY DEF Here
<1> QED BY <1>2, <1>3, <1>4

(* A path in a root leads below what is there, or to the host. *)
LEMMA NodeIs ==
    ASSUME BindOK, NEW r \in {"home", "at"}, NEW k \in KeptNames
    PROVE  /\ Base(r) \in {"share", "guest", "home memory", "at memory"}
           /\ r \in cover => Base(r) = Mem(r)
           /\ Base(r) \notin {"home memory", "at memory"} => Node(r, k) = <<Base(r), k>>
           /\ <<Base(r), k>> \in DOMAIN bind => Node(r, k) = Share(k)
<1>1. Base(r) \in {"share", "guest", "home memory", "at memory"} /\ (r \in cover => Base(r) = Mem(r))
  BY DEF Base, Mem
<1> DEFINE n == <<Base(r), k>>
<1>2. n \in DOMAIN bind => bind[n] = Share(k) /\ n[1] \in {"pin", "home memory", "at memory"}
  BY DEF BindOK
<1>3. n[1] = Base(r) OBVIOUS
<1>4. Node(r, k) = IF n \in DOMAIN bind THEN bind[n] ELSE n BY DEF Node
<1> HIDE DEF n
<1>5. Base(r) \notin {"home memory", "at memory"} => n \notin DOMAIN bind BY <1>1, <1>2, <1>3
<1> QED BY <1>1, <1>2, <1>4, <1>5 DEF n

(* Where a mount is, a file's path leads to the host. *)
LEMMA BoundIs ==
    ASSUME BindOK, NEW r \in {"home", "at"}, NEW f \in FileNames, Bound(r, f)
    PROVE  FileNode(r, f)[1] = "share"
<1>1. PICK k \in KeptNames : f = <<k>> BY DEF Bound, FileNames
<1>2. f[1] = k BY <1>1
<1>3. <<Base(r), k>> \in DOMAIN bind BY <1>2 DEF Bound
<1>4. Node(r, k) = Share(k) BY <1>3, NodeIs
<1> QED BY <1>2, <1>4 DEF FileNode, Share

LEMMA FileNodeIs ==
    ASSUME NEW r, NEW f, r \in cover, ~Bound(r, f)
    PROVE  FileNode(r, f) = <<dirs[<<r, f>>].to, f>> /\ FileNode(r, f)[1] = dirs[<<r, f>>].to /\ FileNode(r, f)[2] = f
  BY DEF FileNode

LEMMA TargetIs ==
    ASSUME gp \in Profiles, gp.file # {}
    PROVE  Target \in FileNames /\ gp.file = {Target}
<1>1. PICK f \in FileNames : gp.file = {f} BY ProfileIs
<1>2. (CHOOSE g \in gp.file : TRUE) = f BY <1>1
<1> QED BY <1>1, <1>2 DEF Target

(* What is in memory is the file at that name of the root's own directory. *)
LEMMA MemoryIs ==
    ASSUME GuestTypes, NEW r \in cover, NEW f \in FileNames, InMemory(FileNode(r, f))
    PROVE  FileNode(r, f) = <<Mem(r), f>> /\ FileNode(r, f) \in NodeSet /\ ~Bound(r, f) /\ dirs[<<r, f>>].to = Mem(r)
<1>1. r \in {"home", "at"} /\ BindOK /\ DirsOK BY DEF GuestTypes
<1>2. ~Bound(r, f) BY <1>1, BoundIs DEF InMemory
<1>3. FileNode(r, f) = <<dirs[<<r, f>>].to, f>> /\ FileNode(r, f)[1] = dirs[<<r, f>>].to BY <1>2, FileNodeIs
<1>4. dirs[<<r, f>>].to \in {Mem(r), "away", "nowhere"} BY <1>1 DEF DirsOK
<1>5. dirs[<<r, f>>].to = Mem(r) BY <1>3, <1>4 DEF InMemory
<1> QED BY <1>1, <1>2, <1>3, <1>5, DirIs

(* A step that leaves the mounts, the links and the modes. *)
SameWay == \A d \in DirSet : dirs'[d].to = dirs[d].to /\ dirs'[d].open = dirs[d].open

LEMMA SameMounts ==
    ASSUME UNCHANGED <<gp, cover, bind>>
    PROVE  /\ Root' = Root /\ Target' = Target /\ Kept' = Kept /\ BindOK' = BindOK
           /\ ProfileValid(gp)' = ProfileValid(gp)
           /\ \A r, f : Bound(r, f)' = Bound(r, f) /\ Base(r)' = Base(r)
<1>1. Root' = Root /\ Kept' = Kept /\ BindOK' = BindOK /\ ProfileValid(gp)' = ProfileValid(gp)
  BY DEF Root, mountTarget, Kept, BindOK, ProfileValid, EphemeralPath, Mem, Share
<1>2. Target' = Target BY DEF Target
<1> QED BY <1>1, <1>2 DEF Bound, Base, Mem

LEMMA SameWays ==
    ASSUME GuestTypes, UNCHANGED <<gp, cover, bind>>, SameWay
    PROVE  /\ DirsOK'
           /\ \A f \in FileNames :
                /\ FileNode(Root, f)' = FileNode(Root, f) /\ (Loose(Root, f)' <=> Loose(Root, f))
                /\ Here(<<Root, f>>)' <=> Here(<<Root, f>>)
<1>1. Root' = Root /\ Root \in {"home", "at"} BY SameMounts, ProfileIs DEF GuestTypes
<1>2. ASSUME NEW r \in {"home", "at"}, NEW f \in FileNames
      PROVE  dirs'[<<r, f>>].to = dirs[<<r, f>>].to /\ dirs'[<<r, f>>].open = dirs[<<r, f>>].open
  <2>1. <<r, f>> \in DirSet BY DirIs
  <2> QED BY <2>1 DEF SameWay
<1>3. DirsOK' BY <1>2 DEF GuestTypes, DirsOK, Mem
<1>4. ASSUME NEW f \in FileNames PROVE FileNode(Root, f)' = FileNode(Root, f)
  <2>1. \A k : Node(Root, k)' = Node(Root, k) BY <1>1, SameMounts DEF Node
  <2> QED BY <1>1, <1>2, <2>1, SameMounts DEF FileNode
<1>5. ASSUME NEW f \in FileNames PROVE Loose(Root, f)' <=> Loose(Root, f)
  <2>1. <<>> \in FileNames BY DEF FileNames
  <2> QED BY <1>1, <1>2, <2>1 DEF Loose, Way
<1>6. ASSUME NEW f \in FileNames PROVE Here(<<Root, f>>)' <=> Here(<<Root, f>>)
  BY <1>1, <1>2, SameMounts DEF Here, Mem
<1> QED BY <1>3, <1>4, <1>5, <1>6

LEMMA SameFiles ==
    ASSUME GuestTypes, UNCHANGED <<gp, cover, bind, cred>>, SameWay
    PROVE  WholeFile => WholeFile'
<1>1. Root' = Root /\ gp'.file = gp.file BY SameMounts
<1>2. \A f \in gp.file : f \in FileNames BY ProfileIs DEF GuestTypes
<1>3. \A f \in FileNames : FileNode(Root, f)' = FileNode(Root, f) /\ (Loose(Root, f)' <=> Loose(Root, f)) BY SameWays
<1> QED BY <1>1, <1>2, <1>3 DEF WholeFile, InMemory, Entire

LEMMA Chowns ==
    ASSUME GuestTypes, NEW ds, NEW user \in {"root", "guest"}, dirs' = Chowned(ds, user)
    PROVE  /\ dirs' \in [DirSet -> DirKinds] /\ SameWay
           /\ \A d \in DirSet : d \in ds /\ Here(d) => dirs'[d].owner = user
           /\ \A d \in DirSet : user = "root" /\ dirs[d].owner = "root" => dirs'[d].owner = "root"
<1>1. \A d \in DirSet : dirs[d] \in DirKinds BY DEF GuestTypes
<1>2. dirs' = [d \in DirSet |-> IF d \in ds /\ Here(d)
                                THEN [to |-> dirs[d].to, owner |-> user, open |-> dirs[d].open] ELSE dirs[d]]
  BY NodesAre DEF Chowned
<1>3. ASSUME NEW d \in DirSet
      PROVE  /\ dirs'[d] \in DirKinds /\ dirs'[d].to = dirs[d].to /\ dirs'[d].open = dirs[d].open
             /\ d \in ds /\ Here(d) => dirs'[d].owner = user
             /\ user = "root" /\ dirs[d].owner = "root" => dirs'[d].owner = "root"
  <2>1. CASE d \in ds /\ Here(d)
    <3> DEFINE x == [to |-> dirs[d].to, owner |-> user, open |-> dirs[d].open]
    <3>1. dirs'[d] = x BY <1>2, <2>1
    <3>2. x \in DirKinds /\ x.to = dirs[d].to /\ x.open = dirs[d].open /\ x.owner = user BY <1>1 DEF DirKinds
    <3> HIDE DEF x
    <3> QED BY <2>1, <3>1, <3>2
  <2>2. CASE ~(d \in ds /\ Here(d))
    <3>1. dirs'[d] = dirs[d] BY <1>2, <2>2
    <3> QED BY <1>1, <2>2, <3>1
  <2> QED BY <2>1, <2>2
<1> QED BY <1>2, <1>3 DEF SameWay

LEMMA SameDirs ==
    ASSUME GuestTypes, dirs' = dirs
    PROVE  dirs' \in [DirSet -> DirKinds] /\ SameWay
  BY DEF GuestTypes, SameWay

(* The types of a step that leaves the mounts and the links. *)
LEMMA TypesStay ==
    ASSUME GuestTypes, UNCHANGED <<gp, rt, cover, bind>>, dirs' \in [DirSet -> DirKinds], SameWay,
           cred' \in [NodeSet -> FileKinds], dv' \in DeliverySet
    PROVE  GuestTypes'
<1>1. BindOK' /\ ProfileValid(gp)' BY SameMounts DEF GuestTypes
<1>2. DirsOK' BY SameWays
<1> QED BY <1>1, <1>2 DEF GuestTypes

(* A delivery that ends, however it ends. *)
LEMMA Stops ==
    ASSUME GuestInv, dv' = NoDelivery, UNCHANGED <<gp, rt, cover, bind, cred, spilled>>, ~served',
           dirs' \in [DirSet -> DirKinds], SameWay
    PROVE  GuestInv'
<1>1. dv'.pc = "idle" /\ dv' \in DeliverySet BY DEF NoDelivery, DeliveryPlaces, DeliverySet
<1>2. GuestTypes' BY <1>1, TypesStay DEF GuestInv, GuestTypes
<1> QED BY <1>1, <1>2 DEF GuestInv, DeliveryOK

(* A delivery that goes on with another command. *)
LEMMA MovesOn ==
    ASSUME GuestInv, NEW pc \in DeliveryPlaces, NEW todo \in SUBSET KeptNames, To(pc, todo)
    PROVE  dv' \in DeliverySet /\ dv'.pc = pc /\ dv'.todo = todo /\ dv'.calm = dv.calm
  BY DEF To, GuestInv, GuestTypes, DeliverySet

LEMMA NotServed == ASSUME GuestInv, dv.pc # "idle" PROVE ~served BY DEF GuestInv, DeliveryOK

(* What a container has mounted from the start. *)
LEMMA MountedIs ==
    ASSUME gp \in Profiles
    PROVE  /\ Mounted(gp)[1] \subseteq {"home", "at"}
           /\ DOMAIN Mounted(gp)[2] \subseteq {"home memory", "at memory"} \X KeptNames
           /\ \A n \in DOMAIN Mounted(gp)[2] : Mounted(gp)[2][n] = Share(n[2])
<1> DEFINE c == Mounted(gp)[1]
           b == Mounted(gp)[2]
<1>1. CASE rt = "hull" \/ ~gp.mem
  <2>1. c = {} /\ b = <<>> BY <1>1 DEF Mounted
  <2> QED BY <2>1
<1>2. CASE ~(rt = "hull" \/ ~gp.mem)
  <2>1. c = {Root} /\ b = [n \in {<<Mem(Root), k>> : k \in gp.keep} |-> Share(n[2])] BY <1>2 DEF Mounted, Root
  <2>2. Root \in {"home", "at"} /\ Mem(Root) \in {"home memory", "at memory"} /\ gp.keep \subseteq KeptNames
    BY ProfileIs
  <2> DEFINE D == {<<Mem(Root), k>> : k \in gp.keep}
  <2>3. D \subseteq {"home memory", "at memory"} \X KeptNames
    <3>1. ASSUME NEW k \in gp.keep PROVE <<Mem(Root), k>> \in {"home memory", "at memory"} \X KeptNames
      <4>1. Mem(Root) \in {"home memory", "at memory"} /\ k \in KeptNames BY <2>2
      <4> QED BY <4>1, PairIn, Zenon
    <3> QED BY <3>1
  <2> HIDE DEF D
  <2>4. DOMAIN b = D /\ \A n \in D : b[n] = Share(n[2]) BY <2>1 DEF D
  <2> QED BY <2>1, <2>2, <2>3, <2>4
<1> QED BY <1>1, <1>2

(* What the memory holds when it was just mounted. *)
LEMMA FreshIs ==
    ASSUME NEW b
    PROVE  /\ Fresh(b) \in [DirSet -> DirKinds]
           /\ \A d \in DirSet : Fresh(b)[d].to \in {Mem(d[1]), "nowhere"} /\ (d[2] = <<>> => Fresh(b)[d].to = Mem(d[1]))
<1>1. Fresh(b) = [d \in DirSet |-> IF d[2] = <<>> \/ <<Mem(d[1]), d[2][1]>> \in DOMAIN b THEN Closed(d[1]) ELSE NoDir]
  BY NodesAre DEF Fresh
<1>2. \A r : Closed(r) \in DirKinds /\ Closed(r).to = Mem(r) BY DEF Closed, DirKinds, Mem
<1>3. NoDir \in DirKinds /\ NoDir.to = "nowhere" BY DEF NoDir, DirKinds
<1>4. ASSUME NEW d \in DirSet
      PROVE  /\ Fresh(b)[d] \in DirKinds
             /\ Fresh(b)[d].to \in {Mem(d[1]), "nowhere"} /\ (d[2] = <<>> => Fresh(b)[d].to = Mem(d[1]))
  <2>1. CASE d[2] = <<>> \/ <<Mem(d[1]), d[2][1]>> \in DOMAIN b
    <3>1. Fresh(b)[d] = Closed(d[1]) BY <1>1, <2>1
    <3> QED BY <1>2, <3>1
  <2>2. CASE ~(d[2] = <<>> \/ <<Mem(d[1]), d[2][1]>> \in DOMAIN b)
    <3>1. Fresh(b)[d] = NoDir BY <1>1, <2>2
    <3> QED BY <1>3, <2>2, <3>1
  <2> QED BY <2>1, <2>2
<1> QED BY <1>1, <1>4

LEMMA BootedIs ==
    ASSUME NEW b
    PROVE  \A r \in {"home", "at"}, f \in FileNames :
               Fresh(b)[<<r, f>>].to \in {Mem(r), "away", "nowhere"} /\ (f = <<>> => Fresh(b)[<<r, f>>].to = Mem(r))
<1> SUFFICES ASSUME NEW r \in {"home", "at"}, NEW f \in FileNames
             PROVE  Fresh(b)[<<r, f>>].to \in {Mem(r), "nowhere"} /\ (f = <<>> => Fresh(b)[<<r, f>>].to = Mem(r))
  OBVIOUS
<1> DEFINE d == <<r, f>>
<1>1. d \in DirSet /\ d[1] = r /\ d[2] = f BY DirIs
<1> HIDE DEF d
<1>2. Fresh(b)[d].to \in {Mem(d[1]), "nowhere"} /\ (d[2] = <<>> => Fresh(b)[d].to = Mem(d[1])) BY <1>1, FreshIs
<1> QED BY <1>1, <1>2 DEF d

LEMMA EmptyFiles == [n \in Nodes |-> NoFile] \in [NodeSet -> FileKinds]
<1>1. NoFile \in FileKinds BY DEF NoFile, FileKinds
<1> QED BY <1>1, NodesAre

LEMMA RebootInv == ASSUME GuestInv, Reboot PROVE GuestInv'
<1>1. gp \in Profiles BY DEF GuestInv, GuestTypes
<1> DEFINE b == Mounted(gp)[2]
<1>2. cover' = Mounted(gp)[1] /\ bind' = b /\ dirs' = Fresh(b) /\ cred' = [n \in Nodes |-> NoFile]
  BY DEF Reboot, Booted
<1>3. /\ cover' \subseteq {"home", "at"} /\ DOMAIN b \subseteq {"pin", "home memory", "at memory"} \X KeptNames
      /\ \A n \in DOMAIN b : b[n] = Share(n[2])
  BY <1>1, <1>2, MountedIs
<1> HIDE DEF b
<1>4. dirs' \in [DirSet -> DirKinds] BY <1>2, FreshIs
<1>5. DirsOK' BY <1>2, BootedIs DEF DirsOK, Mem
<1>6. cred' \in [NodeSet -> FileKinds] BY <1>2, EmptyFiles
<1>7. BindOK' BY <1>2, <1>3 DEF BindOK, Share
<1>8. GuestTypes'
  BY <1>3, <1>4, <1>5, <1>6, <1>7 DEF Reboot, GuestInv, GuestTypes, ProfileValid, EphemeralPath
<1> QED BY <1>8 DEF Reboot, GuestInv, DeliveryOK

LEMMA EditProfileInv == ASSUME GuestInv, EditProfile PROVE GuestInv'
<1>1. gp' \in Profiles /\ ProfileValid(gp)' BY DEF EditProfile
<1>2. BindOK' /\ DirsOK' BY DEF EditProfile, GuestInv, GuestTypes, BindOK, DirsOK, Share, Mem
<1>3. GuestTypes' BY <1>1, <1>2 DEF EditProfile, GuestInv, GuestTypes
<1> QED BY <1>3 DEF EditProfile, GuestInv, DeliveryOK

LEMMA MountDroppedInv == ASSUME GuestInv, MountDropped PROVE GuestInv'
<1>1. DOMAIN bind' \subseteq DOMAIN bind /\ \A n \in DOMAIN bind' : bind'[n] = bind[n] BY DEF MountDropped
<1>2. BindOK' BY <1>1 DEF GuestInv, GuestTypes, BindOK, Share
<1>3. DirsOK' BY DEF MountDropped, GuestInv, GuestTypes, DirsOK, Mem
<1>4. GuestTypes' BY <1>2, <1>3 DEF MountDropped, GuestInv, GuestTypes, ProfileValid, EphemeralPath
<1> QED BY <1>4 DEF MountDropped, GuestInv, DeliveryOK

LEMMA HomeChangesInv == ASSUME GuestInv, HomeChanges PROVE GuestInv'
<1>1. dirs' \in [DirSet -> DirKinds] /\ SameWay BY SameDirs DEF HomeChanges, GuestInv
<1>2. GuestTypes' BY <1>1, TypesStay DEF HomeChanges, GuestInv, GuestTypes
<1> QED BY <1>2 DEF HomeChanges, GuestInv, DeliveryOK

-----------------------------------------------------------------------------
(* A step of the agent: the mounts and the profile stay. *)
AgentStep == UNCHANGED <<gp, rt, cover, bind, spilled>> /\ Disturbed

(* The file of a delivery stays safe under such a step, or its way loose. *)
LEMMA AgentInv ==
    ASSUME GuestInv, AgentStep, dirs' \in [DirSet -> DirKinds], DirsOK', cred' \in [NodeSet -> FileKinds],
           dv.pc \in {"way", "create", "inspect", "feed"} => TopHeld',
           dv.pc \in {"create", "inspect", "feed"} => Taken',
           dv.pc = "feed" => Loose(Root, Target)' \/ Safe(There)'
    PROVE  GuestInv'
<1>1. UNCHANGED <<gp, rt, cover, bind, spilled>> /\ ~served' BY DEF AgentStep, Disturbed
<1>2. dv' \in DeliverySet /\ dv'.pc = dv.pc /\ dv'.todo = dv.todo /\ dv'.calm = FALSE
  BY DEF AgentStep, Disturbed, GuestInv, GuestTypes, DeliverySet
<1>3. /\ Root' = Root /\ Target' = Target /\ Kept' = Kept /\ BindOK' /\ ProfileValid(gp)'
      /\ Bound(Root, Target)' = Bound(Root, Target)
  BY <1>1, SameMounts DEF GuestInv, GuestTypes
<1>4. GuestTypes' BY <1>1, <1>2, <1>3 DEF GuestInv, GuestTypes
<1> QED BY <1>1, <1>2, <1>3, <1>4 DEF GuestInv, DeliveryOK, Pin

(* During a delivery the agent writes to root's directories only where they are open. *)
LEMMA RootsWay ==
    ASSUME GuestInv, dv.pc \in {"way", "create", "inspect", "feed"}
    PROVE  /\ Root \in {"home", "at"} /\ Root \in cover /\ Target \in FileNames /\ <<>> \in FileNames
           /\ <<Root, <<>>>> \in DirSet /\ <<Root, Target>> \in DirSet
           /\ dirs[<<Root, <<>>>>].to = Mem(Root) /\ dirs[<<Root, <<>>>>].owner = "root"
<1>1. gp \in Profiles /\ gp.file # {} /\ gp.mem /\ Root \in cover /\ TopHeld BY DEF GuestInv, GuestTypes, DeliveryOK
<1>2. Root \in {"home", "at"} /\ Target \in FileNames /\ <<>> \in FileNames
  BY <1>1, ProfileIs, TargetIs DEF FileNames
<1>3. dirs[<<Root, <<>>>>].to = Mem(Root) BY <1>2 DEF GuestInv, GuestTypes, DirsOK
<1> QED BY <1>1, <1>2, <1>3, DirIs DEF TopHeld

(* What a delivery feeds, unless its way is loose: a file of root's own directory. *)
LEMMA FedIs ==
    ASSUME GuestInv, dv.pc = "feed", ~Loose(Root, Target)
    PROVE  /\ There = <<Mem(Root), Target>> /\ There \in NodeSet /\ cred[There].k = "file"
           /\ dirs[<<Root, Target>>].to = Mem(Root) /\ dirs[<<Root, Target>>].owner = "root"
           /\ ~dirs[<<Root, Target>>].open /\ ~dirs[<<Root, <<>>>>].open
<1>1. Root \in cover /\ Target \in FileNames BY RootsWay
<1>2. Safe(There) /\ Taken /\ GuestTypes BY DEF GuestInv, DeliveryOK
<1>3. /\ There = <<Mem(Root), Target>> /\ There \in NodeSet /\ ~Bound(Root, Target)
      /\ dirs[<<Root, Target>>].to = Mem(Root)
  BY <1>1, <1>2, MemoryIs DEF Safe, There
<1>4. ~dirs[<<Root, Target>>].open /\ ~dirs[<<Root, <<>>>>].open BY DEF Loose, Way
<1>5. Here(<<Root, Target>>) BY <1>1, <1>3, RootsWay, DirIs
<1> QED BY <1>2, <1>3, <1>4, <1>5 DEF Safe, Taken

LEMMA AgentPlantsInv == ASSUME GuestInv, AgentPlants PROVE GuestInv'
<1>1. PICK r \in cover, e \in {"none", "file", "link", "dir"} : \E f \in WrittenPaths(r) :
        /\ AgentWrites(<<r, f>>)
        /\ cred' = [cred EXCEPT ![FileNode(r, f)] = [k |-> e, n |-> 0]]
  BY DEF AgentPlants
<1>2. PICK f \in WrittenPaths(r) :
        /\ AgentWrites(<<r, f>>)
        /\ cred' = [cred EXCEPT ![FileNode(r, f)] = [k |-> e, n |-> 0]]
  BY <1>1
<1>3. AgentStep /\ dirs' = dirs /\ UNCHANGED <<gp, rt, cover, bind, spilled>> BY DEF AgentPlants, AgentStep
<1>4. dirs' \in [DirSet -> DirKinds] /\ SameWay /\ GuestTypes BY <1>3, SameDirs DEF GuestInv
<1>5. FileNode(r, f) = <<Mem(r), f>>
  <2>1. dirs[<<r, f>>].to = Mem(r) /\ ~Bound(r, f) BY <1>2 DEF AgentWrites, Here
  <2> QED BY <2>1, FileNodeIs
<1> DEFINE n == <<Mem(r), f>>
           c == [k |-> e, n |-> 0]
<1>6. cred' = [cred EXCEPT ![n] = c] BY <1>2, <1>5
<1>7. c \in FileKinds BY DEF FileKinds
<1>8. cred' \in [NodeSet -> FileKinds] /\ \A m \in NodeSet : m # n => cred'[m] = cred[m]
  <2> HIDE DEF n, c
  <2> QED BY <1>6, <1>7 DEF GuestInv, GuestTypes
<1>9. DirsOK' /\ Root' = Root /\ Target' = Target /\ TopHeld' = TopHeld /\ (Taken' <=> Taken)
  <2>1. Root' = Root /\ Target' = Target BY <1>3, SameMounts
  <2>2. \A d : Here(d)' <=> Here(d) BY <1>3, SameMounts DEF Here, Mem
  <2>3. DirsOK' BY <1>3, <1>4, SameWays
  <2> QED BY <1>3, <2>1, <2>2, <2>3 DEF TopHeld, Taken
<1>10. ASSUME dv.pc = "feed", ~Loose(Root, Target) PROVE Safe(There)'
  <2>1. /\ There = <<Mem(Root), Target>> /\ There \in NodeSet /\ cred[There].k = "file"
        /\ dirs[<<Root, Target>>].owner = "root" /\ ~dirs[<<Root, Target>>].open
    BY <1>10, FedIs
  <2>2. Target \in FileNames /\ Root \in {"home", "at"} /\ r \in {"home", "at"}
    BY <1>10, RootsWay DEF GuestInv, GuestTypes
  <2>3. ~(r = Root /\ f = Target) BY <1>2, <2>1 DEF AgentWrites
  <2>4. Mem(r) = Mem(Root) => r = Root BY <2>2 DEF Mem
  <2>5. There # n BY <2>1, <2>3, <2>4
  <2>6. There' = There BY <1>3, <1>4, <1>9, <2>2, SameWays DEF There
  <2>7. cred'[There] = cred[There] BY <1>8, <2>1, <2>5
  <2>8. InMemory(There) BY <2>1, <2>2 DEF InMemory, Mem
  <2> QED BY <2>1, <2>6, <2>7, <2>8 DEF Safe, InMemory
<1>11. dv.pc = "feed" => (Loose(Root, Target)' <=> Loose(Root, Target))
  BY <1>3, <1>4, <1>9, RootsWay, SameWays
<1>12. dv.pc = "feed" => Loose(Root, Target)' \/ Safe(There)' BY <1>10, <1>11
<1> QED BY <1>3, <1>4, <1>8, <1>9, <1>12, AgentInv DEF GuestInv, DeliveryOK

(* The agent makes one directory into another. *)
LEMMA AgentDirs ==
    ASSUME GuestInv, AgentStep, NEW r \in cover, NEW f \in FileNames, NEW x \in DirKinds,
           dirs' = [dirs EXCEPT ![<<r, f>>] = x], x.to \in {Mem(r), "away", "nowhere"}, f = <<>> => x.to = Mem(r),
           \A m \in NodeSet : cred'[m] = cred[m] \/ m = <<Mem(r), f>>,
           cred' \in [NodeSet -> FileKinds],
           (f # <<>> /\ AgentWrites(<<r, <<>>>>)) \/ (Here(<<r, f>>) /\ dirs[<<r, f>>].owner = "guest")
    PROVE  GuestInv'
<1>1. UNCHANGED <<gp, rt, cover, bind, spilled>> /\ Root' = Root /\ Target' = Target
      /\ (\A s, g : Bound(s, g)' = Bound(s, g))
  BY SameMounts DEF AgentStep
<1>2. r \in {"home", "at"} BY DEF GuestInv, GuestTypes
<1>3. dirs' \in [DirSet -> DirKinds] /\ dirs'[<<r, f>>] = x /\ \A d \in DirSet : d # <<r, f>> => dirs'[d] = dirs[d]
  <2>1. <<r, f>> \in DirSet BY <1>2, DirIs
  <2> DEFINE d == <<r, f>>
  <2>2. d \in DirSet /\ dirs' = [dirs EXCEPT ![d] = x] BY <2>1
  <2> HIDE DEF d
  <2>3. dirs' \in [DirSet -> DirKinds] /\ dirs'[d] = x /\ \A m \in DirSet : m # d => dirs'[m] = dirs[m]
    BY <2>2 DEF GuestInv, GuestTypes
  <2> QED BY <2>3 DEF d
<1>4. ASSUME NEW s \in {"home", "at"}, NEW g \in FileNames
      PROVE  dirs'[<<s, g>>].to \in {Mem(s), "away", "nowhere"} /\ (g = <<>> => dirs'[<<s, g>>].to = Mem(s))
  <2>1. <<s, g>> \in DirSet BY DirIs
  <2>2. CASE <<s, g>> = <<r, f>> BY <1>3, <2>2
  <2>3. CASE <<s, g>> # <<r, f>>
    <3>1. dirs'[<<s, g>>] = dirs[<<s, g>>] BY <1>3, <2>1, <2>3
    <3> QED BY <3>1 DEF GuestInv, GuestTypes, DirsOK
  <2> QED BY <2>2, <2>3
<1>5. DirsOK' BY <1>4 DEF DirsOK, Mem
<1>6. CASE dv.pc \notin {"way", "create", "inspect", "feed"} BY <1>3, <1>5, <1>6, AgentInv
<1>7. CASE dv.pc \in {"way", "create", "inspect", "feed"}
  <2> DEFINE R == <<Root, <<>>>>
             T == <<Root, Target>>
  <2>1. /\ Root \in {"home", "at"} /\ Root \in cover /\ Target \in FileNames
        /\ R \in DirSet /\ T \in DirSet /\ dirs[R].to = Mem(Root) /\ dirs[R].owner = "root"
    BY <1>7, RootsWay
  <2>2. R # <<r, f>> /\ dirs'[R] = dirs[R]
    <3>1. R # <<r, f>> BY <2>1
    <3> QED BY <1>3, <2>1, <3>1
  <2>3. TopHeld' BY <1>1, <2>1, <2>2 DEF TopHeld
  <2>4. dirs[R].open => Taken' /\ Loose(Root, Target)' BY <1>1, <2>2 DEF Taken, Loose, Way
  <2>5. ASSUME ~dirs[R].open, dv.pc \in {"create", "inspect", "feed"} PROVE dirs'[T] = dirs[T]
    <3>1. CASE T = <<r, f>>
      <4>1. f # <<>> /\ r = Root /\ f = Target BY <2>2, <3>1
      <4>2. ~AgentWrites(R) BY <2>1, <2>5 DEF AgentWrites
      <4>3. Here(T) /\ dirs[T].owner = "guest" BY <4>1, <4>2
      <4>4. Taken BY <2>5 DEF GuestInv, DeliveryOK
      <4> QED BY <2>5, <4>3, <4>4 DEF Taken
    <3>2. CASE T # <<r, f>> BY <1>3, <2>1, <3>2
    <3> QED BY <3>1, <3>2
  <2>6. dv.pc \in {"create", "inspect", "feed"} => Taken'
    <3>1. ASSUME ~dirs[R].open, dv.pc \in {"create", "inspect", "feed"} PROVE Taken'
      <4>1. Taken BY <3>1 DEF GuestInv, DeliveryOK
      <4>2. dirs'[T] = dirs[T] BY <2>5, <3>1
      <4> QED BY <1>1, <2>2, <4>1, <4>2 DEF Taken, Here, Mem
    <3> QED BY <2>4, <3>1
  <2>7. ASSUME dv.pc = "feed" PROVE Loose(Root, Target)' \/ Safe(There)'
    <3>1. CASE dirs[R].open BY <2>4, <3>1
    <3>2. CASE ~dirs[R].open
      <4>1. dirs'[T] = dirs[T] BY <2>5, <2>7, <3>2
      <4>2. CASE Loose(Root, Target) BY <1>1, <2>2, <4>1, <4>2 DEF Loose, Way
      <4>3. CASE ~Loose(Root, Target)
        <5>1. /\ There = <<Mem(Root), Target>> /\ There \in NodeSet /\ cred[There].k = "file"
              /\ dirs[T].to = Mem(Root) /\ dirs[T].owner = "root"
          BY <2>7, <4>3, FedIs
        <5>2. ~Bound(Root, Target) BY <2>7 DEF GuestInv, DeliveryOK
        <5>3. There' = <<dirs'[T].to, Target>>
          <6>1. Root' \in cover' /\ ~Bound(Root, Target)' BY <1>1, <2>1, <5>2
          <6> QED BY <1>1, <2>1, <5>2 DEF There, FileNode
        <5>4. There' = There BY <4>1, <5>1, <5>3
        <5>5. <<r, f>> # T
          <6> SUFFICES ASSUME <<r, f>> = T PROVE FALSE OBVIOUS
          <6>1. r = Root /\ f = Target OBVIOUS
          <6>2. f # <<>> BY <2>2, <6>1
          <6>3. ~AgentWrites(R) BY <2>1, <3>2 DEF AgentWrites
          <6> QED BY <5>1, <6>1, <6>2, <6>3
        <5>6. Mem(r) = Mem(Root) => r = Root BY <1>2, <2>1 DEF Mem
        <5>7. There # <<Mem(r), f>> BY <5>1, <5>5, <5>6
        <5>8. cred'[There] = cred[There] BY <5>1, <5>7
        <5>9. InMemory(There) BY <2>1, <5>1 DEF InMemory, Mem
        <5> QED BY <5>1, <5>4, <5>8, <5>9 DEF Safe, InMemory
      <4> QED BY <4>2, <4>3
    <3> QED BY <3>1, <3>2
  <2> QED BY <1>3, <1>5, <2>3, <2>6, <2>7, AgentInv
<1> QED BY <1>6, <1>7

(* A path that some profile writes. *)
LEMMA PathsAre == ASSUME NEW r, NEW f \in WrittenPaths(r) PROVE f \in FileNames
<1>1. PICK p \in Profiles : f \in p.file BY DEF WrittenPaths
<1>2. p.file \in FilePaths BY <1>1, GuestAssumption
<1> QED BY <1>1, <1>2 DEF FilePaths, FileNames

LEMMA AgentRearrangesInv == ASSUME GuestInv, AgentRearranges PROVE GuestInv'
<1>1. PICK r \in cover : \E f \in WrittenPaths(r) \ {<<>>} :
        /\ AgentWrites(<<r, <<>>>>) /\ ~Bound(r, f)
        /\ \E to \in {"nowhere", Mem(r), "away"} :
             dirs' = [dirs EXCEPT ![<<r, f>>] = [to |-> to, owner |-> "guest", open |-> FALSE]]
        /\ cred' = [cred EXCEPT ![<<Mem(r), f>>] = NoFile]
  BY DEF AgentRearranges
<1>2. PICK f \in WrittenPaths(r) \ {<<>>} :
        /\ AgentWrites(<<r, <<>>>>) /\ ~Bound(r, f)
        /\ \E to \in {"nowhere", Mem(r), "away"} :
             dirs' = [dirs EXCEPT ![<<r, f>>] = [to |-> to, owner |-> "guest", open |-> FALSE]]
        /\ cred' = [cred EXCEPT ![<<Mem(r), f>>] = NoFile]
  BY <1>1
<1>3. PICK to \in {"nowhere", Mem(r), "away"} :
        dirs' = [dirs EXCEPT ![<<r, f>>] = [to |-> to, owner |-> "guest", open |-> FALSE]]
  BY <1>2
<1> DEFINE x == [to |-> to, owner |-> "guest", open |-> FALSE]
<1>4. x \in DirKinds /\ x.to \in {Mem(r), "away", "nowhere"} BY DEF DirKinds, Mem
<1>5. f \in FileNames /\ f # <<>> BY PathsAre
<1>6. r \in {"home", "at"} BY DEF GuestInv, GuestTypes
<1>7. cred' \in [NodeSet -> FileKinds] /\ \A m \in NodeSet : cred'[m] = cred[m] \/ m = <<Mem(r), f>>
  <2> DEFINE n == <<Mem(r), f>>
  <2>1. cred' = [cred EXCEPT ![n] = NoFile] /\ NoFile \in FileKinds BY <1>2 DEF NoFile, FileKinds
  <2> HIDE DEF n
  <2>2. cred' \in [NodeSet -> FileKinds] /\ \A m \in NodeSet : cred'[m] = cred[m] \/ m = n
    BY <2>1 DEF GuestInv, GuestTypes
  <2> QED BY <2>2 DEF n
<1>8. AgentStep BY DEF AgentRearranges, AgentStep
<1>9. dirs' = [dirs EXCEPT ![<<r, f>>] = x] BY <1>3
<1> HIDE DEF x
<1> QED BY <1>2, <1>4, <1>5, <1>7, <1>8, <1>9, AgentDirs

LEMMA AgentOpensInv == ASSUME GuestInv, AgentOpens PROVE GuestInv'
<1>1. PICK r \in cover : \E f \in WrittenPaths(r) \cup {<<>>} :
        /\ Here(<<r, f>>) /\ dirs[<<r, f>>].owner = "guest"
        /\ dirs' = [dirs EXCEPT ![<<r, f>>].open = ~@]
  BY DEF AgentOpens
<1>2. PICK f \in WrittenPaths(r) \cup {<<>>} :
        /\ Here(<<r, f>>) /\ dirs[<<r, f>>].owner = "guest"
        /\ dirs' = [dirs EXCEPT ![<<r, f>>].open = ~@]
  BY <1>1
<1>3. f \in FileNames BY PathsAre DEF FileNames
<1>4. r \in {"home", "at"} BY DEF GuestInv, GuestTypes
<1>5. <<r, f>> \in DirSet BY <1>3, <1>4, DirIs
<1>6. dirs[<<r, f>>] \in DirKinds BY <1>5 DEF GuestInv, GuestTypes
<1> DEFINE o == ~dirs[<<r, f>>].open
           x == [dirs[<<r, f>>] EXCEPT !.open = o]
<1>7. dirs' = [dirs EXCEPT ![<<r, f>>] = x] BY <1>2
<1>8. o \in BOOLEAN /\ dirs[<<r, f>>].to = Mem(r) BY <1>2, <1>3, <1>4, DirIs
<1> HIDE DEF o
<1>9. x \in DirKinds /\ x.to = Mem(r) BY <1>6, <1>8 DEF DirKinds
<1>10. AgentStep /\ cred' = cred BY DEF AgentOpens, AgentStep
<1>11. cred' \in [NodeSet -> FileKinds] /\ \A m \in NodeSet : cred'[m] = cred[m] \/ m = <<Mem(r), f>>
  BY <1>10 DEF GuestInv, GuestTypes
<1>12. x.to \in {Mem(r), "away", "nowhere"} /\ (f = <<>> => x.to = Mem(r)) BY <1>9
<1>13. (f # <<>> /\ AgentWrites(<<r, <<>>>>)) \/ (Here(<<r, f>>) /\ dirs[<<r, f>>].owner = "guest") BY <1>2
<1> HIDE DEF x
<1> QED BY <1>3, <1>7, <1>9, <1>10, <1>11, <1>12, <1>13, AgentDirs

-----------------------------------------------------------------------------
(* A step of a delivery that leaves the mounts, the links, the modes and the files. *)
LEMMA MountsStay ==
    ASSUME GuestInv, UNCHANGED <<gp, rt, cover, bind, cred, spilled>>, dirs' \in [DirSet -> DirKinds],
           SameWay, dv' \in DeliverySet
    PROVE  /\ GuestTypes' /\ Root' = Root /\ Target' = Target /\ Kept' = Kept /\ ~spilled'
           /\ (WholeFile => WholeFile')
           /\ gp.file # {} => /\ (Loose(Root, Target)' <=> Loose(Root, Target))
                              /\ (Here(<<Root, Target>>)' <=> Here(<<Root, Target>>))
                              /\ (Safe(There)' <=> Safe(There))
                              /\ Bound(Root, Target)' = Bound(Root, Target)
<1>1. cred' \in [NodeSet -> FileKinds] /\ GuestTypes BY DEF GuestInv, GuestTypes
<1>2. GuestTypes' BY <1>1, TypesStay
<1>3. Root' = Root /\ Target' = Target /\ Kept' = Kept /\ Bound(Root, Target)' = Bound(Root, Target) BY SameMounts
<1>4. WholeFile => WholeFile' BY <1>1, SameFiles
<1>5. ASSUME gp.file # {}
      PROVE  /\ (Loose(Root, Target)' <=> Loose(Root, Target)) /\ (Safe(There)' <=> Safe(There))
             /\ (Here(<<Root, Target>>)' <=> Here(<<Root, Target>>))
  <2>1. Target \in FileNames BY <1>1, <1>5, TargetIs DEF GuestTypes
  <2>2. /\ FileNode(Root, Target)' = FileNode(Root, Target) /\ (Loose(Root, Target)' <=> Loose(Root, Target))
        /\ (Here(<<Root, Target>>)' <=> Here(<<Root, Target>>))
    BY <1>1, <1>3, <2>1, SameWays
  <2>3. There' = There BY <2>2 DEF There
  <2> QED BY <2>2, <2>3 DEF Safe, InMemory
<1> QED BY <1>2, <1>3, <1>4, <1>5 DEF GuestInv

LEMMA PrepareInv == ASSUME GuestInv, Prepare PROVE GuestInv'
<1>0. /\ UNCHANGED <<gp, rt, cover, dirs, bind, cred, spilled>> /\ ~served' /\ dv.pc = "idle"
      /\ dirs' \in [DirSet -> DirKinds] /\ SameWay
  <2>1. UNCHANGED <<gp, rt, cover, dirs, bind, cred, spilled>> /\ ~served' /\ dv.pc = "idle"
    BY DEF Prepare, Guest, Doing
  <2> QED BY <2>1, SameDirs DEF GuestInv
<1>1. CASE UNCHANGED dv
  <2>1. dv' \in DeliverySet BY <1>1 DEF GuestInv, GuestTypes
  <2> QED BY <1>0, <1>1, <2>1, MountsStay DEF GuestInv, DeliveryOK
<1>2. CASE To(IF gp.mem THEN "table" ELSE "done", {})
  <2> DEFINE pc == IF gp.mem THEN "table" ELSE "done"
  <2>1. pc \in DeliveryPlaces /\ (pc = "table" <=> gp.mem) /\ pc \in {"table", "done"} BY DEF DeliveryPlaces
  <2>2. To(pc, {}) BY <1>2
  <2> HIDE DEF pc
  <2>3. dv' \in DeliverySet /\ dv'.pc = pc BY <2>1, <2>2, MovesOn
  <2>4. ~gp.mem => gp.file = {} BY DEF GuestInv, GuestTypes, ProfileValid, EphemeralPath
  <2>5. ~gp.mem => WholeFile' BY <1>0, <2>4 DEF WholeFile
  <2> QED BY <1>0, <2>1, <2>3, <2>5, MountsStay DEF GuestInv, DeliveryOK
<1> QED BY <1>1, <1>2 DEF Prepare

(* A delivery that gives up hands the directories back, all or some or none. *)
LEMMA GiveUpInv ==
    ASSUME GuestInv, GiveUp, UNCHANGED <<gp, rt, served, spilled>>, dv.pc # "idle"
    PROVE  GuestInv'
<1>1. PICK ds : dirs' = Chowned(ds, "guest") BY DEF GiveUp, HandBack
<1>2. dirs' \in [DirSet -> DirKinds] /\ SameWay BY <1>1, Chowns DEF GuestInv
<1> QED BY <1>2, Stops, NotServed DEF GiveUp

LEMMA StopInv ==
    ASSUME GuestInv, Stop, UNCHANGED <<gp, rt, served, spilled>>, dv.pc # "idle"
    PROVE  GuestInv'
<1>1. UNCHANGED <<cover, dirs, bind, cred>> /\ dv' = NoDelivery BY DEF Stop, Guest
<1>2. dirs' \in [DirSet -> DirKinds] /\ SameWay BY <1>1, SameDirs DEF GuestInv
<1> QED BY <1>1, <1>2, Stops, NotServed

LEMMA CommandFailsInv == ASSUME GuestInv, CommandFails PROVE GuestInv'
<1>1. UNCHANGED <<gp, rt, served, spilled>> /\ dv.pc # "idle" BY DEF CommandFails
<1>2. GiveUp \/ Stop BY DEF CommandFails
<1> QED BY <1>1, <1>2, GiveUpInv, StopInv

LEMMA GuestSame ==
    ASSUME GuestInv, UNCHANGED Guest
    PROVE  UNCHANGED <<cover, dirs, bind, cred>> /\ dirs' \in [DirSet -> DirKinds] /\ SameWay
<1>1. UNCHANGED <<cover, dirs, bind, cred>> BY DEF Guest
<1> QED BY <1>1, SameDirs DEF GuestInv

LEMMA ReadTableInv == ASSUME GuestInv, ReadTable PROVE GuestInv'
<1>0. UNCHANGED <<gp, rt, served, spilled>> /\ dv.pc = "table" /\ gp.mem /\ ~served
  BY NotServed DEF ReadTable, Doing, GuestInv, DeliveryOK
<1>1. CASE Root \in cover /\ To("check", {}) /\ UNCHANGED Guest
  <2>1. dv' \in DeliverySet /\ dv'.pc = "check" BY <1>1, MovesOn DEF DeliveryPlaces
  <2> QED BY <1>0, <1>1, <2>1, GuestSame, MountsStay DEF GuestInv, DeliveryOK
<1>2. CASE Root \notin cover /\ gp.at /\ "home" \in cover /\ Stop BY <1>0, <1>2, StopInv
<1>3. CASE /\ Root \notin cover /\ ~(gp.at /\ "home" \in cover)
           /\ To("pin", IF gp.at THEN {} ELSE {k \in gp.keep : Pin(k) \notin DOMAIN bind}) /\ UNCHANGED Guest
  <2> DEFINE todo == IF gp.at THEN {} ELSE {k \in gp.keep : Pin(k) \notin DOMAIN bind}
  <2>1. todo \in SUBSET KeptNames /\ (gp.at => todo = {}) BY ProfileIs DEF GuestInv, GuestTypes
  <2>2. ~gp.at => \A k \in gp.keep \ todo : Pin(k) \in DOMAIN bind OBVIOUS
  <2>3. To("pin", todo) BY <1>3
  <2>4. "home" \notin cover BY <1>3, ProfileIs DEF GuestInv, GuestTypes
  <2> HIDE DEF todo
  <2>5. dv' \in DeliverySet /\ dv'.pc = "pin" /\ dv'.todo = todo BY <2>1, <2>3, MovesOn DEF DeliveryPlaces
  <2>6. UNCHANGED <<cover, bind>> /\ GuestTypes' /\ ~spilled' BY <1>0, <1>3, <2>5, GuestSame, MountsStay
  <2> QED BY <1>0, <2>1, <2>2, <2>4, <2>5, <2>6 DEF GuestInv, DeliveryOK, Pin
<1> QED BY <1>1, <1>2, <1>3 DEF ReadTable

(* A bind onto a node, from the directory of its name. *)
LEMMA BindsOne ==
    ASSUME BindOK, NEW n \in {"pin", "home memory", "at memory"} \X KeptNames, BindTo(n, Share(n[2]))
    PROVE  BindOK' /\ DOMAIN bind' = DOMAIN bind \cup {n}
  BY DEF BindOK, BindTo, Share

LEMMA PinOneInv == ASSUME GuestInv, PinOne PROVE GuestInv'
<1>0. UNCHANGED <<gp, rt, cover, dirs, cred, served, spilled>> /\ dv.pc = "pin" /\ gp.mem /\ ~served
  BY NotServed DEF PinOne, Doing, GuestInv, DeliveryOK
<1>1. PICK k \in dv.todo : BindTo(Pin(k), Node("home", k)) /\ To("pin", dv.todo \ {k}) BY DEF PinOne
<1>2. k \in KeptNames /\ dv.todo \ {k} \in SUBSET KeptNames BY DEF GuestInv, GuestTypes, DeliverySet
<1>3. "home" \notin cover /\ ~gp.at BY <1>0 DEF GuestInv, DeliveryOK
<1>4. Node("home", k) = Share(k)
  <2>1. Base("home") = "share" BY <1>3 DEF Base
  <2> QED BY <1>2, <2>1, NodeIs DEF Share, GuestInv, GuestTypes
<1>5. Pin(k) \in {"pin", "home memory", "at memory"} \X KeptNames /\ Pin(k)[2] = k BY <1>2 DEF Pin
<1>6. BindOK' /\ DOMAIN bind' = DOMAIN bind \cup {Pin(k)}
  BY <1>1, <1>4, <1>5, BindsOne DEF GuestInv, GuestTypes
<1>7. dv' \in DeliverySet /\ dv'.pc = "pin" /\ dv'.todo = dv.todo \ {k} BY <1>1, <1>2, MovesOn DEF DeliveryPlaces
<1>8. GuestTypes' BY <1>0, <1>6, <1>7 DEF GuestInv, GuestTypes, DirsOK, Mem, ProfileValid, EphemeralPath
<1>9. \A j \in gp.keep \ dv'.todo : Pin(j) \in DOMAIN bind'
  BY <1>0, <1>3, <1>6, <1>7 DEF GuestInv, DeliveryOK
<1> QED BY <1>0, <1>3, <1>7, <1>8, <1>9 DEF GuestInv, DeliveryOK, Pin

LEMMA CoverItInv == ASSUME GuestInv, CoverIt PROVE GuestInv'
<1>0. UNCHANGED <<gp, rt, bind, served, spilled>> /\ dv.pc = "pin" /\ gp.mem /\ ~served
  BY NotServed DEF CoverIt, Doing, GuestInv, DeliveryOK
<1>1. Root \in {"home", "at"} /\ gp.keep \in SUBSET KeptNames /\ (gp.at => Root # "home")
  BY ProfileIs DEF GuestInv, GuestTypes
<1>2. dv' \in DeliverySet /\ dv'.pc = "bind" /\ dv'.todo = gp.keep BY <1>1, MovesOn DEF CoverIt, DeliveryPlaces
<1>3. dirs' = [d \in DirSet |-> IF d[1] = Root THEN Fresh(<<>>)[d] ELSE dirs[d]] BY NodesAre DEF CoverIt
<1>4. dirs' \in [DirSet -> DirKinds] BY <1>3, FreshIs DEF GuestInv, GuestTypes
<1>5. DirsOK'
  <2> SUFFICES ASSUME NEW r \in {"home", "at"}, NEW f \in FileNames
               PROVE  dirs'[<<r, f>>].to \in {Mem(r), "away", "nowhere"} /\ (f = <<>> => dirs'[<<r, f>>].to = Mem(r))
    BY DEF DirsOK, Mem
  <2> DEFINE d == <<r, f>>
  <2>1. d \in DirSet /\ d[1] = r /\ d[2] = f BY DirIs
  <2>2. dirs[d].to \in {Mem(r), "away", "nowhere"} /\ (f = <<>> => dirs[d].to = Mem(r))
    BY DEF GuestInv, GuestTypes, DirsOK
  <2> HIDE DEF d
  <2>3. Fresh(<<>>)[d].to \in {Mem(r), "nowhere"} /\ (f = <<>> => Fresh(<<>>)[d].to = Mem(r)) BY <2>1, FreshIs
  <2>4. dirs'[d] = Fresh(<<>>)[d] \/ dirs'[d] = dirs[d] BY <1>3, <2>1
  <2>5. dirs'[d].to \in {Mem(r), "away", "nowhere"} /\ (f = <<>> => dirs'[d].to = Mem(r)) BY <2>2, <2>3, <2>4
  <2> QED BY <2>5 DEF d
<1>6. cred' \in [NodeSet -> FileKinds]
  <2>1. NoFile \in FileKinds BY DEF NoFile, FileKinds
  <2> QED BY <2>1, NodesAre DEF CoverIt, GuestInv, GuestTypes
<1>7. cover' \subseteq {"home", "at"} BY <1>1 DEF CoverIt, GuestInv, GuestTypes
<1>8. BindOK' BY <1>0 DEF GuestInv, GuestTypes, BindOK, Share
<1>9. GuestTypes' BY <1>0, <1>2, <1>4, <1>5, <1>6, <1>7, <1>8 DEF GuestInv, GuestTypes, ProfileValid, EphemeralPath
<1>10. gp.at => "home" \notin cover' BY <1>0, <1>1 DEF CoverIt, GuestInv, DeliveryOK
<1>11. ~gp.at => \A k \in gp.keep : Pin(k) \in DOMAIN bind' BY <1>0 DEF CoverIt, GuestInv, DeliveryOK
<1> QED BY <1>0, <1>2, <1>9, <1>10, <1>11 DEF GuestInv, DeliveryOK, Pin

LEMMA CreateTargetInv == ASSUME GuestInv, createGuestTarget PROVE GuestInv'
<1>0. UNCHANGED <<gp, rt, cover, bind, cred, dv, served, spilled>> /\ dv.pc = "bind" /\ gp.mem /\ ~served
  BY NotServed DEF createGuestTarget, Doing, GuestInv, DeliveryOK
<1>1. PICK k \in dv.todo : dirs' = [dirs EXCEPT ![<<Root, <<k>>>>] = Closed(Root)] BY DEF createGuestTarget
<1>2. Root \in {"home", "at"} /\ <<k>> \in FileNames
  BY ProfileIs DEF GuestInv, GuestTypes, DeliverySet, FileNames
<1>3. Closed(Root) \in DirKinds /\ Closed(Root).to = Mem(Root) BY <1>2 DEF Closed, DirKinds, Mem
<1> DEFINE t == <<Root, <<k>>>>
           c == Closed(Root)
<1>4. t \in DirSet BY <1>2, DirIs
<1>5. dirs' = [dirs EXCEPT ![t] = c] /\ c \in DirKinds BY <1>1, <1>3
<1> HIDE DEF t, c
<1>6. dirs' \in [DirSet -> DirKinds] /\ \A d \in DirSet : dirs'[d] = dirs[d] \/ (d = t /\ dirs'[d] = c)
  BY <1>4, <1>5 DEF GuestInv, GuestTypes
<1>7. DirsOK'
  <2> SUFFICES ASSUME NEW r \in {"home", "at"}, NEW f \in FileNames
               PROVE  dirs'[<<r, f>>].to \in {Mem(r), "away", "nowhere"} /\ (f = <<>> => dirs'[<<r, f>>].to = Mem(r))
    BY DEF DirsOK, Mem
  <2>1. <<r, f>> \in DirSet BY DirIs
  <2>2. CASE dirs'[<<r, f>>] = dirs[<<r, f>>] BY <2>2 DEF GuestInv, GuestTypes, DirsOK
  <2>3. CASE <<r, f>> = t /\ dirs'[<<r, f>>] = c
    <3>1. r = Root BY <2>3 DEF t
    <3> QED BY <1>3, <2>3, <3>1 DEF c
  <2> QED BY <1>6, <2>1, <2>2, <2>3
<1>8. BindOK' /\ ProfileValid(gp)' BY <1>0, SameMounts DEF GuestInv, GuestTypes
<1>9. GuestTypes' BY <1>0, <1>6, <1>7, <1>8 DEF GuestInv, GuestTypes
<1> QED BY <1>0, <1>9 DEF GuestInv, DeliveryOK, Pin

LEMMA BindBackInv == ASSUME GuestInv, BindBack PROVE GuestInv'
<1>0. UNCHANGED <<gp, rt, cover, dirs, cred, served, spilled>> /\ dv.pc = "bind" /\ gp.mem /\ ~served
  BY NotServed DEF BindBack, Doing, GuestInv, DeliveryOK
<1>1. PICK k \in dv.todo : /\ BindTo(<<Mem(Root), k>>, IF gp.at THEN Node("home", k) ELSE bind[Pin(k)])
                           /\ To("bind", dv.todo \ {k})
  BY DEF BindBack
<1>2. k \in KeptNames /\ k \in gp.keep /\ dv.todo \ {k} \in SUBSET KeptNames
  BY <1>0 DEF GuestInv, GuestTypes, DeliveryOK, DeliverySet
<1>3. gp.at => Node("home", k) = Share(k)
  <2>1. gp.at => Base("home") = "share" BY <1>0 DEF Base, GuestInv, DeliveryOK
  <2> QED BY <1>2, <2>1, NodeIs DEF Share, GuestInv, GuestTypes
<1>4. ~gp.at => bind[Pin(k)] = Share(k)
  <2>1. ~gp.at => Pin(k) \in DOMAIN bind BY <1>0, <1>2 DEF GuestInv, DeliveryOK
  <2>2. Pin(k)[2] = k BY DEF Pin
  <2> QED BY <2>1, <2>2 DEF GuestInv, GuestTypes, BindOK
<1>5. (IF gp.at THEN Node("home", k) ELSE bind[Pin(k)]) = Share(k) BY <1>3, <1>4
<1>6. <<Mem(Root), k>> \in {"pin", "home memory", "at memory"} \X KeptNames /\ <<Mem(Root), k>>[2] = k
  BY <1>2, ProfileIs DEF GuestInv, GuestTypes
<1>7. BindOK' /\ DOMAIN bind' = DOMAIN bind \cup {<<Mem(Root), k>>}
  BY <1>1, <1>5, <1>6, BindsOne DEF GuestInv, GuestTypes
<1>8. dv' \in DeliverySet /\ dv'.pc = "bind" /\ dv'.todo = dv.todo \ {k} BY <1>1, <1>2, MovesOn DEF DeliveryPlaces
<1>9. GuestTypes' BY <1>0, <1>7, <1>8 DEF GuestInv, GuestTypes, DirsOK, Mem, ProfileValid, EphemeralPath
<1> QED BY <1>0, <1>7, <1>8, <1>9 DEF GuestInv, DeliveryOK, Pin

LEMMA CheckMountsInv == ASSUME GuestInv, CheckMounts PROVE GuestInv'
<1>0. UNCHANGED <<gp, rt, served, spilled>> /\ dv.pc \in {"check", "bind"} /\ gp.mem /\ ~served
  BY NotServed DEF CheckMounts, Doing, GuestInv, DeliveryOK
<1>1. CASE Kept /\ To("verify", {}) /\ UNCHANGED Guest
  <2>1. dv' \in DeliverySet /\ dv'.pc = "verify" BY <1>1, MovesOn DEF DeliveryPlaces
  <2>2. GuestTypes' /\ Kept' /\ ~spilled' BY <1>0, <1>1, <2>1, GuestSame, MountsStay
  <2> QED BY <1>0, <2>1, <2>2 DEF GuestInv, DeliveryOK
<1>2. CASE Stop BY <1>0, <1>2, StopInv
<1> QED BY <1>1, <1>2 DEF CheckMounts, Kept

LEMMA VerifyVolumesInv == ASSUME GuestInv, VerifyVolumes PROVE GuestInv'
<1>0. UNCHANGED <<gp, rt, served, spilled>> /\ dv.pc = "verify" /\ gp.mem /\ ~served /\ Kept
  BY NotServed DEF VerifyVolumes, Doing, GuestInv, DeliveryOK
<1>1. CASE Stop BY <1>0, <1>1, StopInv
<1> DEFINE pc == IF gp.file = {} THEN "release" ELSE "hold"
<1>2. CASE Root \in cover /\ dv' = [dv EXCEPT !.pc = pc, !.calm = gp.file = {}] /\ UNCHANGED Guest
  <2>1. pc \in DeliveryPlaces /\ pc \in {"release", "hold"} /\ (pc = "release" <=> gp.file = {})
    BY DEF DeliveryPlaces
  <2> HIDE DEF pc
  <2>2. dv' \in DeliverySet /\ dv'.pc = pc BY <1>2, <2>1 DEF GuestInv, GuestTypes, DeliverySet
  <2>3. GuestTypes' /\ Kept' /\ ~spilled' /\ Root' = Root /\ cover' = cover
    BY <1>0, <1>2, <2>2, GuestSame, MountsStay
  <2>4. gp.file = {} => WholeFile' BY <1>0 DEF WholeFile
  <2> QED BY <1>0, <1>2, <2>1, <2>2, <2>3, <2>4 DEF GuestInv, DeliveryOK
<1> QED BY <1>1, <1>2 DEF VerifyVolumes

(* A delivery past the checks of its mounts. *)
LEMMA Delivers ==
    ASSUME GuestInv, dv.pc \in {"hold", "way", "create", "inspect", "feed"}
    PROVE  /\ gp.mem /\ ~served /\ Kept /\ Root \in cover /\ gp.file # {} /\ GuestTypes /\ ~spilled
           /\ Root \in {"home", "at"} /\ Target \in FileNames /\ gp.file = {Target}
           /\ <<Root, <<>>>> \in DirSet /\ <<Root, Target>> \in DirSet
           /\ dirs[<<Root, <<>>>>].to = Mem(Root) /\ Here(<<Root, <<>>>>)
           /\ (Target = <<>> => Here(<<Root, Target>>) /\ <<Root, Target>> = <<Root, <<>>>>)
<1>1. gp \in Profiles /\ gp.file # {} /\ gp.mem /\ Root \in cover /\ Kept /\ ~served /\ GuestTypes /\ ~spilled
  BY DEF GuestInv, GuestTypes, DeliveryOK
<1>2. Root \in {"home", "at"} /\ Target \in FileNames /\ gp.file = {Target} /\ <<>> \in FileNames
  BY <1>1, ProfileIs, TargetIs DEF FileNames
<1>3. dirs[<<Root, <<>>>>].to = Mem(Root) BY <1>2 DEF GuestInv, GuestTypes, DirsOK
<1>4. ~Bound(Root, <<>>) BY DEF Bound
<1> QED BY <1>1, <1>2, <1>3, <1>4, DirIs

LEMMA HoldInv == ASSUME GuestInv, Hold PROVE GuestInv'
<1>0. UNCHANGED <<gp, rt, cover, bind, cred, served, spilled>> /\ dv.pc = "hold" BY DEF Hold, Doing
<1> DEFINE R == <<Root, <<>>>>
           pc == IF Target = <<>> THEN "create" ELSE "way"
<1>1. dirs' \in [DirSet -> DirKinds] /\ SameWay /\ dirs'[R].owner = "root"
  <2>1. R \in DirSet /\ Here(R) BY <1>0, Delivers
  <2>2. dirs' = Chowned({R}, "root") BY DEF Hold
  <2> HIDE DEF R
  <2> QED BY <2>1, <2>2, Chowns DEF GuestInv
<1>2. pc \in DeliveryPlaces /\ pc \in {"create", "way"} /\ (pc = "create" <=> Target = <<>>) /\ To(pc, {})
  BY DEF Hold, DeliveryPlaces
<1> HIDE DEF pc
<1>3. dv' \in DeliverySet /\ dv'.pc = pc BY <1>2, MovesOn
<1>4. GuestTypes' /\ Kept' = Kept /\ Root' = Root /\ Target' = Target /\ ~spilled' BY <1>0, <1>1, <1>3, MountsStay
<1>5. TopHeld' BY <1>1, <1>4 DEF TopHeld
<1>6. Target = <<>> => Taken' BY <1>1, <1>4 DEF Taken
<1> QED BY <1>0, <1>2, <1>3, <1>4, <1>5, <1>6, Delivers DEF GuestInv, DeliveryOK

LEMMA HoldWayInv == ASSUME GuestInv, HoldWay PROVE GuestInv'
<1>0. UNCHANGED <<gp, rt, served, spilled>> /\ dv.pc = "way" BY DEF HoldWay, Doing
<1>1. CASE Stop BY <1>0, <1>1, StopInv
<1>2. CASE dirs' = Chowned({<<Root, Target>>}, "root") /\ To("create", {}) /\ UNCHANGED <<cover, bind, cred>>
  <2> DEFINE R == <<Root, <<>>>>
             T == <<Root, Target>>
  <2>1. R \in DirSet /\ T \in DirSet /\ dirs[R].owner = "root" BY <1>0, RootsWay
  <2>2. dirs' = Chowned({T}, "root") BY <1>2
  <2>3. dirs' \in [DirSet -> DirKinds] /\ SameWay /\ dirs'[R].owner = "root" /\ (Here(T) => dirs'[T].owner = "root")
    <3> HIDE DEF R, T
    <3> QED BY <2>1, <2>2, Chowns DEF GuestInv
  <2>4. dv' \in DeliverySet /\ dv'.pc = "create" BY <1>2, MovesOn DEF DeliveryPlaces
  <2>5. /\ GuestTypes' /\ Kept' = Kept /\ Root' = Root /\ Target' = Target /\ ~spilled'
        /\ (gp.file # {} => (Here(<<Root, Target>>)' <=> Here(<<Root, Target>>)))
    BY <1>0, <1>2, <2>3, <2>4, MountsStay
  <2>6. gp.file # {} /\ gp.mem /\ Kept /\ Root \in cover /\ ~served BY <1>0, Delivers
  <2>7. TopHeld' BY <2>3, <2>5 DEF TopHeld
  <2>8. Taken' BY <2>3, <2>5, <2>6 DEF Taken
  <2> QED BY <1>0, <1>2, <2>4, <2>5, <2>6, <2>7, <2>8 DEF GuestInv, DeliveryOK
<1> QED BY <1>1, <1>2 DEF HoldWay

(* A step of a delivery on the file alone. *)
LEMMA WritesFile ==
    ASSUME GuestInv, dv.pc \in {"create", "inspect", "feed"}, UNCHANGED <<gp, rt, cover, dirs, bind, served>>,
           cred' \in [NodeSet -> FileKinds], dv' \in DeliverySet, dv'.pc \in {"inspect", "feed"}, ~spilled',
           dv'.pc = "feed" => ~Bound(Root, Target) /\ (Loose(Root, Target) \/ Safe(There)')
    PROVE  GuestInv'
<1>1. dirs' \in [DirSet -> DirKinds] /\ SameWay /\ GuestTypes BY SameDirs DEF GuestInv
<1>2. GuestTypes' BY <1>1, TypesStay
<1>3. Root' = Root /\ Target' = Target /\ Kept' = Kept /\ Bound(Root, Target)' = Bound(Root, Target) BY SameMounts
<1>4. gp.file # {} /\ gp.mem /\ Kept /\ Root \in cover /\ ~served /\ Target \in FileNames BY Delivers
<1>5. /\ Loose(Root, Target)' <=> Loose(Root, Target)
      /\ Here(<<Root, Target>>)' <=> Here(<<Root, Target>>)
  BY <1>1, <1>3, <1>4, SameWays
<1>6. TopHeld' /\ Taken'
  <2>1. TopHeld /\ Taken BY DEF GuestInv, DeliveryOK
  <2> QED BY <1>3, <1>5, <2>1 DEF TopHeld, Taken
<1> QED BY <1>2, <1>3, <1>4, <1>5, <1>6 DEF GuestInv, DeliveryOK

LEMMA ThereIs ==
    ASSUME GuestInv, dv.pc \in {"create", "inspect", "feed"}
    PROVE  /\ InMemory(There) => There \in NodeSet /\ cred[There] \in FileKinds
           /\ There[1] = "away" => ~Bound(Root, Target) /\ Loose(Root, Target)
           /\ InMemory(There) => ~Bound(Root, Target)
           /\ UNCHANGED <<gp, cover, dirs, bind>> => There' = There
<1>1. Root \in cover /\ Target \in FileNames /\ GuestTypes /\ Root \in {"home", "at"} BY Delivers
<1>2. InMemory(There) => There \in NodeSet /\ ~Bound(Root, Target) BY <1>1, MemoryIs DEF There
<1>3. There \in NodeSet => cred[There] \in FileKinds BY <1>1 DEF GuestTypes
<1>4. ASSUME There[1] = "away" PROVE ~Bound(Root, Target) /\ Loose(Root, Target)
  <2>1. ~Bound(Root, Target) BY <1>1, <1>4, BoundIs DEF GuestTypes, There
  <2>2. dirs[<<Root, Target>>].to = "away" BY <1>1, <1>4, <2>1, FileNodeIs DEF There
  <2> QED BY <2>1, <2>2 DEF Loose, Way
<1>5. ASSUME UNCHANGED <<gp, cover, dirs, bind>> PROVE There' = There
  <2>1. Root' = Root /\ Target' = Target BY <1>5, SameMounts
  <2>2. SameWay BY <1>5 DEF SameWay
  <2> QED BY <1>1, <1>5, <2>1, <2>2, SameWays DEF There
<1> QED BY <1>2, <1>3, <1>4, <1>5

LEMMA CreateFileInv == ASSUME GuestInv, CreateFile PROVE GuestInv'
<1>0. UNCHANGED <<gp, rt, served, spilled>> /\ dv.pc = "create" /\ ~spilled BY DEF CreateFile, Doing, GuestInv
<1>1. CASE /\ InMemory(There) /\ cred' = [cred EXCEPT ![There] = [k |-> "file", n |-> 0]] /\ To("inspect", {})
           /\ UNCHANGED <<cover, dirs, bind>>
  <2>1. dv' \in DeliverySet /\ dv'.pc = "inspect" BY <1>1, MovesOn DEF DeliveryPlaces
  <2>2. There \in NodeSet BY <1>0, <1>1, ThereIs
  <2> DEFINE t == There
             x == [k |-> "file", n |-> 0]
  <2>3. cred' = [cred EXCEPT ![t] = x] /\ t \in NodeSet /\ x \in FileKinds BY <1>1, <2>2 DEF FileKinds
  <2> HIDE DEF t, x
  <2>4. cred' \in [NodeSet -> FileKinds] BY <2>3 DEF GuestInv, GuestTypes
  <2> QED BY <1>0, <1>1, <2>1, <2>4, WritesFile
<1>2. CASE To("inspect", {}) /\ UNCHANGED Guest
  <2>1. dv' \in DeliverySet /\ dv'.pc = "inspect" BY <1>2, MovesOn DEF DeliveryPlaces
  <2>2. UNCHANGED <<cover, dirs, bind, cred>> /\ cred \in [NodeSet -> FileKinds] BY <1>2 DEF Guest, GuestInv, GuestTypes
  <2> QED BY <1>0, <2>1, <2>2, WritesFile
<1>3. CASE GiveUp BY <1>0, <1>3, GiveUpInv
<1> QED BY <1>1, <1>2, <1>3 DEF CreateFile

LEMMA InspectFileInv == ASSUME GuestInv, InspectFile PROVE GuestInv'
<1>0. UNCHANGED <<gp, rt, served, spilled>> /\ dv.pc = "inspect" /\ ~spilled BY DEF InspectFile, Doing, GuestInv
<1>1. CASE (Safe(There) \/ There[1] = "away") /\ dv' = [dv EXCEPT !.pc = "feed", !.n = 0] /\ UNCHANGED Guest
  <2>1. dv' \in DeliverySet /\ dv'.pc = "feed" BY <1>1 DEF DeliveryPlaces, DeliverySet, GuestInv, GuestTypes
  <2>2. UNCHANGED <<cover, dirs, bind, cred>> /\ cred \in [NodeSet -> FileKinds] BY <1>1 DEF Guest, GuestInv, GuestTypes
  <2>3. There' = There BY <1>0, <2>2, ThereIs
  <2>4. ~Bound(Root, Target) /\ (Loose(Root, Target) \/ Safe(There)) BY <1>0, <1>1, ThereIs DEF Safe
  <2>5. Safe(There)' <=> Safe(There) BY <2>2, <2>3 DEF Safe, InMemory
  <2> QED BY <1>0, <2>1, <2>2, <2>4, <2>5, WritesFile
<1>2. CASE GiveUp BY <1>0, <1>2, GiveUpInv
<1> QED BY <1>1, <1>2 DEF InspectFile

LEMMA FeedInv == ASSUME GuestInv, Feed PROVE GuestInv'
<1>0. UNCHANGED <<gp, rt, cover, dirs, bind, served>> /\ dv.pc = "feed" /\ ~spilled BY DEF Feed, Doing, GuestInv
<1>1. dv' \in DeliverySet /\ dv'.pc = "feed" BY <1>0 DEF Feed, DeliverySet, GuestInv, GuestTypes
<1>2. ~Bound(Root, Target) /\ (Loose(Root, Target) \/ Safe(There)) BY <1>0 DEF GuestInv, DeliveryOK
<1>3. There' = There BY <1>0, ThereIs
<1>4. CASE UNCHANGED <<cred, spilled>>
  <2>1. Safe(There)' <=> Safe(There) BY <1>3, <1>4 DEF Safe, InMemory
  <2>2. cred' \in [NodeSet -> FileKinds] BY <1>4 DEF GuestInv, GuestTypes
  <2> QED BY <1>0, <1>1, <1>2, <1>4, <2>1, <2>2, WritesFile
<1>5. CASE /\ InMemory(There) /\ cred' = [cred EXCEPT ![There] = Appended(@)]
           /\ spilled' = (spilled \/ (cred[There].k = "link" /\ ~Loose(Root, Target)))
  <2>1. There \in NodeSet /\ cred[There] \in FileKinds BY <1>0, <1>5, ThereIs
  <2> DEFINE t == There
             x == Appended(cred[t])
  <2>2. x \in FileKinds /\ (cred[t].k = "file" => x.k = "file")
    <3>1. CASE cred[t].k = "link" BY <2>1, <3>1 DEF Appended
    <3>2. CASE cred[t].k # "link"
      <4>1. Pieces < cred[t].n \/ ~(Pieces < cred[t].n) OBVIOUS
      <4>2. cred[t].n \in Nat BY <2>1 DEF FileKinds
      <4>3. x.n \in {cred[t].n, cred[t].n + 1} /\ x = [k |-> "file", n |-> x.n] BY <3>2 DEF Appended
      <4> QED BY <4>2, <4>3 DEF FileKinds
    <3> QED BY <3>1, <3>2
  <2>3. cred' = [cred EXCEPT ![t] = x] BY <1>5
  <2>4. t \in NodeSet BY <2>1
  <2> HIDE DEF t, x
  <2>5. cred' \in [NodeSet -> FileKinds] /\ cred'[t] = x BY <2>2, <2>3, <2>4 DEF GuestInv, GuestTypes
  <2>6. Safe(There) => Safe(There)' BY <1>3, <2>2, <2>5 DEF Safe, InMemory, t
  <2>7. ~spilled' BY <1>0, <1>2, <1>5 DEF Safe
  <2> QED BY <1>0, <1>1, <1>2, <2>5, <2>6, <2>7, WritesFile
<1>6. CASE ~InMemory(There) /\ spilled' = (spilled \/ ~Loose(Root, Target)) /\ UNCHANGED cred
  <2>1. Loose(Root, Target) BY <1>2, <1>6 DEF Safe
  <2>2. ~spilled' BY <1>0, <1>6, <2>1
  <2>3. cred' \in [NodeSet -> FileKinds] BY <1>6 DEF GuestInv, GuestTypes
  <2> QED BY <1>0, <1>1, <1>2, <2>1, <2>2, <2>3, WritesFile
<1> QED BY <1>4, <1>5, <1>6 DEF Feed

LEMMA CheckSizeInv == ASSUME GuestInv, CheckSize PROVE GuestInv'
<1>0. UNCHANGED <<gp, rt, served, spilled>> /\ dv.pc = "feed" BY DEF CheckSize, Doing
<1>1. CASE /\ InMemory(There) => Entire(There) \/ cred[There].k \in {"link", "dir"}
           /\ dv' = [dv EXCEPT !.pc = "release", !.calm = TRUE] /\ dirs' = Chowned(credentialDirs, "guest")
           /\ UNCHANGED <<cover, bind, cred>>
  <2>1. dv' \in DeliverySet /\ dv'.pc = "release"
    BY <1>1 DEF DeliveryPlaces, DeliverySet, GuestInv, GuestTypes
  <2>2. dirs' \in [DirSet -> DirKinds] /\ SameWay BY <1>1, Chowns DEF GuestInv
  <2>3. Loose(Root, Target) \/ Safe(There) BY <1>0 DEF GuestInv, DeliveryOK
  <2>4. Loose(Root, Target) \/ (InMemory(There) /\ Entire(There)) BY <1>1, <2>3 DEF Safe
  <2>5. /\ gp.file = {Target} /\ gp.mem /\ Kept /\ Root \in cover /\ ~served BY <1>0, Delivers
  <2>6. WholeFile BY <2>4, <2>5 DEF WholeFile, There
  <2>7. GuestTypes' /\ Kept' = Kept /\ Root' = Root /\ WholeFile' /\ ~spilled'
    BY <1>0, <1>1, <2>1, <2>2, <2>6, MountsStay
  <2> QED BY <1>0, <1>1, <2>1, <2>5, <2>7 DEF GuestInv, DeliveryOK
<1>2. CASE GiveUp BY <1>0, <1>2, GiveUpInv
<1> QED BY <1>1, <1>2 DEF CheckSize

LEMMA ReleaseDirInv == ASSUME GuestInv, ReleaseDir PROVE GuestInv'
<1>0. /\ UNCHANGED <<gp, rt, cover, bind, cred, served, spilled>> /\ dv.pc = "release" /\ gp.mem /\ ~served
      /\ Kept /\ Root \in cover /\ (dv.calm => WholeFile)
  BY NotServed DEF ReleaseDir, Doing, GuestInv, DeliveryOK
<1>1. dv' \in DeliverySet /\ dv'.pc = "done" /\ dv'.calm = dv.calm BY MovesOn DEF ReleaseDir, DeliveryPlaces
<1>2. dirs' \in [DirSet -> DirKinds] /\ SameWay BY Chowns DEF ReleaseDir, GuestInv
<1>3. GuestTypes' /\ Kept' = Kept /\ Root' = Root /\ (WholeFile => WholeFile') /\ ~spilled'
  BY <1>0, <1>1, <1>2, MountsStay
<1> QED BY <1>0, <1>1, <1>3 DEF GuestInv, DeliveryOK

LEMMA DeliveredInv == ASSUME GuestInv, Delivered PROVE GuestInv'
<1>0. /\ UNCHANGED <<gp, rt, spilled>> /\ UNCHANGED Guest /\ dv.pc = "done" /\ served' = dv.calm
      /\ (dv.calm => WholeFile) /\ (gp.mem => Kept /\ Root \in cover)
  BY DEF Delivered, Doing, GuestInv, DeliveryOK
<1>1. dv'.pc = "idle" /\ dv' \in DeliverySet BY DEF Delivered, NoDelivery, DeliveryPlaces, DeliverySet
<1>2. UNCHANGED <<cover, bind, cred>> /\ dirs' \in [DirSet -> DirKinds] /\ SameWay BY <1>0, GuestSame
<1>3. GuestTypes' /\ Kept' = Kept /\ Root' = Root /\ (WholeFile => WholeFile') /\ ~spilled'
  BY <1>0, <1>1, <1>2, MountsStay
<1> QED BY <1>0, <1>1, <1>2, <1>3 DEF GuestInv, DeliveryOK

-----------------------------------------------------------------------------
LEMMA GuestStart == ASSUME GuestFileInit PROVE GuestInv
<1>1. gp \in Profiles /\ ProfileValid(gp) BY DEF GuestFileInit
<1>2. /\ cover = Mounted(gp)[1] /\ bind = Mounted(gp)[2] /\ dirs = Fresh(bind)
      /\ cred = [n \in Nodes |-> NoFile]
  BY DEF GuestFileInit
<1>3. /\ cover \subseteq {"home", "at"} /\ dirs \in [DirSet -> DirKinds] /\ cred \in [NodeSet -> FileKinds]
      /\ BindOK /\ DirsOK
  <2>1. cover \subseteq {"home", "at"} /\ BindOK BY <1>1, <1>2, MountedIs DEF BindOK
  <2>2. dirs \in [DirSet -> DirKinds] BY <1>2, FreshIs
  <2>3. DirsOK BY <1>2, BootedIs DEF DirsOK
  <2> QED BY <1>2, <2>1, <2>2, <2>3, EmptyFiles
<1>4. dv \in DeliverySet /\ dv.pc = "idle" BY DEF GuestFileInit, NoDelivery, DeliveryPlaces, DeliverySet
<1>5. GuestTypes BY <1>1, <1>3, <1>4 DEF GuestFileInit, GuestTypes
<1> QED BY <1>4, <1>5 DEF GuestFileInit, GuestInv, DeliveryOK

LEMMA GuestStep == ASSUME GuestInv, [GuestFileNext]_guestFileVars PROVE GuestInv'
<1>1. CASE UNCHANGED guestFileVars
  <2>1. UNCHANGED <<gp, rt, cover, dirs, bind, cred, dv, served, spilled>> BY <1>1 DEF guestFileVars
  <2>2. dirs' \in [DirSet -> DirKinds] /\ SameWay /\ dv' \in DeliverySet BY <2>1, SameDirs DEF GuestInv, GuestTypes
  <2>3. /\ GuestTypes' /\ Root' = Root /\ Target' = Target /\ Kept' = Kept /\ ~spilled' /\ (WholeFile => WholeFile')
        /\ gp.file # {} => /\ (Loose(Root, Target)' <=> Loose(Root, Target))
                           /\ (Here(<<Root, Target>>)' <=> Here(<<Root, Target>>))
                           /\ (Safe(There)' <=> Safe(There)) /\ Bound(Root, Target)' = Bound(Root, Target)
    BY <2>1, <2>2, MountsStay
  <2>4. (TopHeld => TopHeld') /\ (gp.file # {} /\ Taken => Taken') BY <2>1, <2>3 DEF TopHeld, Taken
  <2>5. DeliveryOK BY DEF GuestInv
  <2>6. DeliveryOK' BY <2>1, <2>3, <2>4, <2>5 DEF DeliveryOK, Pin
  <2> QED BY <2>3, <2>6 DEF GuestInv
<1>2. CASE GuestFileNext
  BY <1>2, EditProfileInv, RebootInv, MountDroppedInv, HomeChangesInv, AgentPlantsInv, AgentRearrangesInv,
     AgentOpensInv, PrepareInv, CommandFailsInv, ReadTableInv, PinOneInv, CoverItInv, CreateTargetInv, BindBackInv,
     CheckMountsInv, VerifyVolumesInv, HoldInv, HoldWayInv, CreateFileInv, InspectFileInv, FeedInv, CheckSizeInv,
     ReleaseDirInv, DeliveredInv
  DEF GuestFileNext
<1> QED BY <1>1, <1>2

LEMMA GuestHolds == ASSUME GuestInv PROVE CredentialInMemory
<1>1. served => \A k \in gp.keep : Node(Root, k) = Share(k)
  <2> SUFFICES ASSUME served, NEW k \in gp.keep PROVE Node(Root, k) = Share(k) OBVIOUS
  <2>1. gp.mem BY DEF GuestInv, GuestTypes, ProfileValid
  <2>2. k \in KeptNames /\ Root \in {"home", "at"} BY ProfileIs DEF GuestInv, GuestTypes
  <2>3. <<Mem(Root), k>> \in DOMAIN bind /\ Base(Root) = Mem(Root)
    BY <2>1 DEF GuestInv, DeliveryOK, Kept, Base
  <2> QED BY <2>2, <2>3, NodeIs DEF GuestInv, GuestTypes
<1> QED BY <1>1 DEF GuestInv, DeliveryOK, WholeFile, CredentialInMemory

\* However earlier deliveries ended, whatever they left mounted and whatever the agent
\* makes of the credential's path and of the directories on the way to it: no piece of a
\* credential is written out of memory or through a link, unless the way is loose, that is
\* the agent had a link on it or had opened a directory of it to others; and what a
\* delivery that succeeded leaves is whole, on memory, with the same exception, beside
\* the host's own kept directories (secretfiles.go:196-374, 396-574).
THEOREM CredentialsInMemory == GuestSpec => []CredentialInMemory
<1>1. GuestFileInit => GuestInv BY GuestStart
<1>2. GuestInv /\ [GuestFileNext]_guestFileVars => GuestInv' BY GuestStep
<1>3. GuestInv => CredentialInMemory BY GuestHolds
<1> QED BY <1>1, <1>2, <1>3, PTL DEF GuestSpec

-----------------------------------------------------------------------------
(* The look at .git (GitWatch). *)

GitSpec == GitInit /\ [][GitNext]_gitVars

GitPlaces == {"idle", "act", "forget", "look", "record"}
LookSet == PathSet \X [size : Nat, id : Nat] \X Contents
CommandSet == [pc : GitPlaces, verb : {"none", "run", "rm"}, quiet : BOOLEAN, project : Projects \cup {"none"},
               at : Projects \cup {"none"}, i : Nat \ {0}, left : Int, look : SUBSET LookSet, first : BOOLEAN,
               changed : {{}}]
GitTypes ==
    /\ tree \in [Projects -> [PathSet -> SUBSET Contents]]
    /\ gw \in CommandSet
    /\ \A e \in entry : e.project \in Projects
    /\ \A e, f \in entry : e = f

(* A description is of the content beside it: its size, and its hash or none. *)
Describes(l) == l[2].size = l[3].size /\ l[2].id \in {l[3].id, 0}

(* A look is compared with the entry of the project that it is of. *)
LookOK ==
    /\ \A l \in gw.look : Describes(l)
    /\ gw.pc \in {"look", "record"} => gw.at \in Projects /\ gw.project \in Projects
    /\ gw.pc = "look" /\ ~gw.first => \E e \in entry : e.project = gw.at
    /\ gw.pc = "record" =>
         \A l \in gw.look : l[2].id # 0 => <<gw.project, l[1], l[3]>> \in heard

GitInv == GitTypes /\ LookOK /\ ChangeIsHeard

-----------------------------------------------------------------------------
(* What was heard stays heard, so an entry that stays is as good as before. *)
LEMMA StaysHeard ==
    ASSUME ChangeIsHeard, entry' \subseteq entry, heard \subseteq heard'
    PROVE  ChangeIsHeard'
  BY DEF ChangeIsHeard

(* A command that goes on, or ends, without an entry that is new. *)
LEMMA GoesOn ==
    ASSUME GitInv, gw' \in CommandSet, gw'.pc \notin {"look", "record"}, gw'.look \subseteq gw.look,
           entry' \subseteq entry, UNCHANGED <<tree, heard>>
    PROVE  GitInv'
<1>1. GitTypes' BY DEF GitInv, GitTypes
<1>2. LookOK' BY DEF GitInv, LookOK
<1> QED BY <1>1, <1>2, StaysHeard DEF GitInv

LEMMA IdleType == Idle \in CommandSet /\ Idle.pc = "idle" /\ Idle.look = {}
  BY GitAssumption DEF Idle, CommandSet, GitPlaces

LEMMA EndsInv == ASSUME GitInv, gw' = Idle, entry' \subseteq entry, UNCHANGED <<tree, heard>> PROVE GitInv'
  BY IdleType, GoesOn

LEMMA WritesInv == ASSUME GitInv, GuestWrites \/ UserDeletes PROVE GitInv'
<1>1. UNCHANGED <<entry, gw, heard>> BY DEF GuestWrites, UserDeletes
<1>2. tree' \in [Projects -> [PathSet -> SUBSET Contents]]
  <2>1. CASE GuestWrites
    <3>1. PICK p \in shared \ gone, q \in PathSet : \E c \in {{}} \cup {{x} : x \in Contents} :
            tree' = [tree EXCEPT ![p][q] = c]
      BY <2>1 DEF GuestWrites
    <3>2. PICK c \in SUBSET Contents : tree' = [tree EXCEPT ![p][q] = c] BY <3>1
    <3> QED BY <3>2 DEF GitInv, GitTypes
  <2>2. CASE UserDeletes
    <3>1. PICK p \in Projects : tree' = [tree EXCEPT ![p] = [q \in PathSet |-> {}]] BY <2>2 DEF UserDeletes
    <3> QED BY <3>1 DEF GitInv, GitTypes
  <2> QED BY <2>1, <2>2
<1> QED BY <1>1, <1>2 DEF GitInv, GitTypes, LookOK, ChangeIsHeard

LEMMA PrevIs ==
    ASSUME GitTypes
    PROVE  /\ entry = {} => Prev = "none"
           /\ entry # {} => Prev \in Projects /\ \E e \in entry : e.project = Prev
  BY DEF GitTypes, Prev

LEMMA CommandInv == ASSUME GitInv, Command PROVE GitInv'
<1>1. PICK verb \in {"run", "rm"}, quiet \in BOOLEAN, arg \in Projects \cup {"none"} :
     /\ verb = "rm" => arg = "none" /\ shared # {}
     /\ LET project == IF arg = "none" THEN Prev ELSE arg
            at == IF Prev \in Projects \ gone THEN Prev ELSE project
        IN  gw' = [Idle EXCEPT !.pc = IF project = "none" THEN "act" ELSE IF at \in gone THEN "forget" ELSE "look",
                     !.verb = verb, !.quiet = quiet, !.project = project, !.at = at, !.first = at # Prev]
  BY DEF Command
<1> DEFINE project == IF arg = "none" THEN Prev ELSE arg
           at == IF Prev \in Projects \ gone THEN Prev ELSE project
           pc == IF project = "none" THEN "act" ELSE IF at \in gone THEN "forget" ELSE "look"
           first == at # Prev
<1>2. gw' = [Idle EXCEPT !.pc = pc, !.verb = verb, !.quiet = quiet, !.project = project, !.at = at,
                 !.first = first]
  BY <1>1
<1>3. project \in Projects \cup {"none"} /\ at \in Projects \cup {"none"} /\ pc \in {"act", "forget", "look"}
  BY PrevIs DEF GitInv
<1>4. /\ pc = "look" /\ at = Prev => \E e \in entry : e.project = at
      /\ pc = "look" => at \in Projects /\ project \in Projects
  BY PrevIs, GitAssumption DEF GitInv
<1>4a. first \in BOOLEAN OBVIOUS
<1> HIDE DEF project, at, pc, first
<1>5. /\ gw' \in CommandSet /\ gw'.pc = pc /\ gw'.look = {} /\ gw'.at = at /\ gw'.first = first
      /\ gw'.project = project
  BY <1>2, <1>3, <1>4a, IdleType DEF CommandSet, GitPlaces
<1>6. UNCHANGED <<tree, entry, heard>> BY DEF Command
<1>7. GitTypes' BY <1>5, <1>6 DEF GitInv, GitTypes
<1>8. LookOK' BY <1>3, <1>4, <1>5, <1>6 DEF LookOK, first
<1> QED BY <1>6, <1>7, <1>8, StaysHeard DEF GitInv

LEMMA LookAtInv == ASSUME GitInv, LookAt PROVE GitInv'
<1> DEFINE q == Paths[gw.i]
           seen == IF Watched(q) THEN tree[gw.at][q] ELSE {}
           new == {<<q, Described(c), c>> : c \in seen}
           left == IF \E c \in seen : c.size <= gw.left THEN gw.left - (CHOOSE c \in seen : TRUE).size ELSE gw.left
<1>1. /\ gw' = [gw EXCEPT !.i = @ + 1, !.look = @ \cup new, !.left = left]
      /\ gw.pc = "look" /\ gw.i <= 3 /\ UNCHANGED <<tree, entry, heard>>
  BY DEF LookAt, Paths
<1>2. q \in PathSet
  <2>1. gw.i \in Nat \ {0} BY DEF GitInv, GitTypes, CommandSet
  <2>2. gw.i = 1 \/ gw.i = 2 \/ gw.i = 3 BY <1>1, <2>1
  <2> QED BY <2>2 DEF Paths, PathSet
<1>3. seen \subseteq Contents
  BY <1>1, <1>2 DEF GitInv, GitTypes, LookOK
<1>4. new \subseteq LookSet /\ \A l \in new : Describes(l)
  BY <1>2, <1>3, GitAssumption DEF LookSet, Described, Describes
<1>5. left \in Int
  <2>1. gw.left \in Int BY DEF GitInv, GitTypes, CommandSet
  <2>2. seen # {} => (CHOOSE c \in seen : TRUE) \in Contents BY <1>3
  <2> HIDE DEF seen
  <2> QED BY <2>1, <2>2, GitAssumption
<1> HIDE DEF q, seen, new, left
<1>5a. gw.i + 1 \in Nat \ {0} /\ gw.look \cup new \in SUBSET LookSet
  BY <1>4 DEF GitInv, GitTypes, CommandSet
<1>6. /\ gw' \in CommandSet /\ gw'.pc = gw.pc /\ gw'.look = gw.look \cup new /\ gw'.at = gw.at
      /\ gw'.first = gw.first /\ gw'.project = gw.project
  BY <1>1, <1>5, <1>5a DEF GitInv, GitTypes, CommandSet
<1>7. GitTypes' BY <1>1, <1>6 DEF GitInv, GitTypes
<1>8. LookOK' BY <1>1, <1>4, <1>6 DEF GitInv, LookOK
<1> QED BY <1>1, <1>7, <1>8, StaysHeard DEF GitInv

LEMMA LookFailsInv == ASSUME GitInv, LookFails PROVE GitInv'
<1>1. gw' \in CommandSet /\ gw'.pc = "act" /\ gw'.look = gw.look
  BY DEF LookFails, GitInv, GitTypes, CommandSet, GitPlaces
<1> QED BY <1>1, GoesOn DEF LookFails

(* A path that did not change is in the entry as it is described, and was heard
   of when the entry was written. *)
LEMMA SameIsHeard ==
    ASSUME GitInv, gw.pc = "look", ~gw.first, NEW l \in gw.look, l[1] \notin Changes, l[2].id # 0
    PROVE  <<gw.at, l[1], l[3]>> \in heard
<1>1. PICK e \in entry : e.project = gw.at BY DEF GitInv, LookOK
<1>2. <<l[1], l[2]>> \in LookFiles BY DEF LookFiles
<1>3. <<l[1], l[2]>> \in e.files
  <2>1. ASSUME <<l[1], l[2]>> \notin e.files PROVE FALSE
    <3>1. <<l[1], l[2]>>[1] \in {f[1] : f \in (e.files \ LookFiles) \cup (LookFiles \ e.files)}
      BY <2>1, <1>2
    <3> QED BY <3>1 DEF Changes
  <2> QED BY <2>1
<1>4. l[1] \in PathSet /\ l[3] \in Contents /\ l[2].size = l[3].size /\ l[2].id = l[3].id
  BY DEF GitInv, GitTypes, CommandSet, LookSet, LookOK, Describes
<1> QED BY <1>1, <1>3, <1>4 DEF GitInv, ChangeIsHeard

LEMMA CompareInv == ASSUME GitInv, Compare PROVE GitInv'
<1> DEFINE changes == IF gw.first THEN {} ELSE Changes
           moved == gw.at # gw.project
           now == {<<gw.at, l[1], l[3]>> : l \in {k \in gw.look : gw.first \/ (k[1] \in changes /\ ~gw.quiet)}}
<1>1. gw.pc = "look" /\ UNCHANGED <<tree, entry>> BY DEF Compare
<1>2. CASE gw' = [gw EXCEPT !.pc = "act"] /\ UNCHANGED heard
  <2>1. gw' \in CommandSet /\ gw'.pc = "act" /\ gw'.look = gw.look
    BY <1>2 DEF GitInv, GitTypes, CommandSet, GitPlaces
  <2> QED BY <1>1, <1>2, <2>1, GoesOn
<1>3. CASE ~(gw' = [gw EXCEPT !.pc = "act"] /\ UNCHANGED heard)
  <2>1. /\ ~Silent(changes) /\ heard' = heard \cup now
        /\ gw' = IF moved /\ gw.project \in gone THEN [gw EXCEPT !.pc = "forget"]
                 ELSE IF moved THEN [gw EXCEPT !.at = gw.project, !.i = 1, !.left = Budget, !.look = {}, !.first = TRUE]
                 ELSE [gw EXCEPT !.pc = IF gw.first \/ changes # {} THEN "record" ELSE "act"]
    BY <1>3 DEF Compare
  <2>2. gw.at \in Projects /\ gw.project \in Projects /\ gw \in CommandSet
    BY <1>1 DEF GitInv, GitTypes, LookOK
  <2> HIDE DEF now, changes
  <2>3. CASE moved
    <3>0. Budget \in Int /\ 1 \in Nat \ {0} BY GitAssumption
    <3>1. gw' \in CommandSet /\ (gw'.pc = "forget" \/ (gw'.pc = "look" /\ gw'.look = {} /\ gw'.first
                                  /\ gw'.at = gw.project /\ gw'.project = gw.project))
          /\ gw'.look \subseteq gw.look
      <4>1. CASE gw.project \in gone BY <4>1, <2>1, <2>2, <2>3 DEF CommandSet, GitPlaces
      <4>2. CASE gw.project \notin gone BY <4>2, <1>1, <2>1, <2>2, <2>3, <3>0 DEF CommandSet
      <4> QED BY <4>1, <4>2
    <3>2. GitTypes' BY <1>1, <3>1 DEF GitInv, GitTypes
    <3>3. LookOK' BY <1>1, <2>2, <3>1 DEF GitInv, LookOK
    <3> QED BY <1>1, <2>1, <3>2, <3>3, StaysHeard DEF GitInv
  <2>4. CASE ~moved
    <3>1. /\ gw' \in CommandSet /\ gw'.pc = (IF gw.first \/ changes # {} THEN "record" ELSE "act")
          /\ gw'.look = gw.look /\ gw'.at = gw.at /\ gw'.project = gw.project
      BY <2>1, <2>2, <2>4 DEF CommandSet, GitPlaces
    <3>2. ASSUME gw'.pc = "record", NEW l \in gw.look, l[2].id # 0
          PROVE  <<gw.at, l[1], l[3]>> \in heard'
      <4>1. CASE gw.first BY <4>1, <2>1 DEF now
      <4>2. CASE ~gw.first
        <5>1. changes = Changes /\ changes # {} BY <3>1, <3>2, <4>2 DEF changes
        <5>2. ~gw.quiet BY <2>1, <5>1 DEF Silent
        <5>3. CASE l[1] \in changes BY <5>2, <5>3, <2>1 DEF now
        <5>4. CASE l[1] \notin changes BY <1>1, <2>1, <3>2, <4>2, <5>1, <5>4, SameIsHeard
        <5> QED BY <5>3, <5>4
      <4> QED BY <4>1, <4>2
    <3>3. GitTypes' BY <1>1, <3>1 DEF GitInv, GitTypes
    <3>4. LookOK' BY <1>1, <2>2, <2>4, <3>1, <3>2 DEF GitInv, LookOK
    <3> QED BY <1>1, <2>1, <3>3, <3>4, StaysHeard DEF GitInv
  <2> QED BY <2>3, <2>4
<1> QED BY <1>2, <1>3

LEMMA RecordInv == ASSUME GitInv, Record PROVE GitInv'
<1>1. gw' \in CommandSet /\ gw'.pc = "act" /\ gw'.look = gw.look
  BY DEF Record, GitInv, GitTypes, CommandSet, GitPlaces
<1>2. CASE entry' = entry BY <1>1, <1>2, GoesOn DEF Record
<1>3. CASE entry' # entry
  <2>1. entry' = {[project |-> gw.project, files |-> LookFiles]} /\ UNCHANGED <<tree, heard>> /\ gw.pc = "record"
    BY <1>3 DEF Record
  <2>2. GitTypes' BY <1>1, <2>1 DEF GitInv, GitTypes, LookOK
  <2>3. LookOK' BY <1>1 DEF GitInv, LookOK
  <2>4. ASSUME NEW q \in PathSet, NEW c \in Contents, NEW f \in LookFiles,
               f[1] = q, f[2].size = c.size, f[2].id = c.id, f[2].id # 0
        PROVE  <<gw.project, q, c>> \in heard
    <3>1. PICK l \in gw.look : f = <<l[1], l[2]>> BY DEF LookFiles
    <3>2. l[3] \in Contents /\ l[3].size = c.size /\ l[3].id = c.id
      BY <2>4, <3>1 DEF GitInv, GitTypes, CommandSet, LookSet, LookOK, Describes
    <3>3. l[3] = c BY <3>2, GitAssumption
    <3> QED BY <2>1, <2>4, <3>1, <3>3 DEF GitInv, LookOK
  <2>5. ChangeIsHeard' BY <2>1, <2>4 DEF ChangeIsHeard
  <2> QED BY <2>2, <2>3, <2>5 DEF GitInv
<1> QED BY <1>2, <1>3

LEMMA ForgetInv == ASSUME GitInv, Forget PROVE GitInv'
<1>1. gw' \in CommandSet /\ gw'.pc = "act" /\ gw'.look = gw.look
  BY DEF Forget, GitInv, GitTypes, CommandSet, GitPlaces
<1> QED BY <1>1, GoesOn DEF Forget

\* A content of a git path that the look of a project takes for known was there at the
\* first look or has been named in a warning: Record keeps only what Compare found
\* unchanged or what was printed, however commands fail, are killed or move to another
\* project (gitwatch.go:109-169).
THEOREM ChangesHeard == GitSpec => []ChangeIsHeard
<1>1. GitInit => GitInv
  <2> SUFFICES ASSUME GitInit PROVE GitInv OBVIOUS
  <2>1. GitTypes BY IdleType DEF GitInit, GitTypes
  <2>2. LookOK BY IdleType DEF GitInit, LookOK
  <2> QED BY <2>1, <2>2 DEF GitInit, GitInv, ChangeIsHeard
<1>2. GitInv /\ [GitNext]_gitVars => GitInv'
  <2> SUFFICES ASSUME GitInv, [GitNext]_gitVars PROVE GitInv' OBVIOUS
  <2>1. ASSUME Act \/ Killed PROVE GitInv' BY <2>1, EndsInv DEF Act, Killed
  <2>2. CASE UNCHANGED gitVars
    BY <2>2 DEF gitVars, GitInv, GitTypes, LookOK, ChangeIsHeard
  <2> QED BY <2>1, <2>2, WritesInv, CommandInv, LookAtInv, LookFailsInv, CompareInv, RecordInv, ForgetInv DEF GitNext
<1>3. GitInv => ChangeIsHeard BY DEF GitInv
<1> QED BY <1>1, <1>2, <1>3, PTL DEF GitSpec

-----------------------------------------------------------------------------
(* A secret in a store (SecretStore). *)

SecretSpec == SecretInit /\ [][SecretNext]_secretVars

-----------------------------------------------------------------------------
ChainPlaces == {"idle", "list", "compare", "find", "item", "seal", "undo", "verify", "unseal"}
RingPlaces == {"idle", "list", "compare", "find", "create", "value", "attributes", "drop"}
WriterSet == [pc : ChainPlaces \cup RingPlaces, op : {"none", "create", "update", "delete", "import"}, upd : BOOLEAN,
              n : Nat, key : Nat, id : Nat, imported : BOOLEAN, yes : BOOLEAN, solo : BOOLEAN]
ItemSet == [id : Nat, key : Nat, v : Nat, by : {"hand", "import", "none"}, prov : Nat]
SealSet == [key : Nat, v : Nat, by : {"hand", "import"}]

ItemsIn(it, b) == it \subseteq ItemSet /\ \A i \in it : i.key <= b /\ i.v <= b /\ i.prov <= b
SealsIn(se, b) == se \subseteq SealSet /\ \A s \in se : s.key <= b /\ s.v <= b
StoreTypes ==
    /\ kind \in {"keychain", "keyring"} /\ begun \in Nat /\ told \in BOOLEAN /\ crossed \in {"no", "updates", "other"}
    /\ ItemsIn(item, begun) /\ SealsIn(seal, begun)
    /\ wr \in [Writers -> WriterSet]

(* A process: what its command may be at each place, its number and its key. *)
WriterOK(w, b, k) ==
    /\ w.pc = "idle" => w = Resting
    /\ w.pc # "idle" => w.op # "none"
    /\ w.pc # "idle" /\ w.op # "delete" => w.n # 0
    /\ w.n <= b /\ w.key <= b
    /\ w.op = "delete" => w.pc \in {"find", "unseal", "drop"} /\ w.n = 0
    /\ w.pc \in {"unseal", "drop"} => w.op = "delete"
    /\ w.op = "update" => w.upd
    /\ w.op = "create" => ~w.upd
    /\ w.pc \in {"list", "compare"} => w.op = "import" /\ ~w.upd
    /\ w.pc \in {"undo", "create"} => ~w.upd
    /\ w.pc \in {"value", "attributes"} => w.upd
    /\ w.pc \in {"item", "seal", "undo", "verify"} => w.key # 0
    /\ w.pc \in {"item", "seal", "undo", "verify"} /\ ~w.upd => w.key = w.n
    /\ k = "keychain" => w.pc \in ChainPlaces
    /\ k = "keyring" => w.pc \in RingPlaces

WritersOK ==
    /\ \A p \in Writers : WriterOK(wr[p], begun, kind)
    /\ \A p, q \in Writers : p # q /\ wr[p].n = wr[q].n => wr[p].n = 0

(* Who runs beside whom. *)
SoloOK ==
    \A p \in Writers : wr[p].solo =>
        /\ \A q \in Writers : q # p => wr[q] = Resting
        /\ wr[p].op # "delete" => wr[p].n = begun
CrossedOK ==
    \A p \in Writers : wr[p].pc # "idle" /\ ~wr[p].solo =>
        /\ crossed # "no"
        /\ crossed = "updates" => item # {} /\ wr[p].op \in {"update", "import"} /\ Updating(wr[p])

-----------------------------------------------------------------------------
(* The keychain.  it and se are the items and the sealed item of a store. *)

One(S) == \A x, y \in S : x = y
(* Nothing in the store is of value n or of one that began later. *)
ItemsBefore(it, n) == \A i \in it : i.key < n /\ i.v < n /\ i.prov < n
SealsBefore(se, n) == \A s \in se : s.key < n /\ s.v < n
ByOf(w) == IF w.op = "import" THEN "import" ELSE "hand"
ProvOf(w) == IF w.op = "import" THEN w.n ELSE 0
KeyItem(w) == [id |-> 0, key |-> w.key, v |-> 0, by |-> "none", prov |-> ProvOf(w)]
SealedItem(w) == [key |-> w.key, v |-> w.n, by |-> ByOf(w)]

(* What a writer that runs alone has put, and that nothing else has changed. *)
ChainPlace(w, it, se) ==
    /\ w.op # "delete" /\ w.pc \in {"list", "compare", "find"} => ItemsBefore(it, w.n) /\ SealsBefore(se, w.n)
    /\ w.pc = "item" /\ ~w.upd => ItemsBefore(it, w.n) /\ SealsBefore(se, w.n)
    /\ w.pc = "seal" /\ w.upd => ItemsBefore(it, w.n) /\ SealsBefore(se, w.n)
    /\ w.pc \in {"seal", "undo"} /\ ~w.upd => it = {KeyItem(w)} /\ SealsBefore(se, w.n)
    /\ w.pc = "item" /\ w.upd => se = {SealedItem(w)}
    /\ w.pc = "verify" => it = {KeyItem(w)} /\ se = {SealedItem(w)}
    /\ w.pc = "unseal" => it = {}
    /\ w.pc = "compare" => \A i \in it : w.imported <=> i.prov # 0

(* The value that is sealed is a writer's only once that writer has sealed it. *)
SealOf(w, se) ==
    /\ w.op # "delete" /\ w.pc \in {"list", "compare", "find", "seal", "undo"} => \A s \in se : s.v # w.n
    /\ w.pc = "item" /\ ~w.upd => \A s \in se : s.v # w.n
    /\ w.pc = "verify" \/ (w.pc = "item" /\ w.upd) => \A s \in se : s.v = w.n => s.key = w.key

(* The secret reads as one value, and its provenance is that value's or none. *)
ChainWhole(it, se) == \A i \in it : i.key # 0 => \E s \in se : s.key = i.key /\ i.prov \in {0, s.v}
(* A writer that will make it whole, or that will fail. *)
ChainOpen(w, se) ==
    \/ w.pc = "item"
    \/ w.pc = "verify" /\ \A s \in se : s.v # w.n
    \/ w.pc \in {"seal", "undo"} /\ ~w.upd
(* The provenance of a newer value is not on an older one, and what has the provenance
   of its value was imported. *)
ChainAge(it, se) == \A i \in it, s \in se : /\ i.key = s.key => i.prov <= s.v
                                            /\ i.prov # 0 /\ i.prov = s.v => s.by = "import"
OldItem(it) == \A i \in it : i.key = 0 => i.prov = 0 /\ i.v = 0

ChainInv ==
    /\ One(item) /\ One(seal) /\ OldItem(item)
    /\ \A p \in Writers : SealOf(wr[p], seal) /\ (wr[p].solo => ChainPlace(wr[p], item, seal))
    /\ ~told /\ crossed # "other" => ChainWhole(item, seal) \/ \E p \in Writers : ChainOpen(wr[p], seal)
    /\ crossed = "no" => ChainAge(item, seal)

-----------------------------------------------------------------------------
(* The keyring, as long as no two commands overlapped. *)
RingPlace(w, it) ==
    /\ w.op # "delete" /\ w.pc \in {"list", "compare", "find", "create", "value"} => ItemsBefore(it, w.n)
    /\ w.pc = "create" => it = {}
    /\ w.pc = "attributes" => \A i \in it : i.id = w.id => i.v = w.n /\ i.by = ByOf(w)
    /\ w.pc = "compare" => \A i \in it : w.imported <=> i.prov # 0
RingAge(it) == \A i \in it : i.prov <= i.v /\ (i.prov # 0 /\ i.prov = i.v => i.by = "import")
RingWhole(it) == \A i \in it : i.prov \in {0, i.v}
RingInv ==
    /\ seal = {} /\ \A i \in item : i.key = 0
    /\ crossed = "no" =>
         /\ One(item) /\ RingAge(item)
         /\ \A p \in Writers : RingPlace(wr[p], item)
         /\ ~told => RingWhole(item) \/ \E p \in Writers : wr[p].pc = "attributes"

Common == StoreTypes /\ WritersOK /\ SoloOK /\ CrossedOK
StoreInv == Common /\ ~seized /\ (kind = "keychain" => ChainInv) /\ (kind = "keyring" => RingInv)
-----------------------------------------------------------------------------
LEMMA WriterIs ==
    ASSUME Common, NEW p \in Writers
    PROVE  wr[p] \in WriterSet /\ WriterOK(wr[p], begun, kind) /\ begun \in Nat
  BY DEF Common, StoreTypes, WritersOK

LEMMA RestingIs ==
    /\ Resting \in WriterSet /\ Resting.pc = "idle" /\ Resting.op = "none" /\ Resting.n = 0 /\ ~Resting.solo
    /\ Resting.key = 0
    /\ \A b \in Nat : \A k : WriterOK(Resting, b, k)
<1>1. Resting \in WriterSet BY DEF Resting, WriterSet, ChainPlaces
<1>2. /\ Resting.pc = "idle" /\ Resting.op = "none" /\ Resting.n = 0 /\ ~Resting.solo /\ Resting.key = 0
  BY DEF Resting
<1>3. ASSUME NEW b \in Nat, NEW k PROVE WriterOK(Resting, b, k)
  BY <1>2 DEF WriterOK, ChainPlaces, RingPlaces
<1> QED BY <1>1, <1>2, <1>3

(* A writer moves on or rests; the others stay as they are. *)
LEMMA WriterMoves ==
    ASSUME Common, NEW p \in Writers, NEW w \in WriterSet, wr[p].pc # "idle",
           wr' = [wr EXCEPT ![p] = w], UNCHANGED <<kind, begun>>, WriterOK(w, begun, kind),
           w = Resting \/ (w.n = wr[p].n /\ w.op = wr[p].op /\ w.solo = wr[p].solo /\ w.pc # "idle"
                           /\ (Updating(wr[p]) /\ crossed = "updates" /\ ~wr[p].solo => Updating(w))),
           ItemsIn(item', begun), SealsIn(seal', begun), told' \in BOOLEAN,
           UNCHANGED crossed \/ (crossed' = "no" /\ w = Resting /\ wr[p].solo),
           crossed = "updates" /\ item # {} /\ ~wr[p].solo => item' # {}
    PROVE  /\ Common'
           /\ \A q \in Writers : wr'[q] = IF q = p THEN w ELSE wr[q]
           /\ wr[p].solo => \A q \in Writers : q # p => wr[q] = Resting
<1>1. wr \in [Writers -> WriterSet] BY DEF Common, StoreTypes
<1>2. \A q \in Writers : wr'[q] = IF q = p THEN w ELSE wr[q] BY <1>1
<1>3. wr' \in [Writers -> WriterSet] BY <1>1
<1>4. StoreTypes' BY <1>3 DEF Common, StoreTypes, ItemsIn, SealsIn
<1>5. WritersOK'
  <2>1. \A q \in Writers : WriterOK(wr'[q], begun', kind') BY <1>2 DEF Common, WritersOK
  <2>2. ASSUME NEW a \in Writers, NEW b \in Writers, a # b, wr'[a].n = wr'[b].n PROVE wr'[a].n = 0
    <3>1. \A q \in Writers : wr'[q].n \in {wr[q].n, 0} BY <1>2, RestingIs
    <3>2. wr[a].n = wr[b].n => wr[a].n = 0 BY <2>2 DEF Common, WritersOK
    <3> QED BY <2>2, <3>1, <3>2
  <2> QED BY <2>1, <2>2 DEF WritersOK, WriterOK
<1>6. SoloOK'
  <2> SUFFICES ASSUME NEW a \in Writers, wr'[a].solo
               PROVE  /\ \A q \in Writers : q # a => wr'[q] = Resting
                      /\ wr'[a].op # "delete" => wr'[a].n = begun'
    BY DEF SoloOK
  <2>1. CASE a = p
    <3>1. w # Resting /\ wr[p].solo BY <1>2, <2>1, RestingIs
    <3> QED BY <1>2, <2>1, <3>1 DEF Common, SoloOK
  <2>2. CASE a # p
    <3>1. wr[a].solo BY <1>2, <2>2
    <3>2. wr[p] = Resting BY <2>2, <3>1 DEF Common, SoloOK
    <3> QED BY <3>2, RestingIs
  <2> QED BY <2>1, <2>2
<1>7. CrossedOK'
  <2> SUFFICES ASSUME NEW a \in Writers, wr'[a].pc # "idle", ~wr'[a].solo
               PROVE  /\ crossed' # "no"
                      /\ crossed' = "updates" => item' # {} /\ wr'[a].op \in {"update", "import"} /\ Updating(wr'[a])
    BY DEF CrossedOK, Updating
  <2>1. CASE a = p
    <3>1. w # Resting /\ w.op = wr[p].op /\ ~wr[p].solo BY <1>2, <2>1, RestingIs
    <3> QED BY <1>2, <2>1, <3>1 DEF Common, CrossedOK, Updating
  <2>2. CASE a # p
    <3>1. wr'[a] = wr[a] /\ ~wr[a].solo /\ wr[a].pc # "idle" BY <1>2, <2>2
    <3>2. ~wr[p].solo
      BY <2>2, <3>1, RestingIs DEF Common, SoloOK
    <3> QED BY <3>1, <3>2 DEF Common, CrossedOK
  <2> QED BY <2>1, <2>2
<1> QED BY <1>2, <1>4, <1>5, <1>6, <1>7 DEF Common, SoloOK

-----------------------------------------------------------------------------
(* A step of one writer on the keychain: the others have sealed what they have
   sealed, and none of them runs alone. *)
LEMMA ChainKeeps ==
    ASSUME StoreInv, kind = "keychain", UNCHANGED kind, NEW p \in Writers, NEW w \in WriterSet, wr[p].pc # "idle",
           \A q \in Writers : wr'[q] = IF q = p THEN w ELSE wr[q],
           One(item'), OldItem(item'), seal' = seal \/ seal' = {} \/ (seal' = {SealedItem(wr[p])} /\ wr[p].op # "delete"),
           SealOf(w, seal'), w.solo => ChainPlace(w, item', seal'),
           ~told' /\ crossed' # "other" => ChainWhole(item', seal') \/ \E q \in Writers : ChainOpen(wr'[q], seal'),
           crossed' = "no" => ChainAge(item', seal')
    PROVE  ChainInv'
<1>1. One(seal') BY DEF StoreInv, ChainInv, One
<1>2. ASSUME NEW q \in Writers, q # p PROVE SealOf(wr[q], seal') /\ ~wr[q].solo
  <2>1. wr[q] \in WriterSet /\ WriterOK(wr[q], begun, kind) /\ WriterOK(wr[p], begun, kind) /\ wr[p] \in WriterSet
    BY WriterIs DEF StoreInv
  <2>2. ~wr[q].solo BY <1>2, RestingIs DEF StoreInv, Common, SoloOK
  <2>3. SealOf(wr[q], seal) BY DEF StoreInv, ChainInv
  <2>4. CASE seal' = seal BY <2>2, <2>3, <2>4
  <2>5. CASE seal' = {} BY <2>2, <2>5 DEF SealOf
  <2>6. CASE seal' = {SealedItem(wr[p])} /\ wr[p].op # "delete"
    <3>1. wr[p].n # 0 BY <2>1, <2>6 DEF WriterOK
    <3>2. wr[q].n # wr[p].n BY <1>2, <3>1 DEF StoreInv, Common, WritersOK
    <3>3. \A s \in seal' : s.v = wr[p].n BY <2>6 DEF SealedItem
    <3> QED BY <2>2, <3>2, <3>3 DEF SealOf
  <2> QED BY <2>4, <2>5, <2>6
<1>3. \A q \in Writers : SealOf(wr'[q], seal') /\ (wr'[q].solo => ChainPlace(wr'[q], item', seal'))
  BY <1>2
<1> QED BY <1>1, <1>3 DEF ChainInv, SealOf, ChainPlace, ChainOpen, ChainWhole, ChainAge, One, OldItem

(* A step that leaves the keychain alone. *)
LEMMA ChainSame ==
    ASSUME StoreInv, kind = "keychain", UNCHANGED <<kind, item, seal, crossed>>, NEW p \in Writers,
           NEW w \in WriterSet, wr[p].pc # "idle", \A q \in Writers : wr'[q] = IF q = p THEN w ELSE wr[q],
           SealOf(w, seal), w.solo => ChainPlace(w, item, seal),
           told' \/ (told' = told /\ (ChainOpen(wr[p], seal) => ChainOpen(w, seal)))
    PROVE  ChainInv'
<1>1. One(item') /\ OldItem(item') /\ seal' = seal BY DEF StoreInv, ChainInv
<1>2. SealOf(w, seal') /\ (w.solo => ChainPlace(w, item', seal')) OBVIOUS
<1>3. ~told' /\ crossed' # "other" => ChainWhole(item', seal') \/ \E q \in Writers : ChainOpen(wr'[q], seal')
  <2> SUFFICES ASSUME ~told', crossed' # "other", ~ChainWhole(item', seal')
               PROVE  \E q \in Writers : ChainOpen(wr'[q], seal')
    OBVIOUS
  <2>1. PICK q \in Writers : ChainOpen(wr[q], seal) BY DEF StoreInv, ChainInv
  <2>2. ChainOpen(wr'[q], seal') BY <2>1
  <2> QED BY <2>2
<1>4. crossed' = "no" => ChainAge(item', seal') BY DEF StoreInv, ChainInv
<1> QED BY <1>1, <1>2, <1>3, <1>4, ChainKeeps

(* A step of one writer on the keyring: while nothing overlapped, it is the only one. *)
LEMMA RingKeeps ==
    ASSUME StoreInv, kind = "keyring", UNCHANGED <<kind, crossed>>, seal' = {}, \A i \in item' : i.key = 0,
           NEW p \in Writers, NEW w \in WriterSet, wr[p].pc # "idle",
           \A q \in Writers : wr'[q] = IF q = p THEN w ELSE wr[q],
           crossed = "no" /\ wr[p].solo =>
               /\ One(item') /\ RingAge(item') /\ RingPlace(w, item')
               /\ ~told' => RingWhole(item') \/ w.pc = "attributes"
    PROVE  RingInv'
<1> SUFFICES ASSUME crossed = "no"
             PROVE  /\ One(item') /\ RingAge(item')
                    /\ \A q \in Writers : RingPlace(wr'[q], item')
                    /\ ~told' => RingWhole(item') \/ \E q \in Writers : wr'[q].pc = "attributes"
  BY DEF RingInv, One, RingAge, RingPlace, RingWhole, ItemsBefore
<1>1. wr[p].solo BY DEF StoreInv, Common, CrossedOK
<1>2. \A q \in Writers : q # p => wr'[q] = Resting BY <1>1 DEF StoreInv, Common, SoloOK
<1>3. RingPlace(Resting, item') BY RestingIs DEF RingPlace
<1> QED BY <1>1, <1>2, <1>3

(* A step that leaves the keyring alone. *)
LEMMA RingSame ==
    ASSUME StoreInv, kind = "keyring", UNCHANGED <<kind, item, seal, crossed>>, NEW p \in Writers,
           NEW w \in WriterSet, wr[p].pc # "idle", \A q \in Writers : wr'[q] = IF q = p THEN w ELSE wr[q],
           crossed = "no" /\ wr[p].solo => RingPlace(w, item),
           told' \/ (told' = told /\ wr[p].pc # "attributes")
    PROVE  RingInv'
<1>1. seal' = {} /\ (\A i \in item' : i.key = 0) BY DEF StoreInv, RingInv
<1>2. ASSUME crossed = "no", wr[p].solo
      PROVE  /\ One(item') /\ RingAge(item') /\ RingPlace(w, item')
             /\ ~told' => RingWhole(item')
  <2>1. ~told' => RingWhole(item)
    <3> SUFFICES ASSUME ~told', ~RingWhole(item) PROVE FALSE OBVIOUS
    <3>1. PICK q \in Writers : wr[q].pc = "attributes" BY <1>2 DEF StoreInv, RingInv
    <3>2. q # p BY <3>1
    <3> QED BY <1>2, <3>1, <3>2, RestingIs DEF StoreInv, Common, SoloOK
  <2> QED BY <1>2, <2>1 DEF StoreInv, RingInv
<1> QED BY <1>1, <1>2, RingKeeps

(* A command that ends and leaves the store alone; a failure is told. *)
LEMMA EndsSame ==
    ASSUME StoreInv, NEW p \in Writers, wr[p].pc # "idle", wr' = [wr EXCEPT ![p] = Resting],
           UNCHANGED <<kind, begun, item, seal, crossed, seized>>,
           told' = TRUE \/ (told' = told /\ wr[p].pc = "compare")
    PROVE  StoreInv'
<1>0. told' \in BOOLEAN BY DEF StoreInv, Common, StoreTypes
<1>1. WriterOK(Resting, begun, kind) BY WriterIs, RestingIs DEF StoreInv
<1>2. ItemsIn(item', begun) /\ SealsIn(seal', begun) BY DEF StoreInv, Common, StoreTypes
<1>3. Common' /\ \A q \in Writers : wr'[q] = IF q = p THEN Resting ELSE wr[q]
  BY <1>0, <1>1, <1>2, RestingIs, WriterMoves DEF StoreInv
<1>4. SealOf(Resting, seal) /\ RingPlace(Resting, item) BY RestingIs DEF SealOf, RingPlace
<1>5. wr[p].pc = "compare" => ~ChainOpen(wr[p], seal) /\ wr[p].pc # "attributes" BY DEF ChainOpen
<1>6. kind = "keychain" => ChainInv' BY <1>3, <1>4, <1>5, RestingIs, ChainSame
<1>7. kind = "keyring" => RingInv' BY <1>3, <1>4, <1>5, RestingIs, RingSame
<1> QED BY <1>3, <1>6, <1>7 DEF StoreInv

LEMMA FailsInv == ASSUME StoreInv, NEW p \in Writers, Fails(p) PROVE StoreInv'
  BY EndsSame DEF Fails, Ends, Same

-----------------------------------------------------------------------------
LEMMA ImportListInv == ASSUME StoreInv, NEW p \in Writers, ImportList(p) PROVE StoreInv'
<1>0. PICK had \in IF item = {} THEN {FALSE} ELSE {i.prov # 0 : i \in item} :
         wr' = [wr EXCEPT ![p].pc = "compare", ![p].imported = had]
  BY DEF ImportList
<1>1. had \in BOOLEAN /\ (One(item) => \A i \in item : had <=> i.prov # 0) BY DEF One
<1> DEFINE w == [wr[p] EXCEPT !.pc = "compare", !.imported = had]
<1>2. wr[p] \in WriterSet /\ WriterOK(wr[p], begun, kind) /\ begun \in Nat BY WriterIs DEF StoreInv
<1>3. wr[p].pc = "list" /\ UNCHANGED <<kind, begun, item, seal, told, crossed, seized>> BY DEF ImportList, Same
<1>4. wr' = [wr EXCEPT ![p] = w] BY <1>0, <1>2 DEF WriterSet
<1>5. /\ w \in WriterSet /\ w.pc = "compare" /\ w.imported = had /\ w.n = wr[p].n /\ w.op = wr[p].op
      /\ w.upd = wr[p].upd /\ w.solo = wr[p].solo /\ w.key = wr[p].key
  BY <1>1, <1>2 DEF WriterSet, ChainPlaces, RingPlaces
<1> HIDE DEF w
<1>6. WriterOK(w, begun, kind) BY <1>2, <1>3, <1>5 DEF WriterOK, ChainPlaces, RingPlaces
<1>7. Updating(w) BY <1>5 DEF Updating
<1>8. ItemsIn(item', begun) /\ SealsIn(seal', begun) /\ told' \in BOOLEAN
  BY <1>3 DEF StoreInv, Common, StoreTypes
<1>9. Common' /\ \A q \in Writers : wr'[q] = IF q = p THEN w ELSE wr[q]
  BY <1>3, <1>4, <1>5, <1>6, <1>7, <1>8, WriterMoves DEF StoreInv
<1>10. ASSUME kind = "keychain" PROVE ChainInv'
  <2>1. SealOf(w, seal) BY <1>3, <1>5, <1>10 DEF SealOf, StoreInv, ChainInv
  <2>2. w.solo => ChainPlace(w, item, seal) BY <1>1, <1>3, <1>5, <1>10 DEF ChainPlace, StoreInv, ChainInv
  <2>3. ~ChainOpen(wr[p], seal) BY <1>3 DEF ChainOpen
  <2> QED BY <1>3, <1>5, <1>9, <1>10, <2>1, <2>2, <2>3, ChainSame
<1>11. ASSUME kind = "keyring" PROVE RingInv'
  <2>1. crossed = "no" => RingPlace(w, item) BY <1>1, <1>3, <1>5, <1>11 DEF RingPlace, StoreInv, RingInv
  <2> QED BY <1>3, <1>5, <1>9, <1>11, <2>1, RingSame
<1> QED BY <1>3, <1>9, <1>10, <1>11 DEF StoreInv

(* What a read may say of a store that is whole. *)
LEMMA ReadsAre ==
    ASSUME NEW r \in Reads
    PROVE  \/ item = {} /\ r = <<"none", 0, "none">>
           \/ \E i \in item : /\ i.key = 0
                              /\ r = <<"value", i.v, i.by>>
           \/ \E i \in item, s \in seal : i.key # 0 /\ s.key = i.key /\ r = <<"value", s.v, s.by>>
           \/ \E i \in item : i.key # 0 /\ (\A s \in seal : s.key # i.key) /\ r = <<"damaged", 0, "none">>
<1>1. CASE item = {} BY <1>1 DEF Reads
<1>2. CASE item # {}
  <2>1. PICK i \in item : r \in IF ~HoldsKey(i) THEN {<<"value", i.v, i.by>>}
                ELSE IF Unsealed(i) # {} THEN Unsealed(i)
                ELSE {<<"damaged", 0, "none">>}
    BY <1>2 DEF Reads
  <2>2. CASE ~HoldsKey(i) BY <2>1, <2>2 DEF HoldsKey
  <2>3. CASE HoldsKey(i) /\ Unsealed(i) # {} BY <2>1, <2>3 DEF HoldsKey, Unsealed
  <2>4. CASE HoldsKey(i) /\ Unsealed(i) = {}
    <3>1. \A s \in seal : s.key # i.key BY <2>4 DEF Unsealed
    <3> QED BY <2>1, <2>4, <3>1 DEF HoldsKey
  <2> QED BY <2>2, <2>3, <2>4
<1> QED BY <1>1, <1>2

(* An import compares with what it has listed, while it runs alone. *)
LEMMA ReplacesNoHand ==
    ASSUME StoreInv, NEW p \in Writers, wr[p].pc = "compare", crossed = "no", ~told, NEW r \in Reads, r[3] = "hand",
           wr[p].imported
    PROVE  FALSE
<1>1. wr[p].solo /\ \A q \in Writers : q # p => wr[q] = Resting
  BY DEF StoreInv, Common, CrossedOK, SoloOK
<1>2. CASE kind = "keychain"
  <2>1. ChainPlace(wr[p], item, seal) /\ One(seal) /\ OldItem(item) /\ ChainAge(item, seal) BY <1>1, <1>2 DEF StoreInv, ChainInv
  <2>2. ChainWhole(item, seal)
    <3>1. \A q \in Writers : ~ChainOpen(wr[q], seal) BY <1>1, RestingIs DEF ChainOpen
    <3> QED BY <1>2, <3>1 DEF StoreInv, ChainInv
  <2>3. \A i \in item : i.prov # 0 BY <2>1 DEF ChainPlace
  <2>4. ASSUME NEW i \in item, NEW s \in seal, i.key # 0, s.key = i.key, r = <<"value", s.v, s.by>> PROVE FALSE
    <3>1. i.prov = s.v BY <2>1, <2>2, <2>3, <2>4 DEF ChainWhole, One
    <3>2. s.by = "import" BY <2>1, <2>3, <3>1 DEF ChainAge
    <3> QED BY <2>4, <3>2
  <2>5. ASSUME NEW i \in item, i.key = 0 PROVE FALSE BY <2>1, <2>3, <2>5 DEF OldItem
  <2> QED BY <2>4, <2>5, ReadsAre
<1>3. CASE kind = "keyring"
  <2>1. RingPlace(wr[p], item) /\ RingAge(item) /\ seal = {} /\ \A i \in item : i.key = 0 BY <1>3 DEF StoreInv, RingInv
  <2>2. RingWhole(item)
    <3>1. \A q \in Writers : wr[q].pc # "attributes" BY <1>1, RestingIs
    <3> QED BY <1>3, <3>1 DEF StoreInv, RingInv
  <2>3. \A i \in item : i.prov # 0 BY <2>1 DEF RingPlace
  <2>4. ASSUME NEW i \in item, r = <<"value", i.v, i.by>> PROVE FALSE
    <3>1. i.by = "import" BY <2>1, <2>2, <2>3 DEF RingWhole, RingAge
    <3> QED BY <2>4, <3>1
  <2> QED BY <2>1, <2>4, ReadsAre
<1> QED BY <1>2, <1>3 DEF StoreInv, Common, StoreTypes

LEMMA ImportCompareInv == ASSUME StoreInv, NEW p \in Writers, ImportCompare(p) PROVE StoreInv'
<1>0. PICK r \in Reads :
         LET there == r[1] # "none" IN
         \/ /\ there => wr[p].imported \/ wr[p].yes
            /\ wr' = [wr EXCEPT ![p].pc = "find", ![p].upd = there]
            /\ seized' = (seized \/ (crossed = "no" /\ ~told /\ r[3] = "hand" /\ ~wr[p].yes))
         \/ /\ there /\ ~wr[p].imported /\ ~wr[p].yes
            /\ wr' = [wr EXCEPT ![p] = Resting] /\ UNCHANGED seized
  BY DEF ImportCompare
<1> DEFINE there == r[1] # "none"
           w == [wr[p] EXCEPT !.pc = "find", !.upd = there]
<1>1. wr[p].pc = "compare" /\ UNCHANGED <<kind, begun, item, seal, told, crossed>> BY DEF ImportCompare, Same
<1>2. wr[p] \in WriterSet /\ WriterOK(wr[p], begun, kind) /\ begun \in Nat BY WriterIs DEF StoreInv
<1>3. there \in BOOLEAN /\ (item # {} => there) /\ (r[3] = "hand" => there)
  BY ReadsAre
<1>4. CASE wr' = [wr EXCEPT ![p] = Resting] /\ UNCHANGED seized BY <1>1, <1>4, EndsSame
<1>5. CASE /\ there => wr[p].imported \/ wr[p].yes
           /\ wr' = [wr EXCEPT ![p].pc = "find", ![p].upd = there]
           /\ seized' = (seized \/ (crossed = "no" /\ ~told /\ r[3] = "hand" /\ ~wr[p].yes))
  <2>1. ~seized' BY <1>1, <1>3, <1>5, ReplacesNoHand DEF StoreInv
  <2>2. wr' = [wr EXCEPT ![p] = w] BY <1>2, <1>5 DEF WriterSet
  <2> HIDE DEF there
  <2>3. /\ w \in WriterSet /\ w.pc = "find" /\ w.upd = there /\ w.n = wr[p].n /\ w.op = wr[p].op
        /\ w.solo = wr[p].solo /\ w.key = wr[p].key
    BY <1>2, <1>3 DEF WriterSet, ChainPlaces, RingPlaces
  <2> HIDE DEF w
  <2>4. WriterOK(w, begun, kind) BY <1>1, <1>2, <2>3 DEF WriterOK, ChainPlaces, RingPlaces
  <2>5. crossed = "updates" /\ ~wr[p].solo => Updating(w)
    BY <1>1, <1>3, <2>3 DEF Updating, StoreInv, Common, CrossedOK
  <2>6. ItemsIn(item', begun) /\ SealsIn(seal', begun) /\ told' \in BOOLEAN
    BY <1>1 DEF StoreInv, Common, StoreTypes
  <2>7. Common' /\ \A q \in Writers : wr'[q] = IF q = p THEN w ELSE wr[q]
    BY <1>1, <2>2, <2>3, <2>4, <2>5, <2>6, WriterMoves DEF StoreInv
  <2>8. ASSUME kind = "keychain" PROVE ChainInv'
    <3>1. SealOf(w, seal) BY <1>1, <2>3, <2>8 DEF SealOf, StoreInv, ChainInv
    <3>2. w.solo => ChainPlace(w, item, seal) BY <1>1, <2>3, <2>8 DEF ChainPlace, StoreInv, ChainInv
    <3>3. ~ChainOpen(wr[p], seal) BY <1>1 DEF ChainOpen
    <3> QED BY <1>1, <2>3, <2>7, <2>8, <3>1, <3>2, <3>3, ChainSame
  <2>9. ASSUME kind = "keyring" PROVE RingInv'
    <3>1. crossed = "no" => RingPlace(w, item) BY <1>1, <2>3, <2>9 DEF RingPlace, StoreInv, RingInv
    <3> QED BY <1>1, <2>3, <2>7, <2>9, <3>1, RingSame
  <2> QED BY <1>1, <2>1, <2>7, <2>8, <2>9 DEF StoreInv
<1> QED BY <1>0, <1>4, <1>5

-----------------------------------------------------------------------------
LEMMA KeyForInv == ASSUME StoreInv, NEW p \in Writers, KeyFor(p) PROVE StoreInv'
<1>1. /\ kind = "keychain" /\ wr[p].pc = "find" /\ wr[p].op # "delete"
      /\ UNCHANGED <<kind, begun, item, seal, crossed, seized>>
  BY DEF KeyFor, Same
<1>2. wr[p] \in WriterSet /\ WriterOK(wr[p], begun, kind) /\ begun \in Nat BY WriterIs DEF StoreInv
<1>3. CASE Ends(p, TRUE) BY <1>1, <1>3, EndsSame DEF Ends
<1>4. ASSUME NEW pc \in {"item", "seal"}, NEW key \in Nat, wr' = [wr EXCEPT ![p].pc = pc, ![p].key = key],
             UNCHANGED told, pc = "item" <=> ~wr[p].upd, ~wr[p].upd => key = wr[p].n, key # 0, key <= begun
      PROVE  StoreInv'
  <2> DEFINE w == [wr[p] EXCEPT !.pc = pc, !.key = key]
  <2>2. wr' = [wr EXCEPT ![p] = w] BY <1>2, <1>4 DEF WriterSet
  <2>3. /\ w \in WriterSet /\ w.pc = pc /\ w.upd = wr[p].upd /\ w.n = wr[p].n /\ w.op = wr[p].op
        /\ w.solo = wr[p].solo /\ w.key = key
    BY <1>2, <1>4 DEF WriterSet, ChainPlaces, RingPlaces
  <2> HIDE DEF w
  <2>4. WriterOK(w, begun, kind) BY <1>1, <1>2, <1>4, <2>3 DEF WriterOK, ChainPlaces, RingPlaces
  <2>5. Updating(wr[p]) => Updating(w) BY <1>1, <2>3 DEF Updating
  <2>6. ItemsIn(item', begun) /\ SealsIn(seal', begun) /\ told' \in BOOLEAN
    BY <1>1, <1>4 DEF StoreInv, Common, StoreTypes
  <2>7. Common' /\ \A q \in Writers : wr'[q] = IF q = p THEN w ELSE wr[q]
    BY <1>1, <1>4, <2>2, <2>3, <2>4, <2>5, <2>6, WriterMoves DEF StoreInv
  <2>8. ChainInv'
    <3>1. SealOf(w, seal) BY <1>1, <1>4, <2>3 DEF SealOf, StoreInv, ChainInv
    <3>2. w.solo => ChainPlace(w, item, seal) BY <1>1, <1>4, <2>3 DEF ChainPlace, StoreInv, ChainInv
    <3>3. ~ChainOpen(wr[p], seal) BY <1>1 DEF ChainOpen
    <3> QED BY <1>1, <1>4, <2>3, <2>7, <3>1, <3>2, <3>3, ChainSame
  <2> QED BY <1>1, <2>7, <2>8 DEF StoreInv
<1>5. CASE ~wr[p].upd /\ wr' = [wr EXCEPT ![p].pc = "item", ![p].key = wr[p].n] /\ UNCHANGED told
  <2>1. wr[p].n \in Nat /\ wr[p].n # 0 /\ wr[p].n <= begun BY <1>1, <1>2 DEF WriterSet, WriterOK
  <2> QED BY <1>4, <1>5, <2>1
<1>6. CASE \E i \in item : /\ wr[p].upd
                           /\ wr' = [wr EXCEPT ![p].pc = "seal", ![p].key = IF HoldsKey(i) THEN i.key ELSE wr[p].n]
                           /\ UNCHANGED told
  <2>1. PICK i \in item : /\ wr[p].upd
                          /\ wr' = [wr EXCEPT ![p].pc = "seal", ![p].key = IF HoldsKey(i) THEN i.key ELSE wr[p].n]
                          /\ UNCHANGED told
    BY <1>6
  <2> DEFINE key == IF HoldsKey(i) THEN i.key ELSE wr[p].n
  <2>2. wr[p].n \in Nat /\ wr[p].n # 0 /\ wr[p].n <= begun BY <1>1, <1>2 DEF WriterSet, WriterOK
  <2>3. i.key \in Nat /\ i.key <= begun BY DEF StoreInv, Common, StoreTypes, ItemsIn, ItemSet
  <2>4. key \in Nat /\ key # 0 /\ key <= begun BY <2>2, <2>3 DEF HoldsKey
  <2>5. wr' = [wr EXCEPT ![p].pc = "seal", ![p].key = key] BY <2>1
  <2> HIDE DEF key
  <2> QED BY <1>4, <2>1, <2>4, <2>5
<1> QED BY <1>3, <1>5, <1>6 DEF KeyFor

(* A writer on the keychain that moves to another place of its command. *)
LEMMA ChainGoes ==
    ASSUME StoreInv, kind = "keychain", NEW p \in Writers, NEW pc \in ChainPlaces \ {"idle"}, wr[p].pc # "idle",
           wr' = [wr EXCEPT ![p].pc = pc], UNCHANGED <<kind, begun, crossed>>, told' \in BOOLEAN,
           WriterOK([wr[p] EXCEPT !.pc = pc], begun, kind),
           Updating(wr[p]) /\ crossed = "updates" /\ ~wr[p].solo => Updating([wr[p] EXCEPT !.pc = pc]),
           ItemsIn(item', begun), SealsIn(seal', begun), crossed = "updates" /\ item # {} /\ ~wr[p].solo => item' # {}
    PROVE  \E w \in WriterSet :
             /\ w = [wr[p] EXCEPT !.pc = pc] /\ w.pc = pc /\ w.upd = wr[p].upd /\ w.n = wr[p].n /\ w.op = wr[p].op
             /\ w.solo = wr[p].solo /\ w.key = wr[p].key /\ KeyItem(w) = KeyItem(wr[p]) /\ SealedItem(w) = SealedItem(wr[p])
             /\ Common' /\ \A q \in Writers : wr'[q] = IF q = p THEN w ELSE wr[q]
<1> DEFINE w == [wr[p] EXCEPT !.pc = pc]
<1>1. wr[p] \in WriterSet BY WriterIs DEF StoreInv
<1>2. wr' = [wr EXCEPT ![p] = w] OBVIOUS
<1>3. /\ w \in WriterSet /\ w.pc = pc /\ w.upd = wr[p].upd /\ w.n = wr[p].n /\ w.op = wr[p].op
      /\ w.solo = wr[p].solo /\ w.key = wr[p].key
  BY <1>1 DEF WriterSet
<1>3a. WriterOK(w, begun, kind) OBVIOUS
<1>3b. Updating(wr[p]) /\ crossed = "updates" /\ ~wr[p].solo => Updating(w) OBVIOUS
<1> HIDE DEF w
<1>4. KeyItem(w) = KeyItem(wr[p]) /\ SealedItem(w) = SealedItem(wr[p])
  BY <1>3 DEF KeyItem, SealedItem, ProvOf, ByOf
<1>5. Common' /\ \A q \in Writers : wr'[q] = IF q = p THEN w ELSE wr[q]
  <2>1. /\ Common /\ (w.n = wr[p].n /\ w.op = wr[p].op /\ w.solo = wr[p].solo /\ w.pc # "idle"
                       /\ (Updating(wr[p]) /\ crossed = "updates" /\ ~wr[p].solo => Updating(w)))
    BY <1>3, <1>3b DEF StoreInv
  <2>2. w \in WriterSet /\ wr[p].pc # "idle" /\ wr' = [wr EXCEPT ![p] = w] /\ UNCHANGED <<kind, begun>>
    BY <1>2, <1>3
  <2>3. UNCHANGED crossed \/ (crossed' = "no" /\ w = Resting /\ wr[p].solo) OBVIOUS
  <2>4. /\ ItemsIn(item', begun) /\ SealsIn(seal', begun) /\ told' \in BOOLEAN
        /\ (crossed = "updates" /\ item # {} /\ ~wr[p].solo => item' # {})
    OBVIOUS
  <2> QED BY ONLY <1>3a, <2>1, <2>2, <2>3, <2>4, WriterMoves, p \in Writers
<1> QED BY <1>3, <1>4, <1>5 DEF w

LEMMA PutIs ==
    ASSUME StoreInv, kind = "keychain", NEW p \in Writers, wr[p].pc \in {"item", "seal", "undo", "verify"}
    PROVE  /\ KeyItem(wr[p]) \in ItemSet /\ KeyItem(wr[p]).key = wr[p].key /\ KeyItem(wr[p]).v = 0
           /\ KeyItem(wr[p]).prov \in {0, wr[p].n} /\ (wr[p].op # "import" => KeyItem(wr[p]).prov = 0)
           /\ SealedItem(wr[p]) \in SealSet /\ SealedItem(wr[p]).key = wr[p].key /\ SealedItem(wr[p]).v = wr[p].n
           /\ (wr[p].op = "import" => SealedItem(wr[p]).by = "import")
           /\ wr[p].n \in Nat /\ wr[p].key \in Nat /\ wr[p].key # 0 /\ wr[p].key <= begun /\ wr[p].n <= begun
           /\ wr[p].n # 0 /\ (~wr[p].upd => wr[p].key = wr[p].n) /\ wr[p].op # "delete" /\ begun \in Nat
           /\ ItemsIn({KeyItem(wr[p])}, begun) /\ SealsIn({SealedItem(wr[p])}, begun)
<1>1. wr[p] \in WriterSet /\ WriterOK(wr[p], begun, kind) /\ begun \in Nat BY WriterIs DEF StoreInv
<1>2. /\ wr[p].n \in Nat /\ wr[p].key \in Nat /\ wr[p].key # 0 /\ wr[p].key <= begun /\ wr[p].n <= begun
      /\ wr[p].n # 0 /\ (~wr[p].upd => wr[p].key = wr[p].n) /\ wr[p].op # "delete"
  BY <1>1 DEF WriterSet, WriterOK
<1>3. ProvOf(wr[p]) \in {0, wr[p].n} /\ (wr[p].op # "import" => ProvOf(wr[p]) = 0) BY DEF ProvOf
<1>4. /\ KeyItem(wr[p]) \in ItemSet /\ KeyItem(wr[p]).key = wr[p].key /\ KeyItem(wr[p]).v = 0
      /\ KeyItem(wr[p]).prov = ProvOf(wr[p])
  BY <1>2, <1>3 DEF KeyItem, ItemSet
<1>5. /\ SealedItem(wr[p]) \in SealSet /\ SealedItem(wr[p]).key = wr[p].key /\ SealedItem(wr[p]).v = wr[p].n
      /\ (wr[p].op = "import" => SealedItem(wr[p]).by = "import")
  BY <1>2 DEF SealedItem, SealSet, ByOf
<1>6. ItemsIn({KeyItem(wr[p])}, begun) BY <1>1, <1>2, <1>3, <1>4 DEF ItemsIn
<1>7. SealsIn({SealedItem(wr[p])}, begun) BY <1>1, <1>2, <1>5 DEF SealsIn
<1> QED BY <1>1, <1>2, <1>3, <1>4, <1>5, <1>6, <1>7

LEMMA AloneWhenNo ==
    ASSUME StoreInv, NEW p \in Writers, wr[p].pc # "idle", crossed = "no"
    PROVE  wr[p].solo
  BY DEF StoreInv, Common, CrossedOK

LEMMA PutItemInv == ASSUME StoreInv, NEW p \in Writers, PutItem(p) PROVE StoreInv'
<1>1. kind = "keychain" /\ wr[p].pc = "item" /\ UNCHANGED <<kind, begun, seal, crossed, seized>> BY DEF PutItem, Same
<1>2. CASE Ends(p, TRUE) /\ UNCHANGED item BY <1>1, <1>2, EndsSame DEF Ends
<1>3. CASE /\ item' = {[id |-> 0, key |-> wr[p].key, v |-> 0, by |-> "none", prov |-> Prov(p)]}
           /\ Goes(p, IF wr[p].upd THEN "verify" ELSE "seal") /\ UNCHANGED told
  <2> DEFINE pc == IF wr[p].upd THEN "verify" ELSE "seal"
             k == KeyItem(wr[p])
  <2>1. item' = {k} BY <1>3 DEF KeyItem, ProvOf, Prov
  <2>2. wr' = [wr EXCEPT ![p].pc = pc] BY <1>3 DEF Goes
  <2>3. /\ pc \in ChainPlaces \ {"idle"} /\ pc \in {"verify", "seal"} /\ (wr[p].upd => pc = "verify")
        /\ (~wr[p].upd => pc = "seal")
    BY DEF ChainPlaces
  <2> HIDE DEF pc
  <2>4. wr[p] \in WriterSet /\ WriterOK(wr[p], begun, kind) BY WriterIs DEF StoreInv
  <2>5. WriterOK([wr[p] EXCEPT !.pc = pc], begun, kind)
    BY <1>1, <2>3, <2>4 DEF WriterOK, WriterSet, ChainPlaces
  <2>6. Updating(wr[p]) => Updating([wr[p] EXCEPT !.pc = pc]) BY <1>1, <2>3, <2>4 DEF Updating, WriterSet
  <2>7. ItemsIn(item', begun) /\ SealsIn(seal', begun) /\ told' \in BOOLEAN
    BY <1>1, <1>3, <2>1, PutIs DEF StoreInv, Common, StoreTypes
  <2>8. PICK w \in WriterSet :
             /\ w = [wr[p] EXCEPT !.pc = pc] /\ w.pc = pc /\ w.upd = wr[p].upd /\ w.n = wr[p].n /\ w.op = wr[p].op
             /\ w.solo = wr[p].solo /\ w.key = wr[p].key /\ KeyItem(w) = KeyItem(wr[p]) /\ SealedItem(w) = SealedItem(wr[p])
             /\ Common' /\ \A q \in Writers : wr'[q] = IF q = p THEN w ELSE wr[q]
    BY <1>1, <2>1, <2>2, <2>3, <2>5, <2>6, <2>7, ChainGoes
  <2>9. /\ SealOf(wr[p], seal) /\ (wr[p].solo => ChainPlace(wr[p], item, seal))
    BY <1>1 DEF StoreInv, ChainInv
  <2>10. SealOf(w, seal') BY <1>1, <2>3, <2>8, <2>9 DEF SealOf
  <2>11. w.solo => ChainPlace(w, item', seal') BY <1>1, <2>1, <2>3, <2>8, <2>9 DEF ChainPlace
  <2>12. One(item') /\ OldItem(item') BY <1>1, <2>1, PutIs DEF One, OldItem
  <2>13. ChainWhole(item', seal') \/ ChainOpen(w, seal')
    <3>1. CASE ~wr[p].upd BY <2>3, <2>8, <3>1 DEF ChainOpen
    <3>2. ASSUME wr[p].upd, NEW s \in seal, s.v = wr[p].n PROVE ChainWhole(item', seal')
      <4>1. s.key = wr[p].key BY <1>1, <2>9, <3>2 DEF SealOf
      <4> QED BY <1>1, <2>1, <3>2, <4>1, PutIs DEF ChainWhole
    <3>3. CASE wr[p].upd /\ \A s \in seal : s.v # wr[p].n BY <1>1, <2>3, <2>8, <3>3 DEF ChainOpen
    <3> QED BY <3>1, <3>2, <3>3
  <2>14. \E q \in Writers : wr'[q] = w BY <2>8
  <2>15. ASSUME crossed' = "no" PROVE ChainAge(item', seal')
    <3>1. ChainPlace(wr[p], item, seal) BY <1>1, <2>9, <2>15, AloneWhenNo
    <3>2. CASE wr[p].upd
      <4>1. seal' = {SealedItem(wr[p])} BY <1>1, <3>1, <3>2 DEF ChainPlace
      <4> QED BY <1>1, <2>1, <4>1, PutIs DEF ChainAge
    <3>3. CASE ~wr[p].upd
      <4>1. SealsBefore(seal, wr[p].n) BY <1>1, <3>1, <3>3 DEF ChainPlace
      <4>2. k.key = wr[p].n /\ wr[p].n \in Nat /\ k.prov \in {0, wr[p].n} BY <1>1, <3>3, PutIs
      <4>3. ASSUME NEW s \in seal PROVE s.key # k.key /\ s.v # wr[p].n
        <5>1. s.v \in Nat /\ s.key \in Nat BY DEF StoreInv, Common, StoreTypes, SealsIn, SealSet
        <5>2. s.v < wr[p].n /\ s.key < wr[p].n BY <4>1 DEF SealsBefore
        <5> QED BY <4>2, <5>1, <5>2
      <4> HIDE DEF k
      <4> QED BY <1>1, <2>1, <4>2, <4>3 DEF ChainAge
    <3> QED BY <3>2, <3>3
  <2>16. ChainInv'
    BY <1>1, <2>8, <2>10, <2>11, <2>12, <2>13, <2>14, <2>15, ChainKeeps
  <2> QED BY <1>1, <2>8, <2>16 DEF StoreInv
<1> QED BY <1>2, <1>3 DEF PutItem

LEMMA PutSealedInv == ASSUME StoreInv, NEW p \in Writers, PutSealed(p) PROVE StoreInv'
<1>1. /\ kind = "keychain" /\ wr[p].pc = "seal" /\ UNCHANGED <<kind, begun, item, told, crossed, seized>>
  BY DEF PutSealed, Same
<1>2. wr[p] \in WriterSet /\ WriterOK(wr[p], begun, kind) BY WriterIs DEF StoreInv
<1>3. ItemsIn(item', begun) /\ SealsIn(seal, begun) /\ told' \in BOOLEAN BY <1>1 DEF StoreInv, Common, StoreTypes
<1>4. /\ SealOf(wr[p], seal) /\ (wr[p].solo => ChainPlace(wr[p], item, seal)) /\ One(item) /\ OldItem(item)
  BY <1>1 DEF StoreInv, ChainInv
<1>5. CASE ~wr[p].upd /\ Goes(p, "undo") /\ UNCHANGED seal
  <2>1. WriterOK([wr[p] EXCEPT !.pc = "undo"], begun, kind)
    BY <1>1, <1>2, <1>5 DEF WriterOK, WriterSet, ChainPlaces
  <2>2. Updating(wr[p]) => Updating([wr[p] EXCEPT !.pc = "undo"]) BY <1>1, <1>2 DEF Updating, WriterSet
  <2>3. "undo" \in ChainPlaces \ {"idle"} BY DEF ChainPlaces
  <2>4. PICK w \in WriterSet :
             /\ w = [wr[p] EXCEPT !.pc = "undo"] /\ w.pc = "undo" /\ w.upd = wr[p].upd /\ w.n = wr[p].n /\ w.op = wr[p].op
             /\ w.solo = wr[p].solo /\ w.key = wr[p].key /\ KeyItem(w) = KeyItem(wr[p]) /\ SealedItem(w) = SealedItem(wr[p])
             /\ Common' /\ \A q \in Writers : wr'[q] = IF q = p THEN w ELSE wr[q]
    BY <1>1, <1>3, <1>5, <2>1, <2>2, <2>3, ChainGoes DEF Goes
  <2>5. SealOf(w, seal) /\ (w.solo => ChainPlace(w, item, seal)) /\ ChainOpen(w, seal)
    BY <1>1, <1>4, <1>5, <2>4 DEF SealOf, ChainPlace, ChainOpen
  <2>6. ChainInv' BY <1>1, <1>5, <2>4, <2>5, ChainSame
  <2> QED BY <1>1, <2>4, <2>6 DEF StoreInv
<1>6. CASE /\ seal' = {[key |-> wr[p].key, v |-> wr[p].n, by |-> By(p)]}
           /\ Goes(p, IF wr[p].upd THEN "item" ELSE "verify")
  <2> DEFINE pc == IF wr[p].upd THEN "item" ELSE "verify"
  <2>1. seal' = {SealedItem(wr[p])} BY <1>6 DEF SealedItem, ByOf, By
  <2>2. wr' = [wr EXCEPT ![p].pc = pc] BY <1>6 DEF Goes
  <2>3. /\ pc \in ChainPlaces \ {"idle"} /\ pc \in {"verify", "item"} /\ (wr[p].upd => pc = "item")
        /\ (~wr[p].upd => pc = "verify")
    BY DEF ChainPlaces
  <2> HIDE DEF pc
  <2>5. WriterOK([wr[p] EXCEPT !.pc = pc], begun, kind)
    BY <1>1, <1>2, <2>3 DEF WriterOK, WriterSet, ChainPlaces
  <2>6. Updating(wr[p]) => Updating([wr[p] EXCEPT !.pc = pc]) BY <1>1, <1>2, <2>3 DEF Updating, WriterSet
  <2>7. SealsIn(seal', begun) BY <1>1, <2>1, PutIs
  <2>8. PICK w \in WriterSet :
             /\ w = [wr[p] EXCEPT !.pc = pc] /\ w.pc = pc /\ w.upd = wr[p].upd /\ w.n = wr[p].n /\ w.op = wr[p].op
             /\ w.solo = wr[p].solo /\ w.key = wr[p].key /\ KeyItem(w) = KeyItem(wr[p]) /\ SealedItem(w) = SealedItem(wr[p])
             /\ Common' /\ \A q \in Writers : wr'[q] = IF q = p THEN w ELSE wr[q]
    BY <1>1, <1>3, <2>1, <2>2, <2>3, <2>5, <2>6, <2>7, ChainGoes
  <2>9. \A s \in seal' : s.v = w.n /\ s.key = w.key BY <1>1, <2>1, <2>8, PutIs
  <2>10. SealOf(w, seal') BY <2>3, <2>8, <2>9 DEF SealOf
  <2>11. w.solo => ChainPlace(w, item', seal') BY <1>1, <1>4, <2>1, <2>3, <2>8 DEF ChainPlace
  <2>13. ~told' /\ crossed' # "other" => ChainWhole(item', seal') \/ ChainOpen(w, seal')
    <3>1. CASE wr[p].upd BY <2>3, <2>8, <3>1 DEF ChainOpen
    <3>2. CASE ~wr[p].upd /\ crossed # "other"
      <4>1. wr[p].solo
        BY <1>1, <1>2, <3>2 DEF StoreInv, Common, CrossedOK, StoreTypes, Updating, WriterOK
      <4>2. item' = {KeyItem(wr[p])} BY <1>1, <1>4, <3>2, <4>1 DEF ChainPlace
      <4>3. SealedItem(wr[p]) \in seal' BY <2>1
      <4> QED BY <1>1, <4>2, <4>3, PutIs DEF ChainWhole
    <3> QED BY <1>1, <3>1, <3>2
  <2>14. \E q \in Writers : wr'[q] = w BY <2>8
  <2>15. ASSUME crossed' = "no" PROVE ChainAge(item', seal')
    <3>1. ChainPlace(wr[p], item, seal) /\ wr[p].solo BY <1>1, <1>4, <2>15, AloneWhenNo
    <3>2. wr[p].n = begun BY <1>1, <3>1, PutIs DEF StoreInv, Common, SoloOK
    <3>3. CASE wr[p].upd
      <4>1. ItemsBefore(item, wr[p].n) BY <1>1, <3>1, <3>3 DEF ChainPlace
      <4>2. ASSUME NEW i \in item PROVE i.prov <= wr[p].n /\ i.prov # wr[p].n
        <5>1. i.prov \in Nat /\ wr[p].n \in Nat BY <1>1, PutIs DEF StoreInv, Common, StoreTypes, ItemsIn, ItemSet
        <5>2. i.prov < wr[p].n BY <4>1 DEF ItemsBefore
        <5> QED BY <5>1, <5>2
      <4>3. \A s \in seal' : s.v = wr[p].n BY <2>8, <2>9
      <4> QED BY <1>1, <4>2, <4>3 DEF ChainAge
    <3>4. CASE ~wr[p].upd
      <4>1. item' = {KeyItem(wr[p])} BY <1>1, <3>1, <3>4 DEF ChainPlace
      <4> QED BY <1>1, <2>1, <4>1, PutIs DEF ChainAge
    <3> QED BY <3>3, <3>4
  <2>16. ChainInv'
    <3>1. seal' = {SealedItem(wr[p])} /\ wr[p].op # "delete" BY <1>1, <2>1, PutIs
    <3>2. One(item') /\ OldItem(item') /\ UNCHANGED kind /\ wr[p].pc # "idle" BY <1>1, <1>4
    <3>3. \A q \in Writers : wr'[q] = IF q = p THEN w ELSE wr[q] BY <2>8
    <3>4. ~told' /\ crossed' # "other" => ChainWhole(item', seal') \/ \E q \in Writers : ChainOpen(wr'[q], seal')
      BY <2>13, <2>14
    <3> QED BY <1>1, <2>10, <2>11, <2>15, <3>1, <3>2, <3>3, <3>4, ChainKeeps
  <2> QED BY <1>1, <2>8, <2>16 DEF StoreInv
<1> QED BY <1>5, <1>6 DEF PutSealed

(* A create, a first import and a delete run beside nothing, or the overlap counts as
   another than of updates. *)
LEMMA AloneUnlessOther ==
    ASSUME StoreInv, NEW p \in Writers, wr[p].pc # "idle",
           wr[p].op = "delete" \/ (wr[p].pc \in {"item", "seal", "undo", "verify"} /\ ~wr[p].upd)
    PROVE  crossed # "other" => wr[p].solo
<1>1. WriterOK(wr[p], begun, kind) BY WriterIs DEF StoreInv
<1> QED BY <1>1 DEF StoreInv, Common, StoreTypes, CrossedOK, Updating, WriterOK

(* A command on the keychain that ends and leaves less there. *)
LEMMA ChainEnds ==
    ASSUME StoreInv, kind = "keychain", NEW p \in Writers, wr[p].pc # "idle", wr' = [wr EXCEPT ![p] = Resting],
           UNCHANGED <<kind, begun, seized>>, told' \in BOOLEAN,
           item' = item \/ item' = {}, seal' = seal \/ seal' = {},
           UNCHANGED crossed \/ (crossed' = "no" /\ wr[p].solo),
           item' = item \/ (crossed # "other" => wr[p].solo),
           ~told' /\ crossed' # "other" =>
               ChainWhole(item', seal') \/ \E q \in Writers : q # p /\ ChainOpen(wr[q], seal'),
           crossed' = "no" => ChainAge(item', seal')
    PROVE  StoreInv'
<1>1. WriterOK(Resting, begun, kind) BY WriterIs, RestingIs DEF StoreInv
<1>2. ItemsIn(item', begun) /\ SealsIn(seal', begun)
  BY DEF StoreInv, Common, StoreTypes, ItemsIn, SealsIn
<1>3. Common' /\ \A q \in Writers : wr'[q] = IF q = p THEN Resting ELSE wr[q]
  <2>1. Common /\ UNCHANGED <<kind, begun>> /\ Resting \in WriterSet BY RestingIs DEF StoreInv
  <2>2. UNCHANGED crossed \/ (crossed' = "no" /\ Resting = Resting /\ wr[p].solo) OBVIOUS
  <2>3. crossed = "updates" /\ item # {} /\ ~wr[p].solo => item' # {} OBVIOUS
  <2> QED BY <1>1, <1>2, <2>1, <2>2, <2>3, WriterMoves
<1>4. SealOf(Resting, seal') BY RestingIs DEF SealOf
<1>5. One(item') /\ OldItem(item') BY DEF StoreInv, ChainInv, One, OldItem
<1>6. ~told' /\ crossed' # "other" => ChainWhole(item', seal') \/ \E q \in Writers : ChainOpen(wr'[q], seal')
  BY <1>3
<1>7. ChainInv' BY <1>3, <1>4, <1>5, <1>6, RestingIs, ChainKeeps
<1> QED BY <1>3, <1>7 DEF StoreInv

LEMMA UndoInv == ASSUME StoreInv, NEW p \in Writers, Undo(p) PROVE StoreInv'
<1>1. /\ wr[p].pc = "undo" /\ UNCHANGED <<kind, begun, seal, crossed, seized>> /\ told' = TRUE
      /\ wr' = [wr EXCEPT ![p] = Resting] /\ (item' = {} \/ item' = item)
  BY DEF Undo, Same, Ends
<1>2. wr[p] \in WriterSet /\ WriterOK(wr[p], begun, kind) BY WriterIs DEF StoreInv
<1>3. kind = "keychain" /\ ~wr[p].upd
  BY <1>1, <1>2 DEF WriterOK, RingPlaces, StoreInv, Common, StoreTypes
<1>4. crossed # "other" => wr[p].solo BY <1>1, <1>3, AloneUnlessOther
<1>5. crossed' = "no" => ChainAge(item', seal') BY <1>1, <1>3 DEF StoreInv, ChainInv, ChainAge
<1>6. told' \in BOOLEAN BY <1>1
<1> QED BY <1>1, <1>3, <1>4, <1>5, <1>6, ChainEnds

LEMMA ReadBackInv == ASSUME StoreInv, NEW p \in Writers, Verify(p) PROVE StoreInv'
<1>1. kind = "keychain" /\ wr[p].pc = "verify" /\ UNCHANGED <<kind, begun, seized>> BY DEF Verify
<1>2. wr[p] \in WriterSet /\ WriterOK(wr[p], begun, kind) BY WriterIs DEF StoreInv
<1>3. CASE /\ ReadsBack(p) /\ wr' = [wr EXCEPT ![p] = Resting]
           /\ told' = (told /\ ~wr[p].solo) /\ crossed' = IF wr[p].solo THEN "no" ELSE crossed
           /\ UNCHANGED <<item, seal>>
  <2>1. \E s \in seal : s.v = wr[p].n
    <3>1. PICK r \in Reads : r[1] = "value" /\ r[2] = wr[p].n BY <1>3 DEF ReadsBack
    <3>2. wr[p].n # 0 BY <1>1, PutIs
    <3>3. \A i \in item : i.key = 0 => i.v # wr[p].n BY <1>1, <3>2 DEF StoreInv, ChainInv, OldItem
    <3> QED BY <3>1, <3>3, ReadsAre
  <2>2. ASSUME wr[p].solo PROVE ChainWhole(item, seal) /\ ChainAge(item, seal)
    <3>1. item = {KeyItem(wr[p])} /\ seal = {SealedItem(wr[p])}
      BY <1>1, <2>2 DEF StoreInv, ChainInv, ChainPlace
    <3> QED BY <1>1, <3>1, PutIs DEF ChainWhole, ChainAge
  <2>3. ASSUME ~told', crossed' # "other"
        PROVE  ChainWhole(item', seal') \/ \E q \in Writers : q # p /\ ChainOpen(wr[q], seal')
    <3>1. CASE wr[p].solo BY <1>3, <2>2, <3>1
    <3>2. CASE ~wr[p].solo
      <4>1. ChainWhole(item, seal) \/ \E q \in Writers : ChainOpen(wr[q], seal)
        BY <1>1, <1>3, <2>3, <3>2 DEF StoreInv, ChainInv
      <4>2. ~ChainOpen(wr[p], seal) BY <1>1, <2>1 DEF ChainOpen
      <4> QED BY <1>3, <4>1, <4>2
    <3> QED BY <3>1, <3>2
  <2>4. crossed' = "no" => ChainAge(item', seal') BY <1>1, <1>3, <2>2 DEF StoreInv, ChainInv
  <2>5. UNCHANGED crossed \/ (crossed' = "no" /\ wr[p].solo) BY <1>3
  <2>6. told' \in BOOLEAN BY <1>3
  <2> QED BY <1>1, <1>3, <2>3, <2>4, <2>5, <2>6, ChainEnds
<1>4. CASE /\ IF wr[p].upd THEN UNCHANGED <<item, seal>> ELSE item' = {} /\ seal' = {}
           /\ Ends(p, TRUE) /\ UNCHANGED crossed
  <2>1. crossed # "other" /\ ~wr[p].upd => wr[p].solo BY <1>1, AloneUnlessOther
  <2>2. told' = TRUE /\ wr' = [wr EXCEPT ![p] = Resting] BY <1>4 DEF Ends
  <2>3. crossed' = "no" => ChainAge(item', seal')
    BY <1>1, <1>4 DEF StoreInv, ChainInv, ChainAge
  <2> QED BY <1>1, <1>4, <2>1, <2>2, <2>3, ChainEnds
<1> QED BY <1>3, <1>4 DEF Verify

LEMMA DeleteItemInv == ASSUME StoreInv, NEW p \in Writers, DeleteItem(p) PROVE StoreInv'
<1>1. /\ kind = "keychain" /\ wr[p].pc = "find" /\ wr[p].op = "delete" /\ item' = {}
      /\ wr' = [wr EXCEPT ![p].pc = "unseal"] /\ UNCHANGED <<kind, begun, seal, told, crossed, seized>>
  BY DEF DeleteItem, Same, Goes
<1>2. wr[p] \in WriterSet /\ WriterOK(wr[p], begun, kind) BY WriterIs DEF StoreInv
<1>3. ItemsIn(item', begun) /\ SealsIn(seal', begun) /\ told' \in BOOLEAN
  BY <1>1 DEF StoreInv, Common, StoreTypes, ItemsIn
<1>4. WriterOK([wr[p] EXCEPT !.pc = "unseal"], begun, kind)
  BY <1>1, <1>2 DEF WriterOK, WriterSet, ChainPlaces
<1>5. Updating([wr[p] EXCEPT !.pc = "unseal"]) BY <1>1, <1>2 DEF Updating, WriterSet
<1>6. crossed # "other" => wr[p].solo BY <1>1, AloneUnlessOther
<1>7. "unseal" \in ChainPlaces \ {"idle"} BY DEF ChainPlaces
<1>8. PICK w \in WriterSet :
             /\ w = [wr[p] EXCEPT !.pc = "unseal"] /\ w.pc = "unseal" /\ w.upd = wr[p].upd /\ w.n = wr[p].n /\ w.op = wr[p].op
             /\ w.solo = wr[p].solo /\ w.key = wr[p].key /\ KeyItem(w) = KeyItem(wr[p]) /\ SealedItem(w) = SealedItem(wr[p])
             /\ Common' /\ \A q \in Writers : wr'[q] = IF q = p THEN w ELSE wr[q]
  BY <1>1, <1>3, <1>4, <1>5, <1>6, <1>7, ChainGoes
<1>9. SealOf(w, seal') /\ ChainPlace(w, item', seal') BY <1>1, <1>8 DEF SealOf, ChainPlace
<1>10. One(item') /\ OldItem(item') /\ ChainWhole(item', seal') /\ ChainAge(item', seal')
  BY <1>1 DEF One, OldItem, ChainWhole, ChainAge
<1>11. ChainInv' BY <1>1, <1>8, <1>9, <1>10, ChainKeeps
<1> QED BY <1>1, <1>8, <1>11 DEF StoreInv

LEMMA DeleteSealInv == ASSUME StoreInv, NEW p \in Writers, DeleteSeal(p) PROVE StoreInv'
<1>1. /\ wr[p].pc = "unseal" /\ UNCHANGED <<kind, begun, item, crossed, seized>> /\ told' = told /\ seal' = {}
      /\ wr' = [wr EXCEPT ![p] = Resting]
  <2>1. told \in BOOLEAN BY DEF StoreInv, Common, StoreTypes
  <2> QED BY <2>1 DEF DeleteSeal, Same, Ends
<1>2. wr[p] \in WriterSet /\ WriterOK(wr[p], begun, kind) BY WriterIs DEF StoreInv
<1>3. kind = "keychain" /\ wr[p].op = "delete"
  BY <1>1, <1>2 DEF WriterOK, RingPlaces, StoreInv, Common, StoreTypes
<1>4. crossed # "other" => item = {}
  BY <1>1, <1>3, AloneUnlessOther DEF StoreInv, ChainInv, ChainPlace
<1>5. crossed' # "other" => ChainWhole(item', seal') BY <1>1, <1>4 DEF ChainWhole
<1>6. ChainAge(item', seal') BY <1>1 DEF ChainAge
<1>7. told' \in BOOLEAN BY <1>1 DEF StoreInv, Common, StoreTypes
<1> QED BY <1>1, <1>3, <1>5, <1>6, <1>7, ChainEnds

-----------------------------------------------------------------------------
LEMMA FindItemInv == ASSUME StoreInv, NEW p \in Writers, FindItem(p) PROVE StoreInv'
<1>1. kind = "keyring" /\ wr[p].pc = "find" /\ UNCHANGED <<kind, begun, item, seal, crossed, seized>> BY DEF FindItem, Same
<1>2. wr[p] \in WriterSet /\ WriterOK(wr[p], begun, kind) BY WriterIs DEF StoreInv
<1>3. CASE Ends(p, TRUE) BY <1>1, <1>3, EndsSame DEF Ends
<1>4. ASSUME NEW pc \in {"create", "value", "drop"}, NEW id \in Nat, wr' = [wr EXCEPT ![p].id = id, ![p].pc = pc], UNCHANGED told,
             pc = "drop" <=> wr[p].op = "delete", pc = "create" => ~wr[p].upd /\ item = {}, pc = "value" => wr[p].upd
      PROVE  StoreInv'
  <2> DEFINE w == [wr[p] EXCEPT !.id = id, !.pc = pc]
  <2>2. wr' = [wr EXCEPT ![p] = w] BY <1>2, <1>4 DEF WriterSet
  <2>3. /\ w \in WriterSet /\ w.pc = pc /\ w.upd = wr[p].upd /\ w.n = wr[p].n /\ w.op = wr[p].op
        /\ w.solo = wr[p].solo /\ w.key = wr[p].key
    BY <1>2, <1>4 DEF WriterSet, ChainPlaces, RingPlaces
  <2> HIDE DEF w
  <2>4. WriterOK(w, begun, kind) BY <1>1, <1>2, <1>4, <2>3 DEF WriterOK, ChainPlaces, RingPlaces
  <2>5. Updating(wr[p]) => Updating(w) BY <1>1, <2>3 DEF Updating
  <2>6. ItemsIn(item', begun) /\ SealsIn(seal', begun) /\ told' \in BOOLEAN
    BY <1>1, <1>4 DEF StoreInv, Common, StoreTypes
  <2>7. Common' /\ \A q \in Writers : wr'[q] = IF q = p THEN w ELSE wr[q]
    BY <1>1, <1>4, <2>2, <2>3, <2>4, <2>5, <2>6, WriterMoves DEF StoreInv
  <2>8. crossed = "no" => RingPlace(w, item) BY <1>1, <1>4, <2>3 DEF RingPlace, StoreInv, RingInv
  <2>9. RingInv' BY <1>1, <1>4, <2>3, <2>7, <2>8, RingSame
  <2> QED BY <1>1, <2>7, <2>9 DEF StoreInv
<1>5. CASE item = {} /\ ~(wr[p].op = "delete" \/ wr[p].upd) /\ Goes(p, "create") /\ UNCHANGED told
  <2>1. wr' = [wr EXCEPT ![p].id = wr[p].id, ![p].pc = "create"] /\ wr[p].id \in Nat BY <1>2, <1>5 DEF Goes, WriterSet
  <2> QED BY <1>4, <1>5, <2>1
<1>6. ASSUME NEW i \in item, wr[p].op = "delete" \/ wr[p].upd, UNCHANGED told,
             wr' = [wr EXCEPT ![p].id = i.id, ![p].pc = IF wr[p].op = "delete" THEN "drop" ELSE "value"]
      PROVE  StoreInv'
  <2>1. i.id \in Nat BY DEF StoreInv, Common, StoreTypes, ItemsIn, ItemSet
  <2> DEFINE pc == IF wr[p].op = "delete" THEN "drop" ELSE "value"
  <2>2. /\ pc \in {"create", "value", "drop"} /\ (pc = "drop" <=> wr[p].op = "delete") /\ pc # "create"
        /\ (pc = "value" => wr[p].upd) /\ wr' = [wr EXCEPT ![p].id = i.id, ![p].pc = pc]
    BY <1>6
  <2> HIDE DEF pc
  <2> QED BY <1>4, <1>6, <2>1, <2>2
<1> QED BY <1>1, <1>3, <1>5, <1>6 DEF FindItem

(* What a writer on the keyring is, and that it is alone while nothing overlapped. *)
LEMMA RingWriter ==
    ASSUME StoreInv, NEW p \in Writers, wr[p].pc \in {"create", "value", "attributes", "drop"}
    PROVE  /\ kind = "keyring" /\ seal = {} /\ (\A i \in item : i.key = 0) /\ begun \in Nat
           /\ wr[p] \in WriterSet /\ WriterOK(wr[p], begun, kind)
           /\ wr[p].n \in Nat /\ wr[p].n <= begun
           /\ wr[p].pc # "drop" => wr[p].op # "delete" /\ wr[p].n # 0
           /\ By(p) = ByOf(wr[p]) /\ Prov(p) = ProvOf(wr[p])
           /\ By(p) \in {"hand", "import"} /\ Prov(p) \in {0, wr[p].n} /\ (Prov(p) # 0 => By(p) = "import")
           /\ crossed = "no" /\ wr[p].solo =>
                /\ One(item) /\ RingAge(item) /\ RingPlace(wr[p], item)
                /\ wr[p].pc # "drop" => wr[p].n = begun
                /\ wr[p].pc # "attributes" => (~told => RingWhole(item))
<1>1. wr[p] \in WriterSet /\ WriterOK(wr[p], begun, kind) /\ begun \in Nat BY WriterIs DEF StoreInv
<1>2. kind = "keyring" BY <1>1 DEF WriterOK, ChainPlaces, StoreInv, Common, StoreTypes
<1>3. /\ wr[p].n \in Nat /\ wr[p].n <= begun /\ (wr[p].pc # "drop" => wr[p].op # "delete" /\ wr[p].n # 0)
  BY <1>1 DEF WriterSet, WriterOK
<1>4. /\ By(p) = ByOf(wr[p]) /\ Prov(p) = ProvOf(wr[p])
      /\ By(p) \in {"hand", "import"} /\ Prov(p) \in {0, wr[p].n} /\ (Prov(p) # 0 => By(p) = "import")
  BY DEF By, Prov, ByOf, ProvOf
<1>5. ASSUME crossed = "no", wr[p].solo
      PROVE  /\ One(item) /\ RingAge(item) /\ RingPlace(wr[p], item)
             /\ wr[p].pc # "drop" => wr[p].n = begun
             /\ wr[p].pc # "attributes" => (~told => RingWhole(item))
  <2>1. \A q \in Writers : q # p => wr[q].pc = "idle" BY <1>5, RestingIs DEF StoreInv, Common, SoloOK
  <2>2. wr[p].pc # "drop" => wr[p].n = begun BY <1>3, <1>5 DEF StoreInv, Common, SoloOK
  <2>3. wr[p].pc # "attributes" => (~told => RingWhole(item)) BY <1>2, <1>5, <2>1 DEF StoreInv, RingInv
  <2> QED BY <1>2, <1>5, <2>2, <2>3 DEF StoreInv, RingInv
<1> QED BY <1>1, <1>2, <1>3, <1>4, <1>5 DEF StoreInv, RingInv

(* A command on the keyring that ends. *)
LEMMA RingEnds ==
    ASSUME StoreInv, NEW p \in Writers, wr[p].pc \in {"create", "value", "attributes", "drop"}, wr' = [wr EXCEPT ![p] = Resting],
           UNCHANGED <<kind, begun, seal, crossed, seized>>, told' \in BOOLEAN, ItemsIn(item', begun),
           \A i \in item' : i.key = 0, item # {} => item' # {} \/ wr[p].op = "delete",
           crossed = "no" /\ wr[p].solo => One(item') /\ RingAge(item') /\ (~told' => RingWhole(item'))
    PROVE  StoreInv'
<1>1. WriterOK(Resting, begun, kind) BY WriterIs, RestingIs DEF StoreInv
<1>2. SealsIn(seal', begun) BY DEF StoreInv, Common, StoreTypes
<1>3. Common' /\ \A q \in Writers : wr'[q] = IF q = p THEN Resting ELSE wr[q]
  <2>1. Common /\ UNCHANGED <<kind, begun>> /\ Resting \in WriterSet BY RestingIs DEF StoreInv
  <2>2. crossed = "updates" /\ item # {} /\ ~wr[p].solo => item' # {} BY AloneUnlessOther
  <2> QED BY <1>1, <1>2, <2>1, <2>2, WriterMoves
<1>4. RingPlace(Resting, item') BY RestingIs DEF RingPlace
<1>5. kind = "keyring" /\ seal' = {} BY RingWriter
<1>6. RingInv' BY <1>3, <1>4, <1>5, RestingIs, RingKeeps
<1> QED BY <1>3, <1>5, <1>6 DEF StoreInv

LEMMA CreateItemInv == ASSUME StoreInv, NEW p \in Writers, CreateItem(p) PROVE StoreInv'
<1> DEFINE i == [id |-> wr[p].n, key |-> 0, v |-> wr[p].n, by |-> By(p), prov |-> Prov(p)]
<1>1. /\ wr[p].pc = "create" /\ UNCHANGED <<kind, begun, seal, crossed, seized>> /\ told' = told
      /\ item' = item \cup {i} /\ wr' = [wr EXCEPT ![p] = Resting]
  <2>1. told \in BOOLEAN BY DEF StoreInv, Common, StoreTypes
  <2> QED BY <2>1 DEF CreateItem, Same, Ends
<1>2. i \in ItemSet /\ i.key = 0 /\ i.v = wr[p].n /\ i.prov = Prov(p) /\ i.by = By(p)
  BY <1>1, RingWriter DEF ItemSet
<1> HIDE DEF i
<1>3. told' \in BOOLEAN /\ ItemsIn(item, begun) BY <1>1 DEF StoreInv, Common, StoreTypes
<1>4. ItemsIn(item', begun) BY <1>1, <1>2, <1>3, RingWriter DEF ItemsIn
<1>5. ASSUME crossed = "no", wr[p].solo PROVE One(item') /\ RingAge(item') /\ RingWhole(item')
  <2>1. item' = {i} BY <1>1, <1>5, RingWriter DEF RingPlace
  <2> QED BY <1>1, <1>2, <2>1, RingWriter DEF One, RingAge, RingWhole
<1> QED BY <1>1, <1>2, <1>3, <1>4, <1>5, RingEnds, RingWriter

(* What becomes of the items that a writer changes, and of the others. *)
LEMMA MineIs ==
    ASSUME NEW p \in Writers, NEW i \in item
    PROVE  (i \in Mine(p) <=> i.id = wr[p].id) /\ (One(item) /\ Mine(p) # {} => Mine(p) = item)
  BY DEF Mine, One

LEMMA SetSecretInv == ASSUME StoreInv, NEW p \in Writers, SetSecret(p) PROVE StoreInv'
<1>1. wr[p].pc = "value" /\ UNCHANGED <<kind, begun, seal, crossed, seized>> BY DEF SetSecret, Same
<1>2. CASE Ends(p, TRUE) /\ UNCHANGED item BY <1>1, <1>2, EndsSame DEF Ends
<1>3. CASE /\ Mine(p) # {}
           /\ item' = (item \ Mine(p)) \cup {[i EXCEPT !.v = wr[p].n, !.by = By(p)] : i \in Mine(p)}
           /\ Goes(p, "attributes") /\ UNCHANGED told
  <2> DEFINE new(i) == [i EXCEPT !.v = wr[p].n, !.by = By(p)]
             w == [wr[p] EXCEPT !.pc = "attributes"]
  <2>1. ASSUME NEW i \in item
        PROVE  /\ new(i) \in ItemSet /\ new(i).key = 0 /\ new(i).v = wr[p].n /\ new(i).by = By(p)
               /\ new(i).prov = i.prov /\ new(i).id = i.id /\ i.prov <= begun /\ i.prov \in Nat
               /\ i \in ItemSet /\ i.v <= begun /\ i.key = 0
    <3>1. i \in ItemSet /\ i.prov <= begun /\ i.v <= begun BY DEF StoreInv, Common, StoreTypes, ItemsIn
    <3> QED BY <1>1, <3>1, RingWriter DEF ItemSet
  <2>2. item' = (item \ Mine(p)) \cup {new(i) : i \in Mine(p)} /\ Mine(p) \subseteq item BY <1>3 DEF Mine
  <2> HIDE DEF new
  <2>3. \A j \in item' : (j \in item /\ j \notin Mine(p)) \/ \E i \in Mine(p) : j = new(i) BY <2>2
  <2>4. ItemsIn(item', begun) /\ (\A j \in item' : j.key = 0) /\ item' # {}
    <3>1. item' # {}
      <4>1. PICK i \in Mine(p) : TRUE BY <1>3
      <4>2. new(i) \in item' BY <2>2, <4>1
      <4> QED BY <4>2
    <3>2. ASSUME NEW j \in item' PROVE j \in ItemSet /\ j.key = 0 /\ j.v <= begun /\ j.prov <= begun
      <4>1. CASE j \in item BY <2>1, <4>1
      <4>2. CASE \E i \in Mine(p) : j = new(i) BY <1>1, <2>1, <2>2, <4>2, RingWriter
      <4> QED BY <2>3, <4>1, <4>2
    <3>3. \A j \in item' : j.key <= begun BY <1>1, <3>2, RingWriter
    <3> QED BY <3>1, <3>2, <3>3 DEF ItemsIn
  <2>5. wr[p] \in WriterSet /\ WriterOK(wr[p], begun, kind) BY WriterIs DEF StoreInv
  <2>6. wr' = [wr EXCEPT ![p] = w] BY <1>3 DEF Goes
  <2>7. /\ w \in WriterSet /\ w.pc = "attributes" /\ w.upd = wr[p].upd /\ w.n = wr[p].n /\ w.op = wr[p].op
        /\ w.solo = wr[p].solo /\ w.key = wr[p].key /\ w.id = wr[p].id
    BY <2>5 DEF WriterSet, RingPlaces
  <2> HIDE DEF w
  <2>8. WriterOK(w, begun, kind) BY <1>1, <2>5, <2>7 DEF WriterOK, ChainPlaces, RingPlaces
  <2>9. Updating(wr[p]) => Updating(w) BY <1>1, <2>7 DEF Updating
  <2>10. SealsIn(seal', begun) /\ told' \in BOOLEAN BY <1>1, <1>3 DEF StoreInv, Common, StoreTypes
  <2>11. Common' /\ \A q \in Writers : wr'[q] = IF q = p THEN w ELSE wr[q]
    BY <1>1, <2>4, <2>6, <2>7, <2>8, <2>9, <2>10, WriterMoves DEF StoreInv
  <2>12. ByOf(w) = By(p) BY <1>1, <2>7, RingWriter DEF ByOf
  <2>13. ASSUME crossed = "no", wr[p].solo PROVE One(item') /\ RingAge(item') /\ RingPlace(w, item')
    <3>1. /\ One(item) /\ RingPlace(wr[p], item) /\ wr[p].n = begun BY <1>1, <2>13, RingWriter
    <3>2. Mine(p) = item BY <1>3, <3>1, MineIs DEF Mine
    <3>3. \A j \in item' : \E i \in item : j = new(i) BY <2>3, <3>2
    <3>4. One(item') BY <3>1, <3>3 DEF One
    <3>5. ItemsBefore(item, wr[p].n) BY <1>1, <3>1, RingWriter DEF RingPlace
    <3>6. ASSUME NEW j \in item' PROVE j.prov <= j.v /\ j.prov # j.v /\ j.v = wr[p].n /\ j.by = By(p)
      <4>1. PICK i \in item : j = new(i) BY <3>3
      <4>2. i.prov < wr[p].n BY <3>5 DEF ItemsBefore
      <4> QED BY <1>1, <2>1, <4>1, <4>2, RingWriter
    <3> QED BY <2>7, <2>12, <3>4, <3>6 DEF RingAge, RingPlace
  <2>14. RingInv'
    <3>1. kind = "keyring" /\ seal' = {} /\ wr[p].pc # "idle" BY <1>1, RingWriter
    <3> QED BY <1>1, <2>4, <2>7, <2>11, <2>13, <3>1, RingKeeps
  <2>15. kind = "keyring" BY <1>1, RingWriter
  <2> QED BY <1>1, <2>11, <2>14, <2>15 DEF StoreInv
<1> QED BY <1>2, <1>3 DEF SetSecret

LEMMA SetAttributesInv == ASSUME StoreInv, NEW p \in Writers, SetAttributes(p) PROVE StoreInv'
<1> DEFINE new(i) == [i EXCEPT !.prov = Prov(p)]
<1>1. /\ wr[p].pc = "attributes" /\ UNCHANGED <<kind, begun, seal, crossed, seized>>
      /\ item' = (item \ Mine(p)) \cup {new(i) : i \in Mine(p)} /\ wr' = [wr EXCEPT ![p] = Resting]
      /\ told' \in BOOLEAN /\ (~told' => Mine(p) # {})
  BY DEF SetAttributes, Same, Ends
<1>2. ASSUME NEW i \in item
      PROVE  /\ new(i) \in ItemSet /\ new(i).key = 0 /\ new(i).v = i.v /\ new(i).by = i.by
             /\ new(i).prov = Prov(p) /\ i.v <= begun
             /\ i \in ItemSet /\ i.prov <= begun /\ i.key = 0
  <2>1. i \in ItemSet /\ i.prov <= begun /\ i.v <= begun BY DEF StoreInv, Common, StoreTypes, ItemsIn
  <2> QED BY <1>1, <2>1, RingWriter DEF ItemSet
<1>3. Mine(p) \subseteq item BY DEF Mine
<1> HIDE DEF new
<1>4. \A j \in item' : (j \in item /\ j \notin Mine(p)) \/ \E i \in Mine(p) : j = new(i) BY <1>1
<1>5. ItemsIn(item', begun) /\ (\A j \in item' : j.key = 0) /\ (item # {} => item' # {})
  <2>1. item # {} => item' # {} BY <1>1, <1>3
  <2>2. ASSUME NEW j \in item' PROVE j \in ItemSet /\ j.key = 0 /\ j.v <= begun /\ j.prov <= begun
    <3>1. CASE j \in item BY <1>2, <3>1
    <3>2. CASE \E i \in Mine(p) : j = new(i) BY <1>1, <1>2, <1>3, <3>2, RingWriter
    <3> QED BY <1>4, <3>1, <3>2
  <2>3. \A j \in item' : j.key <= begun BY <1>1, <2>2, RingWriter
  <2> QED BY <2>1, <2>2, <2>3 DEF ItemsIn
<1>6. ASSUME crossed = "no", wr[p].solo PROVE One(item') /\ RingAge(item') /\ (~told' => RingWhole(item'))
  <2>1. One(item) /\ RingAge(item) /\ RingPlace(wr[p], item) BY <1>1, <1>6, RingWriter
  <2>2. CASE Mine(p) = {}
    <3>1. item' = item BY <1>1, <2>2
    <3> QED BY <1>1, <2>1, <2>2, <3>1
  <2>3. CASE Mine(p) # {}
    <3>1. Mine(p) = item BY <1>3, <2>1, <2>3, MineIs
    <3>2. \A j \in item' : \E i \in item : j = new(i) BY <1>4, <3>1
    <3>3. One(item') BY <2>1, <3>2 DEF One
    <3>4. ASSUME NEW j \in item'
          PROVE  j.v = wr[p].n /\ j.by = By(p) /\ j.prov = Prov(p)
      <4>1. PICK i \in item : j = new(i) BY <3>2
      <4>2. i.id = wr[p].id BY <3>1, MineIs
      <4>3. i.v = wr[p].n /\ i.by = By(p) BY <1>1, <2>1, <4>2, RingWriter DEF RingPlace
      <4> QED BY <1>2, <4>1, <4>3
    <3> QED BY <1>1, <3>3, <3>4, RingWriter DEF RingAge, RingWhole
  <2> QED BY <2>2, <2>3
<1> QED BY <1>1, <1>5, <1>6, RingEnds

LEMMA DropInv == ASSUME StoreInv, NEW p \in Writers, Drop(p) PROVE StoreInv'
<1>1. /\ wr[p].pc = "drop" /\ UNCHANGED <<kind, begun, seal, crossed, seized>> /\ told' = told
      /\ item' = item \ Mine(p) /\ wr' = [wr EXCEPT ![p] = Resting]
  <2>1. told \in BOOLEAN BY DEF StoreInv, Common, StoreTypes
  <2> QED BY <2>1 DEF Drop, Same, Ends
<1>2. told' \in BOOLEAN /\ ItemsIn(item', begun) BY <1>1 DEF StoreInv, Common, StoreTypes, ItemsIn
<1>3. wr[p].op = "delete" BY <1>1, RingWriter DEF WriterOK
<1>4. \A i \in item' : i.key = 0 BY <1>1, RingWriter
<1>5. crossed = "no" /\ wr[p].solo => One(item') /\ RingAge(item') /\ (~told' => RingWhole(item'))
  BY <1>1, RingWriter DEF One, RingAge, RingWhole
<1> QED BY <1>1, <1>2, <1>3, <1>4, <1>5, RingEnds

-----------------------------------------------------------------------------
LEMMA SameWriter ==
    ASSUME NEW r \in WriterSet, NEW s \in WriterSet, r.pc = s.pc, r.op = s.op, r.upd = s.upd, r.n = s.n, r.key = s.key,
           r.id = s.id, r.imported = s.imported, r.yes = s.yes, r.solo = s.solo
    PROVE  r = s
  BY DEF WriterSet

LEMMA SoloGone == ASSUME NEW r \in WriterSet, ~r.solo PROVE [r EXCEPT !.solo = FALSE] = r
<1> DEFINE s == [r EXCEPT !.solo = FALSE]
<1>1. /\ s \in WriterSet /\ r.pc = s.pc /\ r.op = s.op /\ r.upd = s.upd /\ r.n = s.n /\ r.key = s.key
      /\ r.id = s.id /\ r.imported = s.imported /\ r.yes = s.yes /\ ~s.solo
      /\ s.solo \in BOOLEAN /\ r.solo \in BOOLEAN
  BY DEF WriterSet
<1> HIDE DEF s
<1>2. s = r BY <1>1, SameWriter
<1> QED BY <1>2 DEF s

(* A command that begins runs alone when none is at work; otherwise it and the others
   overlap, and it is told whether with updates only. *)
LEMMA BeginInv ==
    ASSUME StoreInv, NEW p \in Writers, NEW v \in WriterSet, Begin(p, v), v.pc \in {"find", "list"},
           v.op \in {"create", "update", "delete", "import"}, v.op = "update" <=> v.upd, v.pc = "list" <=> v.op = "import",
           v.key = 0, begun' \in Nat, IF v.op = "delete" THEN v.n = 0 /\ begun' = begun ELSE v.n = begun' /\ begun' = begun + 1
    PROVE  StoreInv'
<1> DEFINE quiet == Quiet
           w == [v EXCEPT !.solo = quiet]
<1>1. /\ wr[p] = Resting /\ UNCHANGED <<kind, item, seal, told, seized>> /\ crossed' = Overlaps(v.op)
      /\ wr' = [q \in Writers |-> IF q = p THEN w ELSE [wr[q] EXCEPT !.solo = FALSE]]
  BY DEF Begin
<1>2. quiet \in BOOLEAN /\ (quiet <=> \A q \in Writers : wr[q] = Resting) BY DEF Quiet
<1>3. crossed' \in {"no", "updates", "other"} /\ (crossed' = "no" => quiet /\ crossed = "no") /\ (crossed' # "other" => crossed # "other")
      /\ (quiet => crossed' = crossed)
      /\ (~quiet /\ crossed' # "other" =>
            /\ crossed' = "updates" /\ item # {} /\ v.op \in {"update", "import"}
            /\ \A q \in Writers : wr[q].op \in {"update", "import", "none"} /\ Updating(wr[q]))
  BY <1>1 DEF Overlaps, StoreInv, Common, StoreTypes
<1> HIDE DEF quiet
<1>4. /\ w \in WriterSet /\ w.pc = v.pc /\ w.op = v.op /\ w.upd = v.upd /\ w.n = v.n /\ w.key = 0 /\ w.solo = quiet
  BY <1>2 DEF WriterSet
<1> HIDE DEF w
<1>5. /\ kind \in {"keychain", "keyring"} /\ begun \in Nat /\ begun <= begun' /\ ItemsIn(item, begun) /\ SealsIn(seal, begun)
      /\ told \in BOOLEAN
  BY DEF StoreInv, Common, StoreTypes
<1>6. ASSUME NEW q \in Writers, q # p
      PROVE  /\ wr'[q] \in WriterSet /\ wr'[q].pc = wr[q].pc /\ wr'[q].op = wr[q].op /\ wr'[q].upd = wr[q].upd
             /\ wr'[q].n = wr[q].n /\ wr'[q].key = wr[q].key /\ ~wr'[q].solo /\ (wr[q] = Resting => wr'[q] = Resting)
             /\ wr'[q].id = wr[q].id /\ WriterOK(wr'[q], begun', kind) /\ wr[q].n <= begun
  <2>1. wr[q] \in WriterSet /\ WriterOK(wr[q], begun, kind) BY WriterIs DEF StoreInv
  <2>2. wr'[q] = [wr[q] EXCEPT !.solo = FALSE] BY <1>1, <1>6
  <2>3. /\ wr'[q] \in WriterSet /\ wr'[q].pc = wr[q].pc /\ wr'[q].op = wr[q].op /\ wr'[q].upd = wr[q].upd
        /\ wr'[q].n = wr[q].n /\ wr'[q].key = wr[q].key /\ ~wr'[q].solo /\ wr'[q].id = wr[q].id
    BY <2>1, <2>2 DEF WriterSet
  <2>4. wr[q] = Resting => wr'[q] = Resting
    BY <2>2, RestingIs, SoloGone
  <2>5. WriterOK(wr'[q], begun', kind)
    <3>1. wr[q].n \in Nat /\ wr[q].key \in Nat /\ wr[q].n <= begun' /\ wr[q].key <= begun'
      BY <1>5, <2>1 DEF WriterSet, WriterOK
    <3> QED BY <2>1, <2>3, <2>4, <3>1 DEF WriterOK
  <2> QED BY <2>1, <2>3, <2>4, <2>5 DEF WriterOK
<1>7. wr'[p] = w /\ WriterOK(w, begun', kind)
  BY <1>1, <1>4, <1>5 DEF WriterOK, ChainPlaces, RingPlaces
<1>8. ItemsIn(item, begun') /\ SealsIn(seal, begun')
  <2>1. \A i \in item : i.key \in Nat /\ i.v \in Nat /\ i.prov \in Nat BY <1>5 DEF ItemsIn, ItemSet
  <2>2. \A s \in seal : s.key \in Nat /\ s.v \in Nat BY <1>5 DEF SealsIn, SealSet
  <2> QED BY <1>5, <2>1, <2>2 DEF ItemsIn, SealsIn
<1>9. StoreTypes'
  <2>1. \A q \in Writers : wr'[q] \in WriterSet BY <1>4, <1>6, <1>7
  <2>2. wr' \in [Writers -> WriterSet] BY <1>1, <2>1
  <2> QED BY <1>1, <1>3, <1>5, <1>8, <2>2 DEF StoreTypes
<1>10. WritersOK'
  <2>1. \A q \in Writers : WriterOK(wr'[q], begun', kind') BY <1>1, <1>6, <1>7
  <2>2. ASSUME NEW a \in Writers, NEW b \in Writers, a # b, wr'[a].n = wr'[b].n PROVE wr'[a].n = 0
    <3>1. \A q \in Writers : q # p => wr'[q].n \in Nat /\ wr'[q].n <= begun /\ wr'[q].n = wr[q].n
      BY <1>6 DEF WriterSet
    <3>2. w.n = 0 \/ w.n = begun + 1 BY <1>4
    <3>3. CASE a # p /\ b # p BY <2>2, <3>1, <3>3 DEF StoreInv, Common, WritersOK
    <3>4. CASE a = p \/ b = p BY <1>5, <1>7, <2>2, <3>1, <3>2, <3>4
    <3> QED BY <3>3, <3>4
  <2> QED BY <2>1, <2>2 DEF WritersOK, WriterOK
<1>11. SoloOK'
  <2>1. ASSUME NEW a \in Writers, wr'[a].solo
        PROVE  (\A q \in Writers : q # a => wr'[q] = Resting) /\ (wr'[a].op # "delete" => wr'[a].n = begun')
    <3>1. a = p /\ quiet BY <1>4, <1>6, <1>7, <2>1
    <3> QED BY <1>2, <1>4, <1>6, <1>7, <3>1
  <2> QED BY <2>1 DEF SoloOK
<1>12. CrossedOK'
  <2>1. ASSUME NEW a \in Writers, wr'[a].pc # "idle", ~wr'[a].solo
        PROVE  /\ crossed' # "no"
               /\ crossed' = "updates" => item' # {} /\ wr'[a].op \in {"update", "import"} /\ Updating(wr'[a])
    <3>1. CASE a = p
      <4>1. ~quiet BY <1>4, <1>7, <2>1, <3>1
      <4> QED BY <1>1, <1>3, <1>4, <1>7, <3>1, <4>1 DEF Updating
    <3>2. CASE a # p
      <4>1. wr[a].pc # "idle" /\ ~quiet BY <1>2, <1>6, <2>1, <3>2, RestingIs
      <4>2. wr[a].op # "none" BY <4>1, WriterIs DEF StoreInv, WriterOK
      <4>3. crossed' = "updates" => Updating(wr[a]) /\ wr[a].op \in {"update", "import"} /\ item' # {}
        BY <1>1, <1>3, <4>1, <4>2
      <4> QED BY <1>3, <1>6, <3>2, <4>1, <4>3 DEF Updating
    <3> QED BY <3>1, <3>2
  <2> QED BY <2>1 DEF CrossedOK, Updating
<1>13. ItemsBefore(item, begun + 1) /\ SealsBefore(seal, begun + 1)
  <2>1. \A i \in item : i.key \in Nat /\ i.v \in Nat /\ i.prov \in Nat BY <1>5 DEF ItemsIn, ItemSet
  <2>2. \A s \in seal : s.key \in Nat /\ s.v \in Nat BY <1>5 DEF SealsIn, SealSet
  <2> QED BY <1>5, <2>1, <2>2 DEF ItemsBefore, SealsBefore, ItemsIn, SealsIn
<1>14. w.op # "delete" => ItemsBefore(item, w.n) /\ SealsBefore(seal, w.n) /\ \A s \in seal : s.v # w.n
  <2>1. w.op # "delete" => w.n = begun + 1 BY <1>4
  <2>2. \A s \in seal : s.v # begun + 1
    <3>1. \A s \in seal : s.v \in Nat BY <1>5 DEF SealsIn, SealSet
    <3> QED BY <1>5, <3>1 DEF SealsIn
  <2> QED BY <1>13, <2>1, <2>2
<1>15. ASSUME kind = "keychain" PROVE ChainInv'
  <2>1. ASSUME NEW q \in Writers, q # p PROVE SealOf(wr'[q], seal) /\ (ChainOpen(wr[q], seal) => ChainOpen(wr'[q], seal))
    BY <1>6, <1>15, <2>1 DEF SealOf, ChainOpen, StoreInv, ChainInv
  <2>2. SealOf(w, seal) /\ ChainPlace(w, item, seal) BY <1>4, <1>14 DEF SealOf, ChainPlace
  <2>3. \A q \in Writers : SealOf(wr'[q], seal) /\ (wr'[q].solo => ChainPlace(wr'[q], item, seal))
    BY <1>6, <1>7, <2>1, <2>2
  <2>4. ~ChainOpen(wr[p], seal) BY <1>1, RestingIs DEF ChainOpen
  <2>5. ~told' /\ crossed' # "other" => ChainWhole(item, seal) \/ \E q \in Writers : ChainOpen(wr'[q], seal)
    <3> SUFFICES ASSUME ~told', crossed' # "other", ~ChainWhole(item, seal)
                 PROVE  \E q \in Writers : ChainOpen(wr'[q], seal)
      OBVIOUS
    <3>1. PICK q \in Writers : ChainOpen(wr[q], seal) BY <1>1, <1>3, <1>15 DEF StoreInv, ChainInv
    <3> QED BY <2>1, <2>4, <3>1
  <2>6. crossed' = "no" => ChainAge(item, seal) BY <1>3, <1>15 DEF StoreInv, ChainInv
  <2>7. One(item) /\ One(seal) /\ OldItem(item) BY <1>15 DEF StoreInv, ChainInv
  <2> QED BY <1>1, <2>3, <2>5, <2>6, <2>7
    DEF ChainInv, SealOf, ChainPlace, ChainOpen, ChainWhole, ChainAge, One, OldItem
<1>16. ASSUME kind = "keyring" PROVE RingInv'
  <2>1. seal = {} /\ \A i \in item : i.key = 0 BY <1>16 DEF StoreInv, RingInv
  <2>2. ASSUME crossed' = "no"
        PROVE  /\ One(item) /\ RingAge(item)
               /\ \A q \in Writers : RingPlace(wr'[q], item)
               /\ ~told' => RingWhole(item)
    <3>1. \A q \in Writers : wr[q] = Resting BY <1>2, <1>3, <2>2
    <3>2. RingPlace(Resting, item) BY RestingIs DEF RingPlace
    <3>3. RingPlace(w, item) BY <1>4, <1>14 DEF RingPlace
    <3>4. \A q \in Writers : RingPlace(wr'[q], item) BY <1>6, <1>7, <3>1, <3>2, <3>3
    <3>5. ~told' => RingWhole(item) BY <1>1, <1>3, <1>16, <2>2, <3>1, RestingIs DEF StoreInv, RingInv
    <3> QED BY <1>3, <1>16, <2>2, <3>4, <3>5 DEF StoreInv, RingInv
  <2> QED BY <1>1, <2>1, <2>2 DEF RingInv, One, RingAge, RingPlace, RingWhole, ItemsBefore
<1> QED BY <1>1, <1>9, <1>10, <1>11, <1>12, <1>15, <1>16 DEF StoreInv, Common

LEMMA WriteSecretInv ==
    ASSUME StoreInv, NEW p \in Writers, NEW op \in {"create", "update"}, WriteSecret(p, op)
    PROVE  StoreInv'
<1> DEFINE upd == op = "update"
           v == [Resting EXCEPT !.op = op, !.pc = "find", !.upd = upd, !.n = begun']
<1>1. upd \in BOOLEAN /\ (upd <=> op = "update") OBVIOUS
<1>2. begun' = begun + 1 /\ begun' \in Nat /\ Begin(p, v) BY DEF WriteSecret, StoreInv, Common, StoreTypes
<1> HIDE DEF upd
<1>3. v \in WriterSet /\ v.pc = "find" /\ v.op = op /\ v.upd = upd /\ v.n = begun' /\ v.key = 0
  BY <1>2, <1>1, RestingIs DEF WriterSet, ChainPlaces
<1> HIDE DEF v
<1> QED BY <1>1, <1>2, <1>3, BeginInv

LEMMA DeleteSecretInv == ASSUME StoreInv, NEW p \in Writers, DeleteSecret(p) PROVE StoreInv'
<1> DEFINE v == [Resting EXCEPT !.op = "delete", !.pc = "find"]
<1>1. v \in WriterSet /\ v.pc = "find" /\ v.op = "delete" /\ ~v.upd /\ v.n = 0 /\ v.key = 0
  <2>1. ~Resting.upd BY DEF Resting
  <2> QED BY <2>1, RestingIs DEF WriterSet, ChainPlaces
<1>2. Begin(p, v) /\ begun' = begun /\ begun' \in Nat BY DEF DeleteSecret, StoreInv, Common, StoreTypes
<1> HIDE DEF v
<1> QED BY <1>1, <1>2, BeginInv

LEMMA ImportSecretsInv ==
    ASSUME StoreInv, NEW p \in Writers, NEW yes \in BOOLEAN, ImportSecrets(p, yes)
    PROVE  StoreInv'
<1> DEFINE v == [Resting EXCEPT !.op = "import", !.pc = "list", !.n = begun', !.yes = yes]
<1>1. begun' = begun + 1 /\ begun' \in Nat /\ Begin(p, v) BY DEF ImportSecrets, StoreInv, Common, StoreTypes
<1>2. v \in WriterSet /\ v.pc = "list" /\ v.op = "import" /\ ~v.upd /\ v.n = begun' /\ v.key = 0
  <2>1. ~Resting.upd BY DEF Resting
  <2> QED BY <1>1, <2>1, RestingIs DEF WriterSet, ChainPlaces
<1> HIDE DEF v
<1> QED BY <1>1, <1>2, BeginInv

-----------------------------------------------------------------------------
LEMMA StoreStart == ASSUME SecretInit PROVE StoreInv
<1>1. /\ kind \in {"keychain", "keyring"} /\ seal = {} /\ begun = 0 /\ told = FALSE /\ crossed = "no" /\ seized = FALSE
      /\ \A p \in Writers : wr[p] = Resting
  BY DEF SecretInit
<1>2. \A i \in item : i \in ItemSet /\ i.key = 0 /\ i.v = 0 /\ i.prov = 0 /\ i.by = "hand" BY DEF SecretInit, ItemSet
<1>3. StoreTypes
  <2>1. wr \in [Writers -> WriterSet] BY RestingIs DEF SecretInit
  <2>2. ItemsIn(item, begun) /\ SealsIn(seal, begun) BY <1>1, <1>2 DEF ItemsIn, SealsIn
  <2> QED BY <1>1, <2>1, <2>2 DEF StoreTypes
<1>4. WritersOK /\ SoloOK /\ CrossedOK BY <1>1, RestingIs DEF WritersOK, SoloOK, CrossedOK
<1>5. One(item) BY DEF SecretInit, One
<1>6. ChainInv
  BY <1>1, <1>2, <1>5, RestingIs DEF ChainInv, One, OldItem, SealOf, ChainWhole, ChainAge
<1>7. RingInv BY <1>1, <1>2, <1>5, RestingIs DEF RingInv, RingAge, RingPlace, RingWhole
<1> QED BY <1>1, <1>3, <1>4, <1>6, <1>7 DEF StoreInv, Common

LEMMA StoreStep == ASSUME StoreInv, [SecretNext]_secretVars PROVE StoreInv'
<1>1. CASE UNCHANGED secretVars
  <2>1. UNCHANGED <<kind, item, seal, wr, begun, told, crossed, seized>> BY <1>1 DEF secretVars
  <2>2. Common' BY <2>1 DEF StoreInv, Common, StoreTypes, ItemsIn, SealsIn, WritersOK, WriterOK, SoloOK, CrossedOK, Updating
  <2>3. ChainInv => ChainInv'
    BY <2>1 DEF ChainInv, One, OldItem, SealOf, ChainPlace, ItemsBefore, SealsBefore, ChainWhole, ChainOpen, ChainAge
  <2>4. RingInv => RingInv' BY <2>1 DEF RingInv, One, RingAge, RingPlace, RingWhole, ItemsBefore
  <2> QED BY <2>1, <2>2, <2>3, <2>4 DEF StoreInv
<1>2. CASE SecretNext
  BY <1>2, WriteSecretInv, DeleteSecretInv, ImportSecretsInv, ImportListInv, ImportCompareInv, FailsInv, KeyForInv,
     PutItemInv, PutSealedInv, UndoInv, ReadBackInv, DeleteItemInv, DeleteSealInv, FindItemInv, CreateItemInv,
     SetSecretInv, SetAttributesInv, DropInv
  DEF SecretNext
<1> QED BY <1>1, <1>2

LEMMA StoreHolds == ASSUME StoreInv PROVE SecretAsTold
<1>1. One(item) => Cardinality(item) <= 1
  <2> SUFFICES ASSUME One(item) PROVE Cardinality(item) <= 1 OBVIOUS
  <2>1. CASE item = {} BY <2>1, FS_EmptySet
  <2>2. CASE item # {}
    <3>1. PICK i \in item : item = {i} BY <2>2 DEF One
    <3>2. Cardinality(item) = 1 BY <3>1, FS_Singleton
    <3> QED BY <3>2
  <2> QED BY <2>1, <2>2
<1>2. ASSUME Quiet, ~told, crossed \notin (IF kind = "keychain" THEN {"other"} ELSE {"updates", "other"})
      PROVE  /\ Cardinality(item) <= 1
             /\ \A r \in Reads : r[1] # "damaged" /\ \A i \in item : i.prov \in {0, r[2]}
  <2>1. CASE kind = "keychain"
    <3>1. \A p \in Writers : ~ChainOpen(wr[p], seal) BY <1>2, RestingIs DEF Quiet, ChainOpen
    <3>2. ChainWhole(item, seal) /\ One(item) /\ One(seal) /\ OldItem(item)
      BY <1>2, <2>1, <3>1 DEF StoreInv, ChainInv
    <3>3. ASSUME NEW r \in Reads PROVE r[1] # "damaged" /\ \A i \in item : i.prov \in {0, r[2]}
      <4>1. CASE item = {} /\ r = <<"none", 0, "none">> BY <4>1
      <4>2. CASE \E i \in item : i.key = 0 /\ r = <<"value", i.v, i.by>> BY <3>2, <4>2 DEF One, OldItem
      <4>3. CASE \E i \in item, s \in seal : i.key # 0 /\ s.key = i.key /\ r = <<"value", s.v, s.by>>
        BY <3>2, <4>3 DEF One, ChainWhole
      <4>4. CASE \E i \in item : i.key # 0 /\ (\A s \in seal : s.key # i.key) /\ r = <<"damaged", 0, "none">>
        BY <3>2, <4>4 DEF ChainWhole
      <4> QED BY <4>1, <4>2, <4>3, <4>4, ReadsAre
    <3> QED BY <1>1, <3>2, <3>3
  <2>2. CASE kind = "keyring"
    <3>1. crossed = "no" BY <1>2, <2>2 DEF StoreInv, Common, StoreTypes
    <3>2. \A p \in Writers : wr[p].pc # "attributes" BY <1>2, RestingIs DEF Quiet
    <3>3. One(item) /\ RingWhole(item) /\ seal = {} /\ \A i \in item : i.key = 0
      BY <1>2, <2>2, <3>1, <3>2 DEF StoreInv, RingInv
    <3>4. ASSUME NEW r \in Reads PROVE r[1] # "damaged" /\ \A i \in item : i.prov \in {0, r[2]}
      <4>1. CASE item = {} /\ r = <<"none", 0, "none">> BY <4>1
      <4>2. CASE \E i \in item : r = <<"value", i.v, i.by>> BY <3>3, <4>2 DEF One, RingWhole
      <4> QED BY <3>3, <4>1, <4>2, ReadsAre
    <3> QED BY <1>1, <3>3, <3>4
  <2> QED BY <2>1, <2>2 DEF StoreInv, Common, StoreTypes
<1>3. ASSUME crossed = "no", NEW r \in Reads, NEW i \in item, r[1] = "value" PROVE i.prov <= r[2]
  <2>1. CASE kind = "keychain"
    <3>1. ChainAge(item, seal) /\ One(item) /\ OldItem(item) BY <1>3, <2>1 DEF StoreInv, ChainInv
    <3>2. CASE \E j \in item : j.key = 0 /\ r = <<"value", j.v, j.by>>
      BY <3>1, <3>2 DEF One, OldItem
    <3>3. CASE \E j \in item, s \in seal : j.key # 0 /\ s.key = j.key /\ r = <<"value", s.v, s.by>>
      BY <3>1, <3>3 DEF One, ChainAge
    <3> QED BY <1>3, <3>2, <3>3, ReadsAre
  <2>2. CASE kind = "keyring"
    <3>1. One(item) /\ RingAge(item) /\ seal = {} /\ \A j \in item : j.key = 0
      BY <1>3, <2>2 DEF StoreInv, RingInv
    <3>2. PICK j \in item : r = <<"value", j.v, j.by>> BY <1>3, <3>1, ReadsAre
    <3> QED BY <3>1, <3>2 DEF One, RingAge
  <2> QED BY <2>1, <2>2 DEF StoreInv, Common, StoreTypes
<1> QED BY <1>2, <1>3 DEF SecretAsTold, StoreInv

\* Once no command is at work and none failed, the secret reads as one value with its
\* own provenance or none, though two updates crossed; the provenance of a newer value
\* is never on an older one while no two commands overlapped; and an import takes the
\* place of no value of the user's (keychain_darwin.go:136-206,
\* secretimport.go:340-358).
THEOREM SecretsAsTold == SecretSpec => []SecretAsTold
<1>1. SecretInit => StoreInv BY StoreStart
<1>2. StoreInv /\ [SecretNext]_secretVars => StoreInv' BY StoreStep
<1>3. StoreInv => SecretAsTold BY StoreHolds
<1> QED BY <1>1, <1>2, <1>3, PTL DEF SecretSpec

-----------------------------------------------------------------------------
(* Images, boot files and bundles (ImageVerify). *)

(* The image, the boot files and the record of a bundle are three parts that share
   no state. *)
VerifyNext ==
    \/ ImageNext /\ UNCHANGED <<kernelVars, rcd>>
    \/ KernelNext /\ UNCHANGED <<im, rcd>>
    \/ RecordTry /\ UNCHANGED <<im, kernelVars>>
VerifySpec == ImageInit /\ [][VerifyNext]_imageVars

Outcomes == {"none", "NotOurs", "NoTooling", "Unresolved", "Failed", "Mismatch", "Verified"}
ImageSet == [pc : {"start", "look", "cosign", "decide", "boot", "end"}, mode : Modes, pins : BOOLEAN,
             ours : BOOLEAN, tag : Digests \cup {0}, localCopy : Digests \cup {0}, digest : Digests \cup {0},
             out : Outcomes, warned : BOOLEAN, asked : BOOLEAN, said : BOOLEAN, booted : Digests \cup {0}]

(* What the decision rests on, and what the user has been told once it is made. *)
ImageOK(i) ==
    /\ i.pc \in {"start", "look", "cosign"} => i.out = "none"
    /\ i.pc = "start" \/ i.mode = "off" => ~i.said
    /\ i.pc \in {"look", "cosign", "decide"} => i.mode # "off"
    /\ i.pc \notin {"boot", "end"} => i.booted = 0
    /\ i.pc = "cosign" /\ i.pins => i.digest # 0
    /\ i.out = "Verified" /\ i.pins => i.digest \in Signed \ {0}
    /\ i.pc \in {"boot", "end"} /\ i.mode # "off" =>
         /\ i.warned <=> i.out # "Verified"
         /\ i.said <=> i.out = "Verified"
         /\ i.pc = "boot" \/ i.booted # 0 =>
              /\ i.mode = "require" => i.out = "Verified"
              /\ i.out = "Failed" => i.asked
    /\ i.booted # 0 /\ i.digest # 0 => i.booted = i.digest
ImageInv == im \in ImageSet /\ (im.pc # "start" => im.tag # 0) /\ ImageOK(im)

FileSet == Bundles \cup {0, Own}
BootPlaces == {"idle", "resolve", "kernel", "initrd", "record", "list", "read", "compare", "boot", "booted"}
BootSet == [pc : BootPlaces, mode : {"off", "warn", "require"}, want : Bundles \cup {0}, ref : Bundles \cup {0},
            again : BOOLEAN, list : SUBSET (FileSet \X FileSet),
            fallback : BOOLEAN, same : BOOLEAN, warned : BOOLEAN, said : BOOLEAN,
            got : FileSet \X FileSet]

(* A run that has not warned has a digest to compare with; a file that it found the
   same came with a signed bundle, and no run puts another one there.  k and i are
   the kernel and the initrd in the directory. *)
BootOK(b, k, i) ==
    /\ b.pc # "idle" /\ b.want = 0 => b.warned
    /\ b.pc \in {"kernel", "initrd"} => b.ref # 0
    /\ b.pc \in {"read", "compare"} => b.want # 0 /\ (~b.fallback => b.list = Manifest(b.want))
    /\ b.pc = "compare" /\ b.same /\ ~b.fallback => k \in Bundles
    /\ b.pc = "boot" /\ ~b.warned => k \in Bundles /\ i \in Bundles
    /\ b.pc = "booted" /\ ~b.warned => b.got \in Bundles \X Bundles

KernelTypes ==
    /\ tagB \in Bundles
    /\ kern \in FileSet /\ initrd \in FileSet
    /\ prov \subseteq [d : Bundles, k : FileSet, i : FileSet]
    /\ bt \in [Boots -> BootSet]
KernelInv == KernelTypes /\ \A r \in Boots : BootOK(bt[r], kern, initrd)

BundleInv ==
    /\ rcd.said \/ (rcd.boots /\ rcd.mode = "require") => rcd.good
    /\ rcd.boots => ~rcd.differs

VerifyInv == ImageInv /\ KernelInv /\ BundleInv

-----------------------------------------------------------------------------
(* The image: each step, by the outcome and the place that it leaves. *)
LEMMA ImageStartInv == ASSUME ImageInv, ImageStart PROVE ImageInv'
<1>1. PICK mode \in Modes, pins \in BOOLEAN, mine \in BOOLEAN, tag \in Digests, l \in Digests \cup {0} :
         im' = [im EXCEPT !.pc = IF mode = "off" THEN "boot" ELSE "look", !.mode = mode, !.pins = pins, !.ours = mine,
                          !.tag = tag, !.localCopy = l]
  BY DEF ImageStart
<1> DEFINE pc == IF mode = "off" THEN "boot" ELSE "look"
<1>2. pc \in {"boot", "look"} /\ (pc = "look" <=> mode # "off") OBVIOUS
<1> HIDE DEF pc
<1>3. im' = [im EXCEPT !.pc = pc, !.mode = mode, !.pins = pins, !.ours = mine, !.tag = tag, !.localCopy = l]
  BY <1>1 DEF pc
<1>4. im' \in ImageSet /\ im'.tag # 0 BY <1>2, <1>3, ImageAssumption DEF ImageInv, ImageSet
<1>5. ImageOK(im') BY <1>2, <1>3 DEF ImageStart, ImageInv, ImageSet, ImageOK
<1> QED BY <1>4, <1>5 DEF ImageInv

LEMMA TagMovesInv == ASSUME ImageInv, TagMoves PROVE ImageInv'
<1>1. PICK d \in Digests : im' = [im EXCEPT !.tag = d] BY DEF TagMoves
<1>2. im' \in ImageSet /\ im'.tag # 0 BY <1>1, ImageAssumption DEF ImageInv, ImageSet
<1>3. ImageOK(im') BY <1>1 DEF ImageInv, ImageSet, ImageOK
<1> QED BY <1>2, <1>3 DEF ImageInv

(* To the decision with an outcome; one that verified has a signed digest. *)
LEMMA ToDecide ==
    ASSUME ImageInv, im.pc \in {"look", "cosign"}, NEW out \in Outcomes,
           im' = [im EXCEPT !.pc = "decide", !.out = out],
           out = "Verified" /\ im.pins => im.digest \in Signed \ {0}
    PROVE  ImageInv'
<1>1. im' \in ImageSet /\ im'.tag # 0 BY DEF ImageInv, ImageSet
<1>2. ImageOK(im') BY DEF ImageInv, ImageSet, ImageOK
<1> QED BY <1>1, <1>2 DEF ImageInv

LEMMA ResolveInv == ASSUME ImageInv, Resolve PROVE ImageInv'
<1>1. CASE im' = [im EXCEPT !.pc = "decide", !.out = "NotOurs"] BY <1>1, ToDecide DEF Resolve, Outcomes
<1>2. CASE im' = [im EXCEPT !.pc = "decide", !.out = "NoTooling"] BY <1>2, ToDecide DEF Resolve, Outcomes
<1>3. CASE im' = [im EXCEPT !.pc = "decide", !.out = "Unresolved"] BY <1>3, ToDecide DEF Resolve, Outcomes
<1>4. CASE im' = [im EXCEPT !.pc = "cosign", !.digest = IF im.pins THEN im.tag ELSE 0]
  <2> DEFINE d == IF im.pins THEN im.tag ELSE 0
  <2>1. d \in Digests \cup {0} /\ (im.pins => d # 0) BY DEF ImageInv, ImageSet, Resolve
  <2> HIDE DEF d
  <2>2. im' = [im EXCEPT !.pc = "cosign", !.digest = d] BY <1>4 DEF d
  <2>3. im' \in ImageSet /\ im'.tag # 0 BY <2>1, <2>2 DEF ImageInv, ImageSet, Resolve
  <2>4. ImageOK(im') BY <2>1, <2>2 DEF ImageInv, ImageSet, ImageOK, Resolve
  <2> QED BY <2>3, <2>4 DEF ImageInv
<1> QED BY <1>1, <1>2, <1>3, <1>4 DEF Resolve

LEMMA CosignInv == ASSUME ImageInv, Cosign PROVE ImageInv'
<1> DEFINE subject == IF im.pins THEN im.digest ELSE im.tag
           out == IF subject \notin Signed THEN "Failed"
                  ELSE IF im.pins /\ im.localCopy \notin {0, im.digest} THEN "Mismatch" ELSE "Verified"
<1>1. out \in Outcomes /\ (out = "Verified" /\ im.pins => im.digest \in Signed \ {0})
  BY DEF Outcomes, Cosign, ImageInv, ImageOK
<1>2. \/ im' = [im EXCEPT !.pc = "decide", !.out = out]
      \/ im' = [im EXCEPT !.pc = "decide", !.out = "Failed"]
  BY DEF Cosign
<1> HIDE DEF out
<1>3. im.pc = "cosign" /\ "Failed" \in Outcomes BY DEF Cosign, Outcomes
<1> QED BY <1>1, <1>2, <1>3, ToDecide

LEMMA DecideInv == ASSUME ImageInv, Decide PROVE ImageInv'
<1> DEFINE w == im.out # "Verified"
           v == im.out = "Verified"
<1>1. PICK pc \in {"boot", "end"}, asked \in BOOLEAN :
        /\ im' = [im EXCEPT !.warned = w, !.said = v, !.pc = pc, !.asked = asked]
        /\ pc = "boot" => ~Refused(im) /\ (Asks(im) => asked)
  <2>1. im \in ImageSet BY DEF ImageInv
  <2>2. CASE Refused(im) /\ im' = [[im EXCEPT !.warned = w, !.said = v] EXCEPT !.pc = "end"]
    <3>1. im' = [im EXCEPT !.warned = w, !.said = v, !.pc = "end", !.asked = im.asked]
      BY <2>1, <2>2 DEF ImageSet
    <3> QED BY <2>1, <3>1 DEF ImageSet
  <2>3. CASE ~Refused(im) /\ ~Asks(im) /\ im' = [[im EXCEPT !.warned = w, !.said = v] EXCEPT !.pc = "boot"]
    <3>1. im' = [im EXCEPT !.warned = w, !.said = v, !.pc = "boot", !.asked = im.asked]
      BY <2>1, <2>3 DEF ImageSet
    <3> QED BY <2>1, <2>3, <3>1 DEF ImageSet
  <2>4. CASE ~Refused(im) /\ Asks(im) /\ \E yes \in BOOLEAN :
                im' = [[im EXCEPT !.warned = w, !.said = v] EXCEPT !.pc = IF yes THEN "boot" ELSE "end", !.asked = yes]
    <3>1. PICK yes \in BOOLEAN :
                im' = [[im EXCEPT !.warned = w, !.said = v] EXCEPT !.pc = IF yes THEN "boot" ELSE "end", !.asked = yes]
      BY <2>4
    <3> DEFINE pc == IF yes THEN "boot" ELSE "end"
    <3>2. im' = [im EXCEPT !.warned = w, !.said = v, !.pc = pc, !.asked = yes] BY <2>1, <3>1 DEF ImageSet
    <3>3. pc \in {"boot", "end"} /\ (pc = "boot" => yes) OBVIOUS
    <3> HIDE DEF pc
    <3> QED BY <2>4, <3>2, <3>3
  <2> QED BY <2>2, <2>3, <2>4 DEF Decide
<1>2. w \in BOOLEAN /\ v \in BOOLEAN /\ (w <=> im.out # "Verified") /\ (v <=> im.out = "Verified") OBVIOUS
<1> HIDE DEF w, v
<1>3. /\ im' \in ImageSet /\ im'.warned = w /\ im'.said = v /\ im'.pc = pc /\ im'.asked = asked
      /\ im'.out = im.out /\ im'.mode = im.mode /\ im'.booted = im.booted /\ im'.pins = im.pins
      /\ im'.digest = im.digest /\ im'.tag = im.tag
  BY <1>1, <1>2 DEF ImageInv, ImageSet
<1>4. im.mode # "off" /\ im.tag # 0 /\ im.booted = 0 BY DEF Decide, ImageInv, ImageOK
<1>5. ImageOK(im') BY <1>1, <1>2, <1>3, <1>4 DEF ImageInv, ImageOK, Refused, Asks
<1> QED BY <1>3, <1>4, <1>5 DEF ImageInv

LEMMA BootImageInv == ASSUME ImageInv, BootImage PROVE ImageInv'
<1> DEFINE d == IF im.digest # 0 THEN im.digest ELSE IF im.localCopy # 0 THEN im.localCopy ELSE im.tag
<1>1. d \in Digests \cup {0} /\ (im.digest # 0 => d = im.digest) BY DEF ImageInv, ImageSet
<1>2. im' = [im EXCEPT !.pc = "end", !.booted = d] /\ im.pc = "boot" BY DEF BootImage
<1> HIDE DEF d
<1>3. im' \in ImageSet /\ im'.tag # 0 BY <1>1, <1>2 DEF ImageInv, ImageSet
<1>4. ImageOK(im') BY <1>1, <1>2 DEF ImageInv, ImageSet, ImageOK
<1> QED BY <1>3, <1>4 DEF ImageInv

LEMMA ImageNextInv == ASSUME ImageInv, ImageNext PROVE ImageInv'
  BY ImageStartInv, TagMovesInv, ResolveInv, CosignInv, DecideInv, BootImageInv DEF ImageNext

-----------------------------------------------------------------------------
(* The boot files: a run moves, and a file of a signed bundle stays one. *)
LEMMA RunMoves ==
    ASSUME KernelInv, NEW r \in Boots, NEW s \in BootSet, Moves(r, s), BootOK(s, kern', initrd'),
           tagB' \in Bundles, kern' \in FileSet, initrd' \in FileSet,
           prov' \subseteq [d : Bundles, k : FileSet, i : FileSet],
           kern \in Bundles => kern' \in Bundles, initrd \in Bundles => initrd' \in Bundles
    PROVE  KernelInv'
<1>1. bt' \in [Boots -> BootSet] /\ \A q \in Boots : bt'[q] = IF q = r THEN s ELSE bt[q]
  BY DEF KernelInv, KernelTypes, Moves
<1>2. \A q \in Boots : BootOK(bt[q], kern, initrd) => BootOK(bt[q], kern', initrd')
  BY DEF BootOK
<1>3. \A q \in Boots : BootOK(bt'[q], kern', initrd')
  BY <1>1, <1>2 DEF KernelInv
<1> QED BY <1>1, <1>3 DEF KernelInv, KernelTypes, BootOK, Manifest

LEMMA NoBootOK == NoBoot \in BootSet /\ \A k, i : BootOK(NoBoot, k, i)
<1>1. <<0, 0>> \in FileSet \X FileSet BY DEF FileSet
<1>2. NoBoot \in BootSet BY <1>1 DEF NoBoot, BootSet, BootPlaces
<1> QED BY <1>2 DEF NoBoot, BootOK

LEMMA ReleaseInv == ASSUME KernelInv, Release PROVE KernelInv'
  BY DEF Release, KernelInv, KernelTypes, BootOK, Manifest

LEMMA VerifyBootInv == ASSUME KernelInv, NEW r \in Boots, VerifyBoot(r) PROVE KernelInv'
<1>1. PICK s : /\ Moves(r, s)
               /\ \E mode \in {"warn", "require"} :
                    \/ s = [NoBoot EXCEPT !.pc = "resolve", !.mode = mode, !.want = tagB]
                    \/ s = [NoBoot EXCEPT !.pc = "resolve", !.mode = mode, !.warned = TRUE]
  BY DEF VerifyBoot
<1>2. tagB \in Bundles /\ tagB # 0 BY ImageAssumption DEF KernelInv, KernelTypes
<1>3. s \in BootSet /\ s.pc = "resolve" /\ (s.want = 0 => s.warned)
  BY <1>1, <1>2, NoBootOK DEF BootSet, BootPlaces
<1>4. \A k, i : BootOK(s, k, i) BY <1>3 DEF BootOK
<1> QED BY <1>1, <1>3, <1>4, RunMoves DEF VerifyBoot, Files, KernelInv, KernelTypes

LEMMA ResolveFilesInv == ASSUME KernelInv, NEW r \in Boots, ResolveFiles(r) PROVE KernelInv'
<1> DEFINE ref == IF bt[r].want # 0 THEN bt[r].want ELSE tagB
           s == [bt[r] EXCEPT !.pc = IF kern # 0 /\ initrd # 0 THEN "list" ELSE "kernel", !.ref = ref]
<1>0. Moves(r, s) BY DEF ResolveFiles
<1>1. bt[r] \in BootSet /\ BootOK(bt[r], kern, initrd) /\ bt[r].pc = "resolve"
  BY DEF KernelInv, KernelTypes, ResolveFiles
<1>2. ref \in Bundles BY <1>1 DEF KernelInv, KernelTypes, BootSet
<1> HIDE DEF ref
<1>3. s \in BootSet BY <1>1, <1>2 DEF BootSet, BootPlaces
<1>4. BootOK(s, kern, initrd) BY <1>1, <1>2, ImageAssumption DEF BootOK, BootSet
<1> QED BY <1>0, <1>3, <1>4, RunMoves DEF ResolveFiles, Files, KernelInv, KernelTypes

LEMMA PullKernelInv == ASSUME KernelInv, NEW r \in Boots, PullKernel(r) PROVE KernelInv'
<1> DEFINE s == [bt[r] EXCEPT !.pc = "initrd"]
<1>1. bt[r] \in BootSet /\ BootOK(bt[r], kern, initrd) /\ bt[r].pc = "kernel"
  BY DEF KernelInv, KernelTypes, PullKernel
<1>2. bt[r].ref \in Bundles BY <1>1 DEF BootSet, BootOK
<1>3. s \in BootSet BY <1>1 DEF BootSet, BootPlaces
<1>4. BootOK(s, kern', initrd') BY <1>1 DEF BootOK, BootSet
<1> QED BY <1>2, <1>3, <1>4, RunMoves DEF PullKernel, Files, KernelInv, KernelTypes, FileSet

LEMMA PullInitrdInv == ASSUME KernelInv, NEW r \in Boots, PullInitrd(r) PROVE KernelInv'
<1> DEFINE s == [bt[r] EXCEPT !.pc = "record"]
<1>1. bt[r] \in BootSet /\ BootOK(bt[r], kern, initrd) /\ bt[r].pc = "initrd"
  BY DEF KernelInv, KernelTypes, PullInitrd
<1>2. bt[r].ref \in Bundles BY <1>1 DEF BootSet, BootOK
<1>3. s \in BootSet BY <1>1 DEF BootSet, BootPlaces
<1>4. BootOK(s, kern', initrd') BY <1>1 DEF BootOK, BootSet
<1> QED BY <1>2, <1>3, <1>4, RunMoves DEF PullInitrd, Files, KernelInv, KernelTypes, FileSet

LEMMA PullFailsInv == ASSUME KernelInv, NEW r \in Boots, PullFails(r) PROVE KernelInv'
  BY NoBootOK, RunMoves DEF PullFails, Files, KernelInv, KernelTypes

LEMMA WriteRecordInv == ASSUME KernelInv, NEW r \in Boots, WriteRecord(r) PROVE KernelInv'
<1> DEFINE s == [bt[r] EXCEPT !.pc = "list"]
<1>1. bt[r] \in BootSet /\ BootOK(bt[r], kern, initrd) /\ bt[r].pc = "record"
  BY DEF KernelInv, KernelTypes, WriteRecord
<1>2. s \in BootSet BY <1>1 DEF BootSet, BootPlaces
<1>3. BootOK(s, kern', initrd') BY <1>1 DEF BootOK, BootSet
<1>4. bt[r].want \in Bundles \cup {0} BY <1>1 DEF BootSet
<1>5. prov' \subseteq [d : Bundles, k : FileSet, i : FileSet]
  BY <1>4 DEF WriteRecord, KernelInv, KernelTypes
<1> QED BY <1>2, <1>3, <1>5, RunMoves DEF WriteRecord, KernelInv, KernelTypes

(* A run without the registry's list warns before it boots. *)
LEMMA WithoutCheckInv ==
    ASSUME KernelInv, NEW r \in Boots, WithoutCheck(r), UNCHANGED <<tagB, Files>>
    PROVE  KernelInv'
<1> DEFINE t == [bt[r] EXCEPT !.pc = "boot", !.warned = TRUE]
<1>1. bt[r] \in BootSet BY DEF KernelInv, KernelTypes
<1>2. t \in BootSet /\ t.pc = "boot" /\ t.warned BY <1>1 DEF BootSet, BootPlaces
<1>3. \A k, i : BootOK(t, k, i) BY <1>2 DEF BootOK
<1> HIDE DEF t
<1>4. Moves(r, NoBoot) \/ Moves(r, t) BY DEF WithoutCheck, t
<1> QED BY <1>2, <1>3, <1>4, NoBootOK, RunMoves DEF Files, KernelInv, KernelTypes

(* A run whose files differ ends, or fetches what it verified. *)
LEMMA DiffersInv ==
    ASSUME KernelInv, NEW r \in Boots, bt[r].want # 0, Differs(r), UNCHANGED <<tagB, Files>>
    PROVE  KernelInv'
<1> DEFINE t == [bt[r] EXCEPT !.pc = "kernel", !.ref = bt[r].want, !.again = TRUE, !.same = TRUE]
<1>1. bt[r] \in BootSet BY DEF KernelInv, KernelTypes
<1>2. t \in BootSet /\ t.pc = "kernel" /\ t.ref # 0 /\ t.want # 0 BY <1>1 DEF BootSet, BootPlaces
<1>3. \A k, i : BootOK(t, k, i) BY <1>2 DEF BootOK
<1> HIDE DEF t
<1>4. Moves(r, NoBoot) \/ Moves(r, t) BY DEF Differs, t
<1> QED BY <1>2, <1>3, <1>4, NoBootOK, RunMoves DEF Files, KernelInv, KernelTypes

LEMMA ReadListInv == ASSUME KernelInv, NEW r \in Boots, ReadList(r) PROVE KernelInv'
<1>0. bt[r] \in BootSet /\ BootOK(bt[r], kern, initrd) /\ bt[r].pc = "list" /\ UNCHANGED <<tagB, Files>>
  BY DEF KernelInv, KernelTypes, ReadList
<1>1. CASE bt[r].want = 0 /\ Moves(r, [bt[r] EXCEPT !.pc = "boot"])
  <2> DEFINE s == [bt[r] EXCEPT !.pc = "boot"]
  <2>1. s \in BootSet /\ s.pc = "boot" /\ s.warned BY <1>0, <1>1 DEF BootSet, BootPlaces, BootOK
  <2>2. \A k, i : BootOK(s, k, i) BY <2>1 DEF BootOK
  <2> HIDE DEF s
  <2> QED BY <1>0, <1>1, <2>1, <2>2, RunMoves DEF Files, KernelInv, KernelTypes, s
<1>2. CASE bt[r].want # 0 /\ Moves(r, [bt[r] EXCEPT !.pc = "read", !.list = Manifest(bt[r].want), !.fallback = FALSE])
  <2> DEFINE s == [bt[r] EXCEPT !.pc = "read", !.list = Manifest(bt[r].want), !.fallback = FALSE]
  <2>1. Manifest(bt[r].want) \in SUBSET (FileSet \X FileSet) BY <1>0 DEF Manifest, BootSet, FileSet
  <2>2. s \in BootSet /\ s.pc = "read" /\ s.list = Manifest(s.want) /\ s.want # 0
    BY <1>0, <1>2, <2>1 DEF BootSet, BootPlaces
  <2>3. \A k, i : BootOK(s, k, i) BY <2>2 DEF BootOK
  <2> HIDE DEF s
  <2> QED BY <1>0, <1>2, <2>2, <2>3, RunMoves DEF Files, KernelInv, KernelTypes, s
<1>3. CASE bt[r].want # 0 /\ prov = {} /\ WithoutCheck(r) BY <1>0, <1>3, WithoutCheckInv
<1>4. CASE bt[r].want # 0 /\ prov # {} /\ Recorded(bt[r].want) = {} /\ Differs(r) BY <1>0, <1>4, DiffersInv
<1>5. CASE Recorded(bt[r].want) # {} /\ Moves(r, [bt[r] EXCEPT !.pc = "read", !.list = Recorded(bt[r].want), !.fallback = TRUE])
  <2> DEFINE s == [bt[r] EXCEPT !.pc = "read", !.list = Recorded(bt[r].want), !.fallback = TRUE]
  <2>1. Recorded(bt[r].want) \in SUBSET (FileSet \X FileSet) BY DEF Recorded, KernelInv, KernelTypes
  <2>2. bt[r].want # 0 BY <1>5, ImageAssumption DEF Recorded, KernelInv, KernelTypes
  <2>3. s \in BootSet /\ s.pc = "read" /\ s.fallback /\ s.want # 0 BY <1>0, <2>1, <2>2 DEF BootSet, BootPlaces
  <2>4. \A k, i : BootOK(s, k, i) BY <2>3 DEF BootOK
  <2> HIDE DEF s
  <2> QED BY <1>0, <1>5, <2>3, <2>4, RunMoves DEF Files, KernelInv, KernelTypes, s
<1> QED BY <1>1, <1>2, <1>3, <1>4, <1>5 DEF ReadList

(* The registry's list names a file of the bundle that verified. *)
LEMMA ListIsSigned ==
    ASSUME NEW b \in BootSet, b.want # 0, b.list = Manifest(b.want), NEW e \in b.list
    PROVE  e[1] \in Bundles /\ e[2] \in Bundles
  BY DEF Manifest, BootSet

LEMMA ReadKernelInv == ASSUME KernelInv, NEW r \in Boots, ReadKernel(r) PROVE KernelInv'
<1> DEFINE same == \E e \in bt[r].list : e[1] = kern
           s == [bt[r] EXCEPT !.pc = "compare", !.same = same]
<1>0. bt[r] \in BootSet /\ BootOK(bt[r], kern, initrd) /\ bt[r].pc = "read" /\ Moves(r, s)
  BY DEF KernelInv, KernelTypes, ReadKernel
<1>1. same \in BOOLEAN OBVIOUS
<1>2. same /\ ~bt[r].fallback => kern \in Bundles BY <1>0, ListIsSigned DEF BootOK
<1> HIDE DEF same
<1>3. /\ s \in BootSet /\ s.pc = "compare" /\ s.same = same /\ s.want = bt[r].want
      /\ s.fallback = bt[r].fallback /\ s.list = bt[r].list
  BY <1>0, <1>1 DEF BootSet, BootPlaces
<1>4. BootOK(s, kern, initrd) BY <1>0, <1>2, <1>3 DEF BootOK
<1> HIDE DEF s
<1> QED BY <1>0, <1>3, <1>4, RunMoves DEF ReadKernel, Files, KernelInv, KernelTypes

LEMMA CompareFilesInv == ASSUME KernelInv, NEW r \in Boots, CompareFiles(r) PROVE KernelInv'
<1> DEFINE same == bt[r].same /\ \E e \in bt[r].list : e[2] = initrd
           s == [bt[r] EXCEPT !.pc = "boot", !.said = TRUE]
<1>0. /\ bt[r] \in BootSet /\ BootOK(bt[r], kern, initrd) /\ bt[r].pc = "compare" /\ UNCHANGED <<tagB, Files>>
      /\ bt[r].want # 0
  BY DEF KernelInv, KernelTypes, CompareFiles, BootOK
<1>1. CASE ~same /\ Differs(r) BY <1>0, <1>1, DiffersInv
<1>2. CASE same /\ Unread(bt[r]) /\ WithoutCheck(r) BY <1>0, <1>2, WithoutCheckInv
<1>3. CASE same /\ ~Unread(bt[r]) /\ Moves(r, s)
  <2>1. kern \in Bundles /\ initrd \in Bundles BY <1>0, <1>3, ListIsSigned DEF BootOK, Unread
  <2>2. s \in BootSet /\ s.pc = "boot" /\ s.want # 0 BY <1>0 DEF BootSet, BootPlaces
  <2>3. BootOK(s, kern, initrd) BY <2>1, <2>2 DEF BootOK
  <2> HIDE DEF s
  <2> QED BY <1>0, <1>3, <2>2, <2>3, RunMoves DEF Files, KernelInv, KernelTypes
<1> QED BY <1>1, <1>2, <1>3 DEF CompareFiles

LEMMA BootFilesInv == ASSUME KernelInv, NEW r \in Boots, BootFiles(r) PROVE KernelInv'
<1> DEFINE s == [bt[r] EXCEPT !.pc = "booted", !.list = {}, !.got = <<kern, initrd>>]
<1>0. bt[r] \in BootSet /\ BootOK(bt[r], kern, initrd) /\ bt[r].pc = "boot" /\ Moves(r, s)
  BY DEF KernelInv, KernelTypes, BootFiles
<1>1. <<kern, initrd>> \in FileSet \X FileSet BY DEF KernelInv, KernelTypes
<1>2. /\ s \in BootSet /\ s.pc = "booted" /\ s.got = <<kern, initrd>> /\ s.warned = bt[r].warned
      /\ s.want = bt[r].want
  BY <1>0, <1>1 DEF BootSet, BootPlaces
<1>3. BootOK(s, kern, initrd) BY <1>0, <1>2 DEF BootOK
<1> HIDE DEF s
<1> QED BY <1>0, <1>2, <1>3, RunMoves DEF BootFiles, Files, KernelInv, KernelTypes

LEMMA KernelNextInv == ASSUME KernelInv, KernelNext PROVE KernelInv'
  BY ReleaseInv, VerifyBootInv, ResolveFilesInv, PullKernelInv, PullInitrdInv, PullFailsInv, WriteRecordInv,
     ReadListInv, ReadKernelInv, CompareFilesInv, BootFilesInv DEF KernelNext

-----------------------------------------------------------------------------
(* A record that vouches for its bundle is beside it, matches it, is listed and
   signed. *)
LEMMA RecordTryInv == ASSUME BundleInv, RecordTry PROVE BundleInv'
<1>1. PICK mode \in {"warn", "require"},
          b \in [beside : BOOLEAN, parses : BOOLEAN, match : BOOLEAN, listed : BOOLEAN,
                sig : {"Verified", "NoTooling", "Unresolved", "Failed"}] :
         rcd' = [at |-> "tried", mode |-> mode, good |-> b.match /\ b.listed /\ b.sig = "Verified",
                 differs |-> b.beside /\ b.parses /\ ~(b.match /\ b.listed),
                 boots |-> RecordVerdict(b) = "verified" \/ (RecordVerdict(b) = "unread" /\ mode = "warn"),
                 said |-> RecordVerdict(b) = "verified"]
  BY DEF RecordTry
<1>2. RecordVerdict(b) = "verified" => b.match /\ b.listed /\ b.sig = "Verified" BY DEF RecordVerdict
<1>3. RecordVerdict(b) \in {"verified", "unread"} => ~(b.beside /\ b.parses /\ ~(b.match /\ b.listed))
  BY DEF RecordVerdict
<1> QED BY <1>1, <1>2, <1>3 DEF BundleInv

LEMMA VerifyStart == ASSUME ImageInit PROVE VerifyInv
<1>1. ImageInv BY DEF ImageInit, NoImage, ImageInv, ImageOK, ImageSet, Modes, Outcomes
<1>2. KernelTypes
  <2>1. tagB \in Bundles /\ kern \in FileSet /\ initrd \in FileSet BY DEF ImageInit, KernelInit, FileSet
  <2>2. prov \subseteq [d : Bundles, k : FileSet, i : FileSet] BY DEF ImageInit, KernelInit, FileSet
  <2> QED BY <2>1, <2>2, NoBootOK DEF ImageInit, KernelInit, KernelTypes
<1>3. \A r \in Boots : BootOK(bt[r], kern, initrd) BY NoBootOK DEF ImageInit, KernelInit
<1>4. BundleInv BY DEF ImageInit, BundleInv
<1> QED BY <1>1, <1>2, <1>3, <1>4 DEF VerifyInv, KernelInv

LEMMA VerifyStep == ASSUME VerifyInv, [VerifyNext]_imageVars PROVE VerifyInv'
<1>1. UNCHANGED im => ImageInv' BY DEF VerifyInv, ImageInv, ImageOK
<1>2. UNCHANGED kernelVars => KernelInv'
  BY DEF VerifyInv, KernelInv, KernelTypes, kernelVars, BootOK, Manifest
<1>3. UNCHANGED rcd => BundleInv' BY DEF VerifyInv, BundleInv
<1> QED BY <1>1, <1>2, <1>3, ImageNextInv, KernelNextInv, RecordTryInv DEF VerifyInv, VerifyNext, imageVars

LEMMA VerifyHolds == ASSUME VerifyInv PROVE BootsVerified
<1>1. im.booted # 0 =>
         /\ im.pins /\ (im.mode = "require" \/ im.said) => im.booted \in Signed
         /\ im.mode # "off" /\ ~im.said => im.warned
         /\ im.ours /\ im.mode = "warn" /\ im.out = "Failed" => im.asked
  BY DEF VerifyInv, ImageInv, ImageOK, ImageSet, Modes
<1> QED BY <1>1 DEF VerifyInv, KernelInv, BootOK, BundleInv, BootsVerified

\* What boots is what brig said of it, whatever the tag, the local copy and the files
\* in the shared directory became meanwhile: an image by digest that is signed, a
\* kernel and an initrd of signed bundles or after a warning, a bundle that its record
\* vouches for (verify.go:159-267, 480-562, 719-809).
THEOREM BootedIsVerified == VerifySpec => []BootsVerified
<1>1. ImageInit => VerifyInv BY VerifyStart
<1>2. VerifyInv /\ [VerifyNext]_imageVars => VerifyInv' BY VerifyStep
<1>3. VerifyInv => BootsVerified BY VerifyHolds
<1> QED BY <1>1, <1>2, <1>3, PTL DEF VerifySpec

-----------------------------------------------------------------------------
(* The credential of a route (RouteCredential). *)

CredentialSpec == CredentialInit /\ [][CredentialTry]_crd

\* The first match is one of them all, and all of them must be the same string.
LEMMA FirstIsNoMatter ==
    ASSUME NEW doc, NEW f \in collect(doc), NEW g \in collect(doc)
    PROVE  field(doc, f) = field(doc, g)
<1>1. found(doc, f) = found(doc, g)
  <2>1. CASE \A p \in collect(doc) : asString(doc, p) = asString(doc, f) BY <2>1 DEF found
  <2>2. CASE ~\A p \in collect(doc) : asString(doc, p) = asString(doc, f) BY <2>2 DEF found
  <2> QED BY <2>1, <2>2
<1> QED BY <1>1 DEF field

LEMMA Unambiguous == CredentialTry => CredentialUnambiguous'
<1> SUFFICES ASSUME CredentialTry PROVE CredentialUnambiguous' OBVIOUS
<1>1. CASE \E doc \in Docs : \E first \in (IF collect(doc) = {} THEN {Whole} ELSE collect(doc)) :
             crd' = <<"document", doc, credential(doc, FALSE, FALSE, FALSE, first)>>
  <2>1. PICK doc \in Docs : \E first \in (IF collect(doc) = {} THEN {Whole} ELSE collect(doc)) :
             crd' = <<"document", doc, credential(doc, FALSE, FALSE, FALSE, first)>>
    BY <1>1
  <2>2. PICK first \in (IF collect(doc) = {} THEN {Whole} ELSE collect(doc)) :
             crd' = <<"document", doc, credential(doc, FALSE, FALSE, FALSE, first)>>
    BY <2>1
  <2>3. ASSUME NEW f \in collect(doc)
        PROVE  credential(doc, FALSE, FALSE, FALSE, f) = credential(doc, FALSE, FALSE, FALSE, first)
    <3>1. first \in collect(doc) BY <2>3
    <3>2. field(doc, f) = field(doc, first) BY <2>3, <3>1, FirstIsNoMatter
    <3> QED BY <3>2 DEF credential
  <2>4. crd'[1] = "document" /\ crd'[2] = doc /\ crd'[3] = credential(doc, FALSE, FALSE, FALSE, first) BY <2>2
  <2> QED BY <2>3, <2>4 DEF CredentialUnambiguous
<1>2. CASE \E gcp, minted \in BOOLEAN : crd' = <<"pointer", gcp, credential(<<>>, TRUE, gcp, minted, Whole)>>
  <2>1. PICK gcp \in BOOLEAN, minted \in BOOLEAN : crd' = <<"pointer", gcp, credential(<<>>, TRUE, gcp, minted, Whole)>>
    BY <1>2
  <2>2. crd'[1] = "pointer" /\ crd'[2] = gcp /\ crd'[3] = credential(<<>>, TRUE, gcp, minted, Whole) BY <2>1
  <2>3. credential(<<>>, TRUE, gcp, minted, Whole).sent =
          (IF gcp /\ credential(<<>>, TRUE, gcp, minted, Whole).check = "" THEN "token" ELSE "")
    BY DEF credential
  <2>4. crd'[3].sent = (IF crd'[2] /\ crd'[3].check = "" THEN "token" ELSE "")
    <3>1. CASE gcp = TRUE BY <2>2, <2>3, <3>1
    <3>2. CASE gcp = FALSE BY <2>2, <2>3, <3>2
    <3> QED BY <3>1, <3>2
  <2> QED BY <2>2, <2>4 DEF CredentialUnambiguous
<1>3. CASE \E vendor, fetched \in BOOLEAN : crd' = <<"vends", FALSE, vend(vendor, fetched)>>
  <2>1. PICK vendor \in BOOLEAN, fetched \in BOOLEAN : crd' = <<"vends", FALSE, vend(vendor, fetched)>> BY <1>3
  <2>2. crd'[1] = "vends" /\ crd'[3].sent = "" BY <2>1 DEF vend
  <2> QED BY <2>2 DEF CredentialUnambiguous
<1> QED BY <1>1, <1>2, <1>3 DEF CredentialTry

\* Whichever match of a field a map gives first, the same value is injected or the
\* same refusal made; a host login is injected as the token minted from it or not
\* at all (inject.go:57-82, mint.go:29-46).
THEOREM InjectsOneValue == CredentialSpec => []CredentialUnambiguous
<1>1. CredentialInit => CredentialUnambiguous BY DEF CredentialInit, CredentialUnambiguous
<1>2. CredentialUnambiguous /\ UNCHANGED crd => CredentialUnambiguous' BY DEF CredentialUnambiguous
<1> QED BY <1>1, <1>2, Unambiguous, PTL DEF CredentialSpec

-----------------------------------------------------------------------------
(* A route that is expanded twice (RouteExpand). *)

ExpandSpec == ExpandInit /\ [][ExpandTry]_rtx

\* The records of a route: two are one when their fields are.
IsRoute(r) == r \in [preset : {r.preset}, mode : {r.mode}, up : {r.up}, cred : {r.cred}, life : {r.life},
                     fromPreset : {r.fromPreset}, inject : {r.inject}, guest : {r.guest}, allow : {r.allow},
                     services : {r.services}]
IsInject(in) == in \in [set : {in.set}, carries : {in.carries}, remove : {in.remove}, allow : {in.allow},
                        basic : {in.basic}, tls : {in.tls}]
IsGuest(g) == g \in [env : {g.env}, git : {g.git}]
IsCred(c) == c \in [secret : {c.secret}, field : {c.field}]

LEMMA SameRoute ==
    ASSUME NEW r, NEW s, IsRoute(r), IsRoute(s), r.preset = s.preset, r.mode = s.mode, r.up = s.up, r.cred = s.cred,
           r.life = s.life, r.fromPreset = s.fromPreset, r.inject = s.inject, r.guest = s.guest, r.allow = s.allow,
           r.services = s.services
    PROVE  r = s
  BY DEF IsRoute
LEMMA SameInject ==
    ASSUME NEW r, NEW s, IsInject(r), IsInject(s), r.set = s.set, r.carries = s.carries, r.remove = s.remove,
           r.allow = s.allow, r.basic = s.basic, r.tls = s.tls
    PROVE  r = s
  BY DEF IsInject
LEMMA SameGuest ==
    ASSUME NEW r, NEW s, IsGuest(r), IsGuest(s), r.env = s.env, r.git = s.git PROVE r = s
  BY DEF IsGuest
LEMMA SameCred ==
    ASSUME NEW r, NEW s, IsCred(r), IsCred(s), r.secret = s.secret, r.field = s.field PROVE r = s
  BY DEF IsCred

\* What the overlay and the defaults make of one inject: Over(b, x) and With(in).
Over(b, x) == [b EXCEPT !.set = Or(x.set, {}, @), !.carries = IF x.set = {} THEN @ ELSE x.carries,
                        !.remove = @ \cup x.remove, !.allow = Or(x.allow, {}, @), !.basic = @ \/ x.basic]
With(in) == [in EXCEPT !.remove = @ \cup {"Authorization"}]

LEMMA OverIs ==
    ASSUME NEW b, NEW x, IsInject(b), b.basic \in BOOLEAN, x.basic \in BOOLEAN
    PROVE  /\ IsInject(Over(b, x)) /\ Over(b, x).set = Or(x.set, {}, b.set)
           /\ Over(b, x).carries = (IF x.set = {} THEN b.carries ELSE x.carries)
           /\ Over(b, x).remove = b.remove \cup x.remove /\ Over(b, x).allow = Or(x.allow, {}, b.allow)
           /\ Over(b, x).basic = (b.basic \/ x.basic) /\ Over(b, x).basic \in BOOLEAN /\ Over(b, x).tls = b.tls
  BY DEF IsInject, Over
LEMMA WithIs ==
    ASSUME NEW in, IsInject(in)
    PROVE  /\ IsInject(With(in)) /\ With(in).set = in.set /\ With(in).carries = in.carries
           /\ With(in).remove = in.remove \cup {"Authorization"} /\ With(in).allow = in.allow
           /\ With(in).basic = in.basic /\ With(in).tls = in.tls
  BY DEF IsInject, With

LEMMA WithTwice == ASSUME NEW in, IsInject(in) PROVE With(With(in)) = With(in)
<1>1. IsInject(With(in)) /\ IsInject(With(With(in))) BY WithIs
<1> QED BY <1>1, WithIs, SameInject

\* An inject as a document: its empty lists are left out.
Lean(in) == [in EXCEPT !.set = @ \ {{}}, !.allow = @ \ {{}}]
NoEmptyList(list) == list \ {{}} = list
Full(b) == NoEmptyList(b.set) /\ NoEmptyList(b.allow) /\ (b.carries => b.set # {})

LEMMA LeanIs ==
    ASSUME NEW in, IsInject(in)
    PROVE  /\ IsInject(Lean(in)) /\ Lean(in).set = in.set \ {{}} /\ Lean(in).carries = in.carries
           /\ Lean(in).remove = in.remove /\ Lean(in).allow = in.allow \ {{}}
           /\ Lean(in).basic = in.basic /\ Lean(in).tls = in.tls
  BY DEF IsInject, Lean

LEMMA LeanFull ==
    ASSUME NEW in, IsInject(in), NoEmptyList(in.set), NoEmptyList(in.allow)
    PROVE  Lean(in) = in
<1>1. Lean(in).set = in.set /\ Lean(in).allow = in.allow BY LeanIs DEF NoEmptyList
<1> QED BY <1>1, LeanIs, SameInject

\* What a list becomes that is laid over another, is sent, and is laid over it again.
LEMMA ListTwice ==
    ASSUME NEW given, NEW had, NoEmptyList(had)
    PROVE  Or(Or(given, {}, had) \ {{}}, {}, had) = Or(given \ {{}}, {}, had)
<1>1. CASE given = {} BY <1>1 DEF Or, NoEmptyList
<1>2. CASE given # {} /\ given \ {{}} = {} BY <1>2 DEF Or
<1>3. CASE given \ {{}} # {}
  <2>1. given # {} BY <1>3
  <2> QED BY <1>3, <2>1 DEF Or
<1> QED BY <1>1, <1>2, <1>3

\* An inject that was laid over b and sent, or b itself, lands as what was laid over it
\* would without its empty lists.
LEMMA OverTwice ==
    ASSUME NEW b, NEW x, IsInject(b), Full(b), b.basic \in BOOLEAN, IsInject(x), x.basic \in BOOLEAN
    PROVE  /\ With(Over(b, Lean(With(b)))) = With(b)
           /\ With(Over(b, Lean(With(Over(b, x))))) = With(Over(b, Lean(x)))
<1>1. With(Over(b, Lean(With(b)))) = With(b)
  <2> DEFINE w == With(b)
  <2>1. /\ IsInject(w) /\ w.set = b.set /\ w.carries = b.carries /\ w.remove = b.remove \cup {"Authorization"}
        /\ w.allow = b.allow /\ w.basic = b.basic /\ w.tls = b.tls
    BY WithIs
  <2> HIDE DEF w
  <2> DEFINE l == Lean(w)
  <2>2. l = w BY <2>1, LeanFull DEF Full
  <2> HIDE DEF l
  <2> DEFINE o == Over(b, w)
  <2>3. /\ IsInject(o) /\ o.set = b.set /\ o.carries = b.carries /\ o.remove = b.remove \cup {"Authorization"}
        /\ o.allow = b.allow /\ o.basic = b.basic /\ o.tls = b.tls
    BY <2>1, OverIs DEF Or
  <2> HIDE DEF o
  <2>4. /\ IsInject(With(o)) /\ With(o).set = w.set /\ With(o).carries = w.carries /\ With(o).remove = w.remove
        /\ With(o).allow = w.allow /\ With(o).basic = w.basic /\ With(o).tls = w.tls
    BY <2>1, <2>3, WithIs
  <2>5. With(o) = w BY <2>1, <2>4, SameInject
  <2>6. With(Over(b, l)) = w BY <2>2, <2>5 DEF o
  <2> QED BY <2>6 DEF l, w
<1>2. With(Over(b, Lean(With(Over(b, x))))) = With(Over(b, Lean(x)))
  <2> DEFINE y == Over(b, x)
  <2>0. /\ IsInject(y) /\ y.set = Or(x.set, {}, b.set) /\ y.carries = (IF x.set = {} THEN b.carries ELSE x.carries)
        /\ y.remove = b.remove \cup x.remove /\ y.allow = Or(x.allow, {}, b.allow)
        /\ y.basic = (b.basic \/ x.basic) /\ y.basic \in BOOLEAN /\ y.tls = b.tls
    BY OverIs
  <2> HIDE DEF y
  <2> DEFINE v == With(y)
  <2>1. /\ IsInject(v) /\ v.set = y.set /\ v.carries = y.carries /\ v.remove = y.remove \cup {"Authorization"}
        /\ v.allow = y.allow /\ v.basic = y.basic /\ v.tls = y.tls
    BY <2>0, WithIs
  <2> HIDE DEF v
  <2> DEFINE w == Lean(v)
  <2>2. /\ IsInject(w) /\ w.set = y.set \ {{}} /\ w.carries = y.carries /\ w.remove = y.remove \cup {"Authorization"}
        /\ w.allow = y.allow \ {{}} /\ w.basic = y.basic /\ w.basic \in BOOLEAN
    BY <2>0, <2>1, LeanIs
  <2> HIDE DEF w
  <2> DEFINE l == Lean(x)
  <2>3. /\ IsInject(l) /\ l.set = x.set \ {{}} /\ l.carries = x.carries /\ l.remove = x.remove
        /\ l.allow = x.allow \ {{}} /\ l.basic = x.basic /\ l.basic \in BOOLEAN
    BY LeanIs
  <2> HIDE DEF l
  <2> DEFINE o == Over(b, w)
             n == Over(b, l)
  <2>4. /\ IsInject(o) /\ o.set = Or(w.set, {}, b.set) /\ o.carries = (IF w.set = {} THEN b.carries ELSE w.carries)
        /\ o.remove = b.remove \cup w.remove /\ o.allow = Or(w.allow, {}, b.allow) /\ o.basic = (b.basic \/ w.basic)
        /\ o.tls = b.tls
    BY <2>2, OverIs
  <2>5. /\ IsInject(n) /\ n.set = Or(l.set, {}, b.set) /\ n.carries = (IF l.set = {} THEN b.carries ELSE l.carries)
        /\ n.remove = b.remove \cup l.remove /\ n.allow = Or(l.allow, {}, b.allow) /\ n.basic = (b.basic \/ l.basic)
        /\ n.tls = b.tls
    BY <2>3, OverIs
  <2> HIDE DEF o, n
  <2>6. o.set = n.set /\ o.allow = n.allow
    <3>1. /\ Or(Or(x.set, {}, b.set) \ {{}}, {}, b.set) = Or(x.set \ {{}}, {}, b.set)
          /\ Or(Or(x.allow, {}, b.allow) \ {{}}, {}, b.allow) = Or(x.allow \ {{}}, {}, b.allow)
      BY ListTwice DEF Full
    <3> QED BY <2>0, <2>2, <2>3, <2>4, <2>5, <3>1
  <2>7. o.carries = n.carries
    <3>1. CASE x.set = {}
      <4>1. w.carries = b.carries /\ l.set = {} BY <2>0, <2>2, <2>3, <3>1
      <4> QED BY <2>4, <2>5, <4>1
    <3>2. CASE x.set # {}
      <4>1. w.set = l.set /\ w.carries = l.carries BY <2>0, <2>2, <2>3, <3>2 DEF Or
      <4> QED BY <2>4, <2>5, <4>1
    <3> QED BY <3>1, <3>2
  <2>8. o.basic = n.basic BY <2>0, <2>2, <2>3, <2>4, <2>5
  <2>9. o.remove = n.remove \cup {"Authorization"} BY <2>0, <2>2, <2>3, <2>4, <2>5
  <2>10. /\ IsInject(With(o)) /\ With(o).set = o.set /\ With(o).carries = o.carries
         /\ With(o).remove = o.remove \cup {"Authorization"}
         /\ With(o).allow = o.allow /\ With(o).basic = o.basic /\ With(o).tls = o.tls
    BY <2>4, WithIs
  <2>11. /\ IsInject(With(n)) /\ With(n).set = n.set /\ With(n).carries = n.carries
         /\ With(n).remove = n.remove \cup {"Authorization"}
         /\ With(n).allow = n.allow /\ With(n).basic = n.basic /\ With(n).tls = n.tls
    BY <2>5, WithIs
  <2>12. With(o) = With(n) BY <2>4, <2>5, <2>6, <2>7, <2>8, <2>9, <2>10, <2>11, SameInject
  <2> QED BY <2>12 DEF o, n, l, w, v, y
<1> QED BY <1>1, <1>2

\* Laid over b, an inject is the same document without its empty lists, when b has no
\* list that one of them empties.
Empties(x, b) == (x.set = {{}} /\ b.set # {}) \/ (x.allow = {{}} /\ b.allow # {})
LEMMA LeanOver ==
    ASSUME NEW b, NEW x, IsInject(b), Full(b), b.basic \in BOOLEAN, IsInject(x), x.basic \in BOOLEAN,
           x.carries \in BOOLEAN, b.carries \in BOOLEAN, x.carries => UNION x.set # {}, ~Empties(x, b)
    PROVE  Lean(With(Over(b, Lean(x)))) = Lean(With(Over(b, x)))
<1> DEFINE l == Lean(x)
<1>1. /\ IsInject(l) /\ l.set = x.set \ {{}} /\ l.carries = x.carries /\ l.remove = x.remove
      /\ l.allow = x.allow \ {{}} /\ l.basic = x.basic /\ l.basic \in BOOLEAN
  BY LeanIs
<1> HIDE DEF l
<1> DEFINE o == Over(b, x)
           n == Over(b, l)
<1>2. /\ IsInject(o) /\ o.set = Or(x.set, {}, b.set) /\ o.carries = (IF x.set = {} THEN b.carries ELSE x.carries)
      /\ o.remove = b.remove \cup x.remove /\ o.allow = Or(x.allow, {}, b.allow) /\ o.basic = (b.basic \/ x.basic)
      /\ o.tls = b.tls
  BY OverIs
<1>3. /\ IsInject(n) /\ n.set = Or(l.set, {}, b.set) /\ n.carries = (IF l.set = {} THEN b.carries ELSE l.carries)
      /\ n.remove = b.remove \cup l.remove /\ n.allow = Or(l.allow, {}, b.allow) /\ n.basic = (b.basic \/ l.basic)
      /\ n.tls = b.tls
  <2>1. l.basic \in BOOLEAN BY <1>1
  <2> QED BY <2>1, OverIs
<1> HIDE DEF o, n
<1>4. \A given, had : ~(given = {{}} /\ had # {}) => Or(given \ {{}}, {}, had) \ {{}} = Or(given, {}, had) \ {{}}
  <2> SUFFICES ASSUME NEW given, NEW had, ~(given = {{}} /\ had # {})
               PROVE  Or(given \ {{}}, {}, had) \ {{}} = Or(given, {}, had) \ {{}}
    OBVIOUS
  <2>1. CASE given = {} BY <2>1 DEF Or
  <2>2. CASE given = {{}} BY <2>2 DEF Or
  <2>3. CASE given # {} /\ given # {{}}
    <3>1. given \ {{}} # {} BY <2>3
    <3> QED BY <2>3, <3>1 DEF Or
  <2> QED BY <2>1, <2>2, <2>3
<1>5. n.set \ {{}} = o.set \ {{}} /\ n.allow \ {{}} = o.allow \ {{}}
  <2>1. ~(x.set = {{}} /\ b.set # {}) /\ ~(x.allow = {{}} /\ b.allow # {}) BY DEF Empties
  <2>2. Or(x.set \ {{}}, {}, b.set) \ {{}} = Or(x.set, {}, b.set) \ {{}} BY <1>4, <2>1
  <2>3. Or(x.allow \ {{}}, {}, b.allow) \ {{}} = Or(x.allow, {}, b.allow) \ {{}} BY <1>4, <2>1
  <2> QED BY <1>1, <1>2, <1>3, <2>2, <2>3
<1>6. n.carries = o.carries
  <2>1. CASE x.set = {} BY <1>1, <1>2, <1>3, <2>1
  <2>2. CASE x.set = {{}}
    <3>1. UNION x.set = {} BY <2>2
    <3>2. x.carries = FALSE BY <3>1
    <3>3. b.carries = FALSE BY <2>2 DEF Empties, Full
    <3>4. l.set = {} BY <1>1, <2>2
    <3> QED BY <1>2, <1>3, <2>2, <3>2, <3>3, <3>4
  <2>3. CASE x.set # {} /\ x.set # {{}}
    <3>1. l.set # {} BY <1>1, <2>3
    <3> QED BY <1>1, <1>2, <1>3, <2>3, <3>1
  <2> QED BY <2>1, <2>2, <2>3
<1>7. n.basic = o.basic /\ n.remove = o.remove /\ n.tls = o.tls BY <1>1, <1>2, <1>3
<1>8. /\ IsInject(With(o)) /\ With(o).set = o.set /\ With(o).carries = o.carries
      /\ With(o).remove = o.remove \cup {"Authorization"}
      /\ With(o).allow = o.allow /\ With(o).basic = o.basic /\ With(o).tls = o.tls
  BY <1>2, WithIs
<1>9. /\ IsInject(With(n)) /\ With(n).set = n.set /\ With(n).carries = n.carries
      /\ With(n).remove = n.remove \cup {"Authorization"}
      /\ With(n).allow = n.allow /\ With(n).basic = n.basic /\ With(n).tls = n.tls
  BY <1>3, WithIs
<1>10. Lean(With(n)) = Lean(With(o))
  <2> DEFINE v == With(o)
             w == With(n)
  <2>0. IsInject(v) /\ IsInject(w) BY <1>8, <1>9
  <2>1. /\ w.set \ {{}} = v.set \ {{}} /\ w.allow \ {{}} = v.allow \ {{}} /\ w.carries = v.carries
        /\ w.remove = v.remove /\ w.basic = v.basic /\ w.tls = v.tls
    BY <1>5, <1>6, <1>7, <1>8, <1>9
  <2> HIDE DEF v, w
  <2>2. /\ IsInject(Lean(v)) /\ Lean(v).set = v.set \ {{}} /\ Lean(v).carries = v.carries
        /\ Lean(v).remove = v.remove /\ Lean(v).allow = v.allow \ {{}}
        /\ Lean(v).basic = v.basic /\ Lean(v).tls = v.tls
    BY <2>0, LeanIs
  <2>3. /\ IsInject(Lean(w)) /\ Lean(w).set = w.set \ {{}} /\ Lean(w).carries = w.carries
        /\ Lean(w).remove = w.remove /\ Lean(w).allow = w.allow \ {{}}
        /\ Lean(w).basic = w.basic /\ Lean(w).tls = w.tls
    BY <2>0, LeanIs
  <2>4. Lean(w) = Lean(v) BY <2>1, <2>2, <2>3, SameInject
  <2> QED BY <2>4 DEF v, w
<1> QED BY <1>10 DEF l, n, o

\* The same for the credential and the guest.
CredMade(b, x) == [secret |-> Or(x.secret, "none", b.secret), field |-> Or(x.field, "none", b.field)]
GuestMade(b, x) == [env |-> EnvOver(b.env, x.env), git |-> Or(x.git, {}, b.git)]

LEMMA CredMadeTwice ==
    ASSUME NEW b, NEW x
    PROVE  CredMade(b, CredMade(b, x)) = CredMade(b, x) /\ (IsCred(b) => CredMade(b, b) = b)
<1>1. \A y : IsCred(CredMade(b, y)) BY DEF CredMade, IsCred
<1>2. \A y : CredMade(b, y).secret = Or(y.secret, "none", b.secret) /\ CredMade(b, y).field = Or(y.field, "none", b.field)
  BY DEF CredMade
<1>3. CredMade(b, CredMade(b, x)) = CredMade(b, x)
  <2>1. \A u, v : Or(Or(u, "none", v), "none", v) = Or(u, "none", v) BY DEF Or
  <2>2. CredMade(b, CredMade(b, x)).secret = CredMade(b, x).secret /\ CredMade(b, CredMade(b, x)).field = CredMade(b, x).field
    BY <1>2, <2>1
  <2> QED BY <1>1, <2>2, SameCred
<1>4. ASSUME IsCred(b) PROVE CredMade(b, b) = b
  <2>1. CredMade(b, b).secret = b.secret /\ CredMade(b, b).field = b.field BY <1>2 DEF Or
  <2> QED BY <1>1, <1>4, <2>1, SameCred
<1> QED BY <1>3, <1>4

LEMMA EnvTwice ==
    ASSUME NEW have, NEW add
    PROVE  EnvOver(have, EnvOver(have, add)) = EnvOver(have, add) /\ EnvOver(have, have) = have
  BY DEF EnvOver

LEMMA GuestMadeTwice ==
    ASSUME NEW b, NEW x
    PROVE  GuestMade(b, GuestMade(b, x)) = GuestMade(b, x) /\ (IsGuest(b) => GuestMade(b, b) = b)
<1>1. \A y : IsGuest(GuestMade(b, y)) BY DEF GuestMade, IsGuest
<1>2. \A y : GuestMade(b, y).env = EnvOver(b.env, y.env) /\ GuestMade(b, y).git = Or(y.git, {}, b.git) BY DEF GuestMade
<1>3. GuestMade(b, GuestMade(b, x)) = GuestMade(b, x)
  <2>1. Or(Or(x.git, {}, b.git), {}, b.git) = Or(x.git, {}, b.git) BY DEF Or
  <2>2. /\ GuestMade(b, GuestMade(b, x)).env = GuestMade(b, x).env
        /\ GuestMade(b, GuestMade(b, x)).git = GuestMade(b, x).git
    BY <1>2, <2>1, EnvTwice
  <2> QED BY <1>1, <2>2, SameGuest
<1>4. ASSUME IsGuest(b) PROVE GuestMade(b, b) = b
  <2>1. GuestMade(b, b).env = b.env /\ GuestMade(b, b).git = b.git BY <1>2, EnvTwice DEF Or
  <2> QED BY <1>1, <1>4, <2>1, SameGuest
<1> QED BY <1>3, <1>4

InjectOK(b) == IsInject(b) /\ Full(b) /\ b.basic \in BOOLEAN /\ b.carries \in BOOLEAN

\* A preset: one inject, one guest, and a credential or none.
PresetOK(base) ==
    /\ IsRoute(base)
    /\ \E b : base.inject = {b} /\ InjectOK(b)
    /\ \E g : base.guest = {g} /\ IsGuest(g)
    /\ base.cred = {} \/ \E c : base.cred = {c} /\ IsCred(c)

\* A credential over one of a preset is that or is made of it.
FromBase(b, d, c) == c = b \/ \E x \in d : c = CredMade(b, x)

LEMMA CredOverOne ==
    ASSUME NEW base, PresetOK(base), NEW d, NEW b \in base.cred, NEW c \in CredOver(base, d)
    PROVE  FromBase(b, d, c)
<1>1. base.cred = {b} BY DEF PresetOK
<1>2. CASE d = {} BY <1>1, <1>2 DEF CredOver, FromBase
<1>3. CASE d # {} BY <1>1, <1>3 DEF CredOver, CredMade, FromBase
<1> QED BY <1>2, <1>3

LEMMA CredTwice == ASSUME NEW base, PresetOK(base), NEW c PROVE CredOver(base, CredOver(base, c)) = CredOver(base, c)
<1>1. PICK b : (base.cred = {} /\ b = [secret |-> "none", field |-> "none"]) \/ (base.cred = {b} /\ IsCred(b))
  BY DEF PresetOK
<1>2. \A d : CredOver(base, d) = IF d = {} THEN base.cred ELSE {CredMade(b, x) : x \in d}
  BY <1>1 DEF CredOver, CredMade
<1>3. CASE c = {}
  <2>1. CASE base.cred = {} BY <1>2, <1>3, <2>1
  <2>2. CASE base.cred = {b} /\ IsCred(b)
    <3>1. CredOver(base, c) = {b} /\ CredOver(base, {b}) = {CredMade(b, x) : x \in {b}} BY <1>2, <1>3, <2>2
    <3>2. CredMade(b, b) = b BY <2>2, CredMadeTwice
    <3> QED BY <3>1, <3>2
  <2> QED BY <1>1, <2>1, <2>2
<1>4. CASE c # {}
  <2> DEFINE d == {CredMade(b, x) : x \in c}
  <2>1. CredOver(base, c) = d /\ d # {} BY <1>2, <1>4
  <2>2. \A y \in d : CredMade(b, y) = y BY CredMadeTwice
  <2> HIDE DEF d
  <2>3. {CredMade(b, y) : y \in d} = d BY <2>2
  <2> QED BY <1>2, <2>1, <2>3
<1> QED BY <1>3, <1>4

LEMMA GuestTwice == ASSUME NEW base, PresetOK(base), NEW g PROVE GuestOver(base, GuestOver(base, g)) = GuestOver(base, g)
<1>1. PICK b : base.guest = {b} /\ IsGuest(b) BY DEF PresetOK
<1>2. \A d : GuestOver(base, d) = IF d = {} THEN base.guest ELSE {GuestMade(b, x) : x \in d}
  BY <1>1 DEF GuestOver, GuestMade
<1>3. CASE g = {}
  <2>1. GuestOver(base, g) = {b} /\ GuestOver(base, {b}) = {GuestMade(b, x) : x \in {b}} BY <1>1, <1>2, <1>3
  <2>2. GuestMade(b, b) = b BY <1>1, GuestMadeTwice
  <2> QED BY <2>1, <2>2
<1>4. CASE g # {}
  <2> DEFINE d == {GuestMade(b, x) : x \in g}
  <2>1. GuestOver(base, g) = d /\ d # {} BY <1>2, <1>4
  <2>2. \A y \in d : GuestMade(b, y) = y BY GuestMadeTwice
  <2> HIDE DEF d
  <2>3. {GuestMade(b, y) : y \in d} = d BY <2>2
  <2> QED BY <1>2, <2>1, <2>3
<1> QED BY <1>3, <1>4

\* The defaults over the overlay of injects, and the injects as a document.
Withs(in) == {With(x) : x \in in}
Leans(in) == {Lean(x) : x \in in}
InjectsOK(in) == \A x \in in : /\ IsInject(x) /\ x.basic \in BOOLEAN /\ x.carries \in BOOLEAN
                               /\ x.carries => UNION x.set # {}

LEMMA InjectOverOne ==
    ASSUME NEW base, NEW b, base.inject = {b}
    PROVE  \A d : InjectOver(base, d) = IF d = {} THEN {b} ELSE {Over(b, x) : x \in d}
<1>1. \A d : InjectOver(base, d) = IF d = {} THEN base.inject
               ELSE {Over(y, x) : x \in d, y \in IF base.inject = {} THEN {NoInject} ELSE base.inject}
  BY DEF InjectOver, Over
<1> QED BY <1>1

LEMMA InjectTwice ==
    ASSUME NEW base, PresetOK(base), NEW in, InjectsOK(in)
    PROVE  Withs(InjectOver(base, Leans(Withs(InjectOver(base, in))))) = Withs(InjectOver(base, Leans(in)))
<1>1. PICK b : base.inject = {b} /\ InjectOK(b) BY DEF PresetOK
<1>2. \A d : InjectOver(base, d) = IF d = {} THEN {b} ELSE {Over(b, x) : x \in d} BY <1>1, InjectOverOne
<1>3. CASE in = {}
  <2>1. InjectOver(base, in) = {b} /\ Leans(in) = {} BY <1>2, <1>3 DEF Leans
  <2>2. Leans(Withs({b})) = {Lean(With(b))} BY DEF Leans, Withs
  <2>3. InjectOver(base, {Lean(With(b))}) = {Over(b, Lean(With(b)))} BY <1>2
  <2>4. With(Over(b, Lean(With(b)))) = With(b) BY <1>1, OverTwice DEF InjectOK
  <2>5. Withs({Over(b, Lean(With(b)))}) = {With(b)} /\ Withs({b}) = {With(b)} BY <2>4 DEF Withs
  <2> QED BY <1>3, <2>1, <2>2, <2>3, <2>5
<1>4. CASE in # {}
  <2>1. InjectOver(base, in) = {Over(b, x) : x \in in} BY <1>2, <1>4
  <2>2. Leans(Withs({Over(b, x) : x \in in})) = {Lean(With(Over(b, x))) : x \in in} BY DEF Leans, Withs
  <2>3. InjectOver(base, {Lean(With(Over(b, x))) : x \in in}) = {Over(b, Lean(With(Over(b, x)))) : x \in in}
    <3> DEFINE d == {Lean(With(Over(b, x))) : x \in in}
    <3>1. d # {} BY <1>4
    <3>2. {Over(b, y) : y \in d} = {Over(b, Lean(With(Over(b, x)))) : x \in in} OBVIOUS
    <3> HIDE DEF d
    <3>3. InjectOver(base, d) = {Over(b, y) : y \in d} BY <1>2, <3>1
    <3> QED BY <3>2, <3>3 DEF d
  <2>4. InjectOver(base, Leans(in)) = {Over(b, Lean(x)) : x \in in}
    <3>1. Leans(in) # {} BY <1>4 DEF Leans
    <3>2. InjectOver(base, Leans(in)) = {Over(b, y) : y \in Leans(in)} BY <1>2, <3>1
    <3>3. {Over(b, y) : y \in Leans(in)} = {Over(b, Lean(x)) : x \in in} BY DEF Leans
    <3> QED BY <3>2, <3>3
  <2>5. \A x \in in : With(Over(b, Lean(With(Over(b, x))))) = With(Over(b, Lean(x)))
    BY <1>1, OverTwice DEF InjectOK, InjectsOK
  <2>6. Withs({Over(b, Lean(With(Over(b, x)))) : x \in in}) = {With(Over(b, Lean(With(Over(b, x))))) : x \in in}
    BY DEF Withs
  <2>7. Withs({Over(b, Lean(x)) : x \in in}) = {With(Over(b, Lean(x))) : x \in in} BY DEF Withs
  <2>8. {With(Over(b, Lean(With(Over(b, x))))) : x \in in} = {With(Over(b, Lean(x))) : x \in in} BY <2>5
  <2> QED BY <2>1, <2>2, <2>3, <2>4, <2>6, <2>7, <2>8
<1> QED BY <1>3, <1>4

\* When no list of the preset is emptied, the injects are the same document.
LEMMA InjectLean ==
    ASSUME NEW base, PresetOK(base), NEW in, InjectsOK(in), \A x \in in, b \in base.inject : ~Empties(x, b)
    PROVE  Leans(Withs(InjectOver(base, Leans(in)))) = Leans(Withs(InjectOver(base, in)))
<1>1. PICK b : base.inject = {b} /\ InjectOK(b) BY DEF PresetOK
<1>2. \A d : InjectOver(base, d) = IF d = {} THEN {b} ELSE {Over(b, x) : x \in d} BY <1>1, InjectOverOne
<1>3. CASE in = {}
  <2>1. Leans(in) = in BY <1>3 DEF Leans
  <2> QED BY <2>1
<1>4. CASE in # {}
  <2>1. InjectOver(base, in) = {Over(b, x) : x \in in} BY <1>2, <1>4
  <2>2. InjectOver(base, Leans(in)) = {Over(b, Lean(x)) : x \in in}
    <3>1. Leans(in) # {} BY <1>4 DEF Leans
    <3>2. InjectOver(base, Leans(in)) = {Over(b, y) : y \in Leans(in)} BY <1>2, <3>1
    <3>3. {Over(b, y) : y \in Leans(in)} = {Over(b, Lean(x)) : x \in in} BY DEF Leans
    <3> QED BY <3>2, <3>3
  <2>3. \A x \in in : Lean(With(Over(b, Lean(x)))) = Lean(With(Over(b, x)))
    BY <1>1, LeanOver DEF InjectOK, InjectsOK
  <2>4. Leans(Withs({Over(b, Lean(x)) : x \in in})) = {Lean(With(Over(b, Lean(x)))) : x \in in} BY DEF Leans, Withs
  <2>5. Leans(Withs({Over(b, x) : x \in in})) = {Lean(With(Over(b, x))) : x \in in} BY DEF Leans, Withs
  <2>6. {Lean(With(Over(b, Lean(x)))) : x \in in} = {Lean(With(Over(b, x))) : x \in in} BY <2>3
  <2> QED BY <2>1, <2>2, <2>4, <2>5, <2>6
<1> QED BY <1>3, <1>4

LEMMA PresetsOK == \A p \in DOMAIN Preset : PresetOK(Preset[p]) /\ p # "none"
<1> DEFINE names == {"oauth", "apikey", "github", "aws", "gcp"}
<1>1. DOMAIN Preset = names BY DEF Preset
<1>2. ASSUME NEW h, NEW r, NEW a, NoEmptyList(a) PROVE \E b : Sets(h, r, a) = {b} /\ InjectOK(b)
  <2> DEFINE b == [NoInject EXCEPT !.set = {{h}}, !.carries = TRUE, !.remove = r, !.allow = a]
  <2>1. IsInject(b) /\ b.basic = FALSE /\ b.carries = TRUE /\ b.set = {{h}} /\ b.allow = a BY DEF NoInject, IsInject
  <2>2. Sets(h, r, a) = {b} BY DEF Sets
  <2> HIDE DEF b
  <2>3. {{h}} # {} /\ NoEmptyList({{h}}) BY DEF NoEmptyList
  <2>4. Full(b) BY <1>2, <2>1, <2>3 DEF Full
  <2>5. InjectOK(b) BY <2>1, <2>4 DEF InjectOK
  <2> QED BY <2>2, <2>5
<1>l. NoEmptyList({{"Beta"}}) /\ NoEmptyList({}) BY DEF NoEmptyList
<1>3. ASSUME NEW n PROVE \E g : Env(n) = {g} /\ IsGuest(g)
  <2> DEFINE g == [NoGuest EXCEPT !.env = n]
  <2>1. IsGuest(g) BY DEF NoGuest, IsGuest
  <2>2. Env(n) = {g} BY DEF Env
  <2> HIDE DEF g
  <2> QED BY <2>1, <2>2
<1>4. PresetOK(Preset["oauth"])
  <2> DEFINE base == Preset["oauth"]
             c == [secret |-> "none", field |-> "token"]
  <2>1. IsRoute(base) BY DEF Preset, NoRoute, IsRoute
  <2>2. /\ base.cred = {c} /\ base.inject = Sets("Authorization", {"Authorization", "X-Api-Key"}, {{"Beta"}})
        /\ base.guest = Env({<<"URL", "url">>, <<"TOKEN", "token">>})
    BY DEF Preset, NoRoute
  <2>3. IsCred(c) BY DEF IsCred
  <2> HIDE DEF base, c
  <2>4. PresetOK(base) BY <1>2, <1>3, <1>l, <2>1, <2>2, <2>3 DEF PresetOK
  <2> QED BY <2>4 DEF base
<1>5. PresetOK(Preset["apikey"])
  <2> DEFINE base == Preset["apikey"]
  <2>1. IsRoute(base) BY DEF Preset, NoRoute, IsRoute
  <2>2. /\ base.cred = {} /\ base.inject = Sets("X-Api-Key", {"Authorization"}, {{"Beta"}})
        /\ base.guest = Env({<<"URL", "url">>, <<"TOKEN", "token">>})
    BY DEF Preset, NoRoute
  <2> HIDE DEF base
  <2>3. PresetOK(base) BY <1>2, <1>3, <1>l, <2>1, <2>2 DEF PresetOK
  <2> QED BY <2>3 DEF base
<1>6. PresetOK(Preset["github"])
  <2> DEFINE base == Preset["github"]
             b == [NoInject EXCEPT !.basic = TRUE, !.remove = {"Authorization"}]
             g == [NoGuest EXCEPT !.git = {"https://github.com/"}]
  <2>1. IsRoute(base) BY DEF Preset, NoRoute, IsRoute
  <2>2. base.cred = {} /\ base.inject = {b} /\ base.guest = {g} BY DEF Preset, NoRoute
  <2>i. IsInject(b) /\ b.basic = TRUE /\ b.carries = FALSE /\ b.set = {} /\ b.allow = {} BY DEF NoInject, IsInject
  <2>f. Full(b) BY <1>l, <2>i DEF Full
  <2>3. InjectOK(b) BY <2>i, <2>f DEF InjectOK
  <2>4. IsGuest(g) BY DEF NoGuest, IsGuest
  <2> HIDE DEF base, b, g
  <2>5. PresetOK(base) BY <2>1, <2>2, <2>3, <2>4 DEF PresetOK
  <2> QED BY <2>5 DEF base
<1>7. PresetOK(Preset["aws"])
  <2> DEFINE base == Preset["aws"]
  <2>1. IsRoute(base) BY DEF Preset, NoRoute, IsRoute
  <2>2. /\ base.cred = {} /\ base.inject = Sets("Authorization", {"Authorization"}, {})
        /\ base.guest = Env({<<"URL", "url">>, <<"REGION", "region">>})
    BY DEF Preset, NoRoute
  <2> HIDE DEF base
  <2>3. PresetOK(base) BY <1>2, <1>3, <1>l, <2>1, <2>2 DEF PresetOK
  <2> QED BY <2>3 DEF base
<1>8. PresetOK(Preset["gcp"])
  <2> DEFINE base == Preset["gcp"]
  <2>1. IsRoute(base) BY DEF Preset, NoRoute, IsRoute
  <2>2. /\ base.cred = {} /\ base.inject = Sets("Authorization", {"Authorization"}, {})
        /\ base.guest = Env({<<"GCP", "url">>})
    BY DEF Preset, NoRoute
  <2> HIDE DEF base
  <2>3. PresetOK(base) BY <1>2, <1>3, <1>l, <2>1, <2>2 DEF PresetOK
  <2> QED BY <2>3 DEF base
<1> QED BY <1>1, <1>4, <1>5, <1>6, <1>7, <1>8

\* The overlay: a refusal, or the route Laid.
Laid(base, r) ==
    [base EXCEPT !.preset = r.preset, !.mode = Or(r.mode, "none", "endpoint"),
                 !.up = Or(r.up, "none", @), !.cred = CredOver(base, r.cred),
                 !.inject = InjectOver(base, r.inject), !.guest = GuestOver(base, r.guest),
                 !.allow = Or(r.allow, "none", @), !.services = Or(r.services, {}, @)]
Discarded(base, r) ==
    /\ base.life # "none"
    /\ r.up \notin {"none", base.up} \/ \E c \in r.cred, b \in base.cred : c.field \notin {"none", b.field}

LEMMA OverlayIs == ASSUME NEW base, NEW r PROVE Overlay(base, r) = IF Discarded(base, r) THEN {} ELSE {Laid(base, r)}
  BY DEF Overlay, Discarded, Laid

LEMMA LaidIs ==
    ASSUME NEW base, NEW r, IsRoute(base)
    PROVE  LET o == Laid(base, r) IN
           /\ IsRoute(o) /\ o.preset = r.preset /\ o.mode = Or(r.mode, "none", "endpoint") /\ o.up = Or(r.up, "none", base.up)
           /\ o.cred = CredOver(base, r.cred) /\ o.inject = InjectOver(base, r.inject) /\ o.guest = GuestOver(base, r.guest)
           /\ o.allow = Or(r.allow, "none", base.allow) /\ o.services = Or(r.services, {}, base.services)
           /\ o.life = base.life /\ o.fromPreset = base.fromPreset
  BY DEF IsRoute, Laid

LEMMA DefaultsIs ==
    ASSUME NEW o, IsRoute(o)
    PROVE  LET e == setDefaults(o) IN
           /\ IsRoute(e) /\ e.preset = o.preset /\ e.mode = Or(o.mode, "none", "endpoint") /\ e.up = o.up /\ e.cred = o.cred
           /\ e.inject = Withs(o.inject) /\ e.guest = o.guest /\ e.allow = o.allow /\ e.services = o.services
           /\ e.life = o.life /\ e.fromPreset = o.fromPreset
  BY DEF IsRoute, setDefaults, Withs, With

LEMMA BareIs ==
    ASSUME NEW r, IsRoute(r)
    PROVE  LET s == Bare(r) IN
           /\ IsRoute(s) /\ s.preset = r.preset /\ s.mode = r.mode /\ s.up = r.up /\ s.cred = r.cred
           /\ s.inject = Leans(r.inject) /\ s.guest = r.guest /\ s.allow = r.allow /\ s.services = r.services
           /\ s.life = r.life /\ s.fromPreset = r.fromPreset
  BY DEF IsRoute, Bare, Leans, Lean

LEMMA WireIs ==
    ASSUME NEW r, IsRoute(r)
    PROVE  LET s == OnTheWire(r) IN
           /\ IsRoute(s) /\ s.preset = r.preset /\ s.mode = r.mode /\ s.up = r.up /\ s.cred = r.cred
           /\ s.inject = Leans(r.inject) /\ s.guest = r.guest /\ s.allow = r.allow /\ s.services = r.services
           /\ s.life = r.life /\ s.fromPreset = FALSE
<1> DEFINE b == Bare(r)
<1>1. /\ IsRoute(b) /\ b.preset = r.preset /\ b.mode = r.mode /\ b.up = r.up /\ b.cred = r.cred
      /\ b.inject = Leans(r.inject) /\ b.guest = r.guest /\ b.allow = r.allow /\ b.services = r.services
      /\ b.life = r.life /\ b.fromPreset = r.fromPreset
  BY BareIs
<1>2. OnTheWire(r) = [b EXCEPT !.fromPreset = FALSE] BY DEF OnTheWire
<1> HIDE DEF b
<1> QED BY <1>1, <1>2 DEF IsRoute

LEMMA WithoutInject ==
    ASSUME NEW r, IsRoute(r)
    PROVE  LET s == [r EXCEPT !.inject = {}] IN
           /\ IsRoute(s) /\ s.preset = r.preset /\ s.mode = r.mode /\ s.up = r.up /\ s.cred = r.cred /\ s.inject = {}
           /\ s.guest = r.guest /\ s.allow = r.allow /\ s.services = r.services
  BY DEF IsRoute

\* A route expanded from a preset and sent, laid over that preset again: the preset
\* that keeps a credential fresh does not refuse it, and it lands as the route does
\* that was written, without its empty lists.
LEMMA ExpandedAgain ==
    ASSUME NEW base, PresetOK(base), NEW r, InjectsOK(r.inject), ~Discarded(base, r),
           NEW e, e = setDefaults(Laid(base, r)),
           NEW s, s.preset = e.preset, s.mode = e.mode, s.up = e.up, s.cred = e.cred, s.guest = e.guest,
           s.allow = e.allow, s.services = e.services, s.inject = Leans(e.inject) \/ (s.inject = {} /\ r.inject = {}),
           NEW q, q.preset = r.preset, q.mode = r.mode, q.up = r.up, q.cred = r.cred, q.guest = r.guest,
           q.allow = r.allow, q.services = r.services, q.inject = Leans(r.inject)
    PROVE  /\ ~Discarded(base, s) /\ ~Discarded(base, q)
           /\ setDefaults(Laid(base, s)) = setDefaults(Laid(base, q))
<1> DEFINE o == Laid(base, r)
           n == Laid(base, s)
           m == Laid(base, q)
           f == setDefaults(n)
           g == setDefaults(m)
<1>0. IsRoute(base) BY DEF PresetOK
<1>1. /\ IsRoute(o) /\ o.preset = r.preset /\ o.mode = Or(r.mode, "none", "endpoint") /\ o.up = Or(r.up, "none", base.up)
      /\ o.cred = CredOver(base, r.cred) /\ o.inject = InjectOver(base, r.inject) /\ o.guest = GuestOver(base, r.guest)
      /\ o.allow = Or(r.allow, "none", base.allow) /\ o.services = Or(r.services, {}, base.services)
      /\ o.life = base.life /\ o.fromPreset = base.fromPreset
  BY <1>0, LaidIs
<1>2. /\ IsRoute(n) /\ n.preset = s.preset /\ n.mode = Or(s.mode, "none", "endpoint") /\ n.up = Or(s.up, "none", base.up)
      /\ n.cred = CredOver(base, s.cred) /\ n.inject = InjectOver(base, s.inject) /\ n.guest = GuestOver(base, s.guest)
      /\ n.allow = Or(s.allow, "none", base.allow) /\ n.services = Or(s.services, {}, base.services)
      /\ n.life = base.life /\ n.fromPreset = base.fromPreset
  BY <1>0, LaidIs
<1>m. /\ IsRoute(m) /\ m.preset = q.preset /\ m.mode = Or(q.mode, "none", "endpoint") /\ m.up = Or(q.up, "none", base.up)
      /\ m.cred = CredOver(base, q.cred) /\ m.inject = InjectOver(base, q.inject) /\ m.guest = GuestOver(base, q.guest)
      /\ m.allow = Or(q.allow, "none", base.allow) /\ m.services = Or(q.services, {}, base.services)
      /\ m.life = base.life /\ m.fromPreset = base.fromPreset
  BY <1>0, LaidIs
<1>e. e = setDefaults(o) OBVIOUS
<1> HIDE DEF o, n, m
<1>3. /\ IsRoute(e) /\ e.preset = o.preset /\ e.mode = Or(o.mode, "none", "endpoint") /\ e.up = o.up /\ e.cred = o.cred
      /\ e.inject = Withs(o.inject) /\ e.guest = o.guest /\ e.allow = o.allow /\ e.services = o.services
      /\ e.life = o.life /\ e.fromPreset = o.fromPreset
  BY <1>1, <1>e, DefaultsIs
<1>4. /\ IsRoute(f) /\ f.preset = n.preset /\ f.mode = Or(n.mode, "none", "endpoint") /\ f.up = n.up /\ f.cred = n.cred
      /\ f.inject = Withs(n.inject) /\ f.guest = n.guest /\ f.allow = n.allow /\ f.services = n.services
      /\ f.life = n.life /\ f.fromPreset = n.fromPreset
  BY <1>2, DefaultsIs
<1>g. /\ IsRoute(g) /\ g.preset = m.preset /\ g.mode = Or(m.mode, "none", "endpoint") /\ g.up = m.up /\ g.cred = m.cred
      /\ g.inject = Withs(m.inject) /\ g.guest = m.guest /\ g.allow = m.allow /\ g.services = m.services
      /\ g.life = m.life /\ g.fromPreset = m.fromPreset
  BY <1>m, DefaultsIs
<1> HIDE DEF f, g
<1>5. f.cred = g.cred /\ f.guest = g.guest BY <1>1, <1>2, <1>m, <1>3, <1>4, <1>g, CredTwice, GuestTwice
<1>6. f.inject = g.inject
  <2>1. CASE s.inject = Leans(e.inject) BY <1>1, <1>2, <1>m, <1>3, <1>4, <1>g, <2>1, InjectTwice
  <2>2. CASE s.inject = {} /\ r.inject = {}
    <3>1. q.inject = {} BY <2>2 DEF Leans
    <3> QED BY <1>2, <1>m, <1>4, <1>g, <2>2, <3>1
  <2> QED BY <2>1, <2>2
<1>7. /\ f.preset = g.preset /\ f.mode = g.mode /\ f.up = g.up /\ f.allow = g.allow /\ f.services = g.services
      /\ f.life = g.life /\ f.fromPreset = g.fromPreset
  <2>1. \A u, v, w : Or(Or(u, w, v), w, v) = Or(u, w, v) BY DEF Or
  <2> QED BY <1>1, <1>2, <1>m, <1>3, <1>4, <1>g, <2>1
<1>8. f = g BY <1>4, <1>g, <1>5, <1>6, <1>7, SameRoute
<1>9. ~Discarded(base, s)
  <2> SUFFICES ASSUME base.life # "none"
               PROVE  s.up \in {"none", base.up} /\ \A c \in s.cred, b \in base.cred : c.field \in {"none", b.field}
    BY DEF Discarded
  <2>1. r.up \in {"none", base.up} /\ \A c \in r.cred, b \in base.cred : c.field \in {"none", b.field} BY DEF Discarded
  <2>2. s.up = base.up BY <1>1, <1>3, <2>1 DEF Or
  <2>3. ASSUME NEW c \in s.cred, NEW b \in base.cred PROVE c.field \in {"none", b.field}
    <3>2. c \in CredOver(base, r.cred) BY <1>1, <1>3, <2>3
    <3>1. FromBase(b, r.cred, c) BY <2>3, <3>2, CredOverOne
    <3>3. c = b \/ \E x \in r.cred : c = CredMade(b, x) BY <3>1 DEF FromBase
    <3>4. CASE c = b BY <3>4
    <3>5. CASE \E x \in r.cred : c = CredMade(b, x)
      <4>1. PICK x \in r.cred : c = CredMade(b, x) BY <3>5
      <4>2. c.field = Or(x.field, "none", b.field) BY <4>1 DEF CredMade
      <4> QED BY <2>1, <4>2 DEF Or
    <3> QED BY <3>3, <3>4, <3>5
  <2> QED BY <2>2, <2>3
<1>10. ~Discarded(base, q) BY DEF Discarded
<1> QED BY <1>8, <1>9, <1>10 DEF f, g, n, m

\* A document is valid as what it stands for.
LEMMA ValidBare ==
    ASSUME NEW e, IsRoute(e), NEW d, IsRoute(d), d.preset = e.preset, d.up = e.up, d.cred = e.cred, d.guest = e.guest,
           d.allow = e.allow, d.services = e.services, d.life = e.life, d.fromPreset = e.fromPreset,
           \A x \in e.inject \cup d.inject : IsInject(x),
           Leans(d.inject) = Leans(e.inject), Valid(e, TRUE)
    PROVE  Valid(d, TRUE)
<1>1. \A y \in d.inject : \E x \in e.inject : Lean(y) = Lean(x)
  <2> SUFFICES ASSUME NEW y \in d.inject PROVE \E x \in e.inject : Lean(y) = Lean(x) OBVIOUS
  <2>1. Lean(y) \in Leans(e.inject) BY DEF Leans
  <2> QED BY <2>1 DEF Leans
<1>2. \A x \in e.inject : \E y \in d.inject : Lean(y) = Lean(x)
  <2> SUFFICES ASSUME NEW x \in e.inject PROVE \E y \in d.inject : Lean(y) = Lean(x) OBVIOUS
  <2>1. Lean(x) \in Leans(d.inject) BY DEF Leans
  <2> QED BY <2>1 DEF Leans
<1> DEFINE Alike(x, y) == /\ UNION x.set = UNION y.set /\ UNION x.allow = UNION y.allow /\ x.carries = y.carries
                          /\ x.remove = y.remove /\ x.basic = y.basic /\ x.tls = y.tls
<1>3. ASSUME NEW x \in e.inject, NEW y \in d.inject, Lean(y) = Lean(x) PROVE Alike(x, y)
  <2>1. \A S : UNION (S \ {{}}) = UNION S OBVIOUS
  <2>2. x.set \ {{}} = y.set \ {{}} /\ x.allow \ {{}} = y.allow \ {{}} BY <1>3, LeanIs
  <2>3. UNION x.set = UNION y.set /\ UNION x.allow = UNION y.allow BY <2>1, <2>2
  <2>4. x.carries = y.carries /\ x.remove = y.remove /\ x.basic = y.basic /\ x.tls = y.tls BY <1>3, LeanIs
  <2> QED BY <2>3, <2>4
<1>4. ASSUME NEW x, NEW y, Alike(x, y)
      PROVE  /\ InjectValid(x, TRUE, TRUE) => InjectValid(y, TRUE, TRUE)
             /\ carriesCredential(x) => carriesCredential(y)
             /\ CertificateOnly(x) => CertificateOnly(y)
             /\ x.tls = y.tls
  <2>e. /\ UNION x.set = UNION y.set /\ UNION x.allow = UNION y.allow /\ x.carries = y.carries
        /\ x.remove = y.remove /\ x.basic = y.basic /\ x.tls = y.tls
    BY <1>4
  <2>0. ASSUME NEW n \in BOOLEAN, HeadersValid(x, n) PROVE HeadersValid(y, n)
    <3>1. \A h \in UNION y.set : h \in y.remove => h = "Authorization" BY <2>0, <2>e DEF HeadersValid
    <3>2. n => y.carries BY <2>0, <2>e, Zenon DEF HeadersValid
    <3>3. "Authorization" \notin UNION y.allow BY <2>0, <2>e, Zenon DEF HeadersValid
    <3>4. (UNION y.allow) \cap ((UNION y.set) \cup y.remove) = {} BY <2>0, <2>e, Zenon DEF HeadersValid
    <3> QED BY <3>1, <3>2, <3>3, <3>4 DEF HeadersValid
  <2>1. InjectValid(x, TRUE, TRUE) => InjectValid(y, TRUE, TRUE)
    <3>1. HeadersValid(x, TRUE /\ UNION x.set # {}) => HeadersValid(y, TRUE /\ UNION y.set # {}) BY <2>0, <2>e
    <3> QED BY <2>e, <3>1, Zenon DEF InjectValid
  <2>2. carriesCredential(x) => carriesCredential(y) BY <2>e, Zenon DEF carriesCredential
  <2>3. CertificateOnly(x) => CertificateOnly(y) BY <2>e, Zenon DEF CertificateOnly
  <2> QED BY <2>e, <2>1, <2>2, <2>3
<1> HIDE DEF Alike
<1>v. /\ e.inject # {} /\ \A x \in e.inject : InjectValid(x, TRUE, TRUE)
      /\ \A x \in e.inject : x.tls # "none" => e.preset = "none"
      /\ \A c \in e.cred : \A x \in e.inject : x.tls # "none" => carriesCredential(x)
      /\ e.cred = {} => \E x \in e.inject : CertificateOnly(x)
  BY DEF Valid
<1>5. ASSUME NEW y \in d.inject
      PROVE  /\ InjectValid(y, TRUE, TRUE)
             /\ y.tls # "none" => d.preset = "none"
             /\ \A c \in d.cred : y.tls # "none" => carriesCredential(y)
  <2>1. PICK x \in e.inject : Lean(y) = Lean(x) BY <1>1
  <2>2. Alike(x, y) BY <1>3, <2>1
  <2>3. /\ InjectValid(x, TRUE, TRUE) => InjectValid(y, TRUE, TRUE)
        /\ carriesCredential(x) => carriesCredential(y)
        /\ x.tls = y.tls
    BY <1>4, <2>2
  <2>4. /\ InjectValid(x, TRUE, TRUE)
        /\ x.tls # "none" => e.preset = "none"
        /\ \A c \in e.cred : x.tls # "none" => carriesCredential(x)
    BY <1>v
  <2> QED BY <2>3, <2>4
<1>6. ASSUME NEW x \in e.inject, CertificateOnly(x) PROVE \E y \in d.inject : CertificateOnly(y)
  <2>1. PICK y \in d.inject : Lean(y) = Lean(x) BY <1>2
  <2>2. Alike(x, y) BY <1>3, <2>1
  <2> QED BY <1>4, <1>6, <2>2
<1>7. d.inject # {} BY <1>2, <1>v
<1>8. \A y \in d.inject : InjectValid(y, TRUE, TRUE) BY <1>5
<1>9. \A y \in d.inject : y.tls # "none" => d.preset = "none" BY <1>5
<1>10. \A c \in d.cred : \A y \in d.inject : y.tls # "none" => carriesCredential(y) BY <1>5
<1>11. d.cred = {} => \E y \in d.inject : CertificateOnly(y) BY <1>v, <1>6
<1>12. IF Vends(d) THEN d.up = "none"
       ELSE IF d.preset = "gcp" THEN d.up = "none" /\ ServicesValid(d)
       ELSE d.up # "none" /\ checkOrigin(d.up)
  BY DEF Valid, Vends, ServicesValid
<1>13. /\ d.services # {} => d.preset = "gcp"
       /\ \A c \in d.cred : (d.life # "none" => d.fromPreset) /\ CredentialValid(c)
       /\ \A g \in d.guest : GuestValid(g, TRUE, d.preset)
       /\ d.guest # {}
       /\ AllowValid(d.allow, d.preset)
  BY DEF Valid
<1> QED BY <1>7, <1>8, <1>9, <1>10, <1>11, <1>12, <1>13 DEF Valid

LEMMA FilledIs ==
    ASSUME NEW r
    PROVE  Filled(r) = {e \in IF r.preset = "none" THEN {setDefaults(r)}
                             ELSE IF Discarded(Preset[r.preset], r) THEN {} ELSE {setDefaults(Laid(Preset[r.preset], r))} :
                          Valid(e, TRUE)}
<1>1. CASE r.preset = "none" BY <1>1 DEF Filled
<1>2. CASE r.preset # "none" BY <1>2, OverlayIs DEF Filled
<1> QED BY <1>1, <1>2

\* A route as a policy writes it.
Written(r) ==
    /\ IsRoute(r) /\ r.preset \in DOMAIN Preset \cup {"none"} /\ r.life = "none" /\ r.fromPreset = FALSE
    /\ InjectsOK(r.inject)
    /\ Valid(r, FALSE)

\* What a route without a preset becomes of its defaults, sent and given them again.
LEMMA WithLean ==
    ASSUME NEW x, IsInject(x)
    PROVE  With(Lean(With(x))) = With(Lean(x)) /\ Lean(With(Lean(x))) = Lean(With(x))
<1> DEFINE w == With(x)
           l == Lean(x)
<1>1. /\ IsInject(w) /\ w.set = x.set /\ w.carries = x.carries /\ w.remove = x.remove \cup {"Authorization"}
      /\ w.allow = x.allow /\ w.basic = x.basic /\ w.tls = x.tls
  BY WithIs
<1>2. /\ IsInject(l) /\ l.set = x.set \ {{}} /\ l.carries = x.carries /\ l.remove = x.remove
      /\ l.allow = x.allow \ {{}} /\ l.basic = x.basic /\ l.tls = x.tls
  BY LeanIs
<1> HIDE DEF w, l
<1>3. /\ IsInject(Lean(w)) /\ Lean(w).set = w.set \ {{}} /\ Lean(w).carries = w.carries /\ Lean(w).remove = w.remove
      /\ Lean(w).allow = w.allow \ {{}} /\ Lean(w).basic = w.basic /\ Lean(w).tls = w.tls
  BY <1>1, LeanIs
<1>4. /\ IsInject(With(l)) /\ With(l).set = l.set /\ With(l).carries = l.carries
      /\ With(l).remove = l.remove \cup {"Authorization"}
      /\ With(l).allow = l.allow /\ With(l).basic = l.basic /\ With(l).tls = l.tls
  BY <1>2, WithIs
<1>5. With(l) = Lean(w) BY <1>1, <1>2, <1>3, <1>4, SameInject
<1>6. With(Lean(w)) = Lean(w)
  <2>1. With(With(l)) = With(l) BY <1>2, WithTwice
  <2> QED BY <1>5, <2>1
<1>7. Lean(Lean(w)) = Lean(w)
  <2> DEFINE k == Lean(w)
  <2> HIDE DEF k
  <2>0. /\ IsInject(k) /\ k.set = w.set \ {{}} /\ k.carries = w.carries /\ k.remove = w.remove
        /\ k.allow = w.allow \ {{}} /\ k.basic = w.basic /\ k.tls = w.tls
    BY <1>3 DEF k
  <2>1. k.set \ {{}} = k.set /\ k.allow \ {{}} = k.allow BY <2>0
  <2>2. Lean(k) = k BY <2>0, <2>1, LeanIs, SameInject
  <2> QED BY <2>2 DEF k
<1> QED BY <1>5, <1>6, <1>7 DEF w, l

LEMMA WithsLeans ==
    ASSUME NEW in, \A x \in in : IsInject(x)
    PROVE  Withs(Leans(Withs(in))) = Withs(Leans(in)) /\ Leans(Withs(Leans(in))) = Leans(Withs(in))
<1>1. Withs(Leans(Withs(in))) = {With(Lean(With(x))) : x \in in} BY DEF Withs, Leans
<1>2. Withs(Leans(in)) = {With(Lean(x)) : x \in in} BY DEF Withs, Leans
<1>3. Leans(Withs(Leans(in))) = {Lean(With(Lean(x))) : x \in in} BY DEF Withs, Leans
<1>4. Leans(Withs(in)) = {Lean(With(x)) : x \in in} BY DEF Withs, Leans
<1>5. \A x \in in : With(Lean(With(x))) = With(Lean(x)) /\ Lean(With(Lean(x))) = Lean(With(x)) BY WithLean
<1>6. {With(Lean(With(x))) : x \in in} = {With(Lean(x)) : x \in in} BY <1>5
<1>7. {Lean(With(Lean(x))) : x \in in} = {Lean(With(x)) : x \in in} BY <1>5
<1> QED BY <1>1, <1>2, <1>3, <1>4, <1>6, <1>7

\* The injects that the overlay and the defaults make are records.
LEMMA InjectsAre ==
    ASSUME NEW in, \A x \in in : IsInject(x)
    PROVE  (\A x \in Withs(in) : IsInject(x)) /\ (\A x \in Leans(in) : IsInject(x))
<1>1. \A x \in in : IsInject(With(x)) /\ IsInject(Lean(x)) BY WithIs, LeanIs
<1> QED BY <1>1 DEF Withs, Leans

LEMMA LaidInjectsAre ==
    ASSUME NEW base, PresetOK(base), NEW in, \A x \in in : x.basic \in BOOLEAN
    PROVE  \A y \in InjectOver(base, in) : IsInject(y)
<1>1. PICK b : base.inject = {b} /\ InjectOK(b) BY DEF PresetOK
<1>2. \A d : InjectOver(base, d) = IF d = {} THEN {b} ELSE {Over(b, x) : x \in d} BY <1>1, InjectOverOne
<1>3. \A x \in in : IsInject(Over(b, x)) BY <1>1, OverIs DEF InjectOK
<1> QED BY <1>1, <1>2, <1>3 DEF InjectOK

\* Of a route r that expands to e: g is what r expands to without its empty lists.
SameDocument(e, g) ==
    /\ g.preset = e.preset /\ g.mode = e.mode /\ g.up = e.up /\ g.cred = e.cred /\ g.guest = e.guest
    /\ g.allow = e.allow /\ g.services = e.services /\ g.life = e.life /\ g.fromPreset = e.fromPreset
    /\ Leans(g.inject) = Leans(e.inject)

LEMMA BareSame ==
    ASSUME NEW e, IsRoute(e), NEW g, IsRoute(g), SameDocument(e, g), Valid(e, TRUE),
           \A x \in e.inject \cup g.inject : IsInject(x)
    PROVE  Bare(g) = Bare(e) /\ Valid(g, TRUE)
<1>1. Bare(g) = Bare(e) BY BareIs, SameRoute DEF SameDocument
<1>2. Valid(g, TRUE) BY ValidBare DEF SameDocument
<1> QED BY <1>1, <1>2

\* Once(r, e): the broker expands what brig made of r, e, as r without its empty lists;
\* and that is e again, as a document, when no list of the preset was emptied.
Once(r, e) ==
    /\ ExpandRoute(r) = {e} /\ Valid(e, TRUE)
    /\ ExpandRoute(OnTheWire(e)) = ExpandRoute(Bare(r))
    /\ \A f \in ExpandRoute(Bare(r)) : Valid(f, TRUE)
    /\ ~Emptied(r) => {Bare(f) : f \in ExpandRoute(Bare(r))} = {Bare(e)}

LEMMA OnceCustom ==
    ASSUME NEW r, Written(r), r.preset = "none", NEW e \in Filled(r)
    PROVE  Once(r, e)
<1>1. e = setDefaults(r) /\ Filled(r) = {e} /\ Valid(e, TRUE) BY FilledIs
<1>i. \A x \in r.inject : IsInject(x) BY DEF Written, InjectsOK
<1>2. /\ IsRoute(e) /\ e.preset = "none" /\ e.mode = Or(r.mode, "none", "endpoint") /\ e.up = r.up /\ e.cred = r.cred
      /\ e.inject = Withs(r.inject) /\ e.guest = r.guest /\ e.allow = r.allow /\ e.services = r.services
      /\ e.life = "none" /\ e.fromPreset = FALSE
  BY <1>1, DefaultsIs DEF Written
<1> DEFINE w == OnTheWire(e)
           q == Bare(r)
<1>3. /\ IsRoute(w) /\ w.preset = "none" /\ w.mode = e.mode /\ w.up = e.up /\ w.cred = e.cred
      /\ w.inject = Leans(e.inject) /\ w.guest = e.guest /\ w.allow = e.allow /\ w.services = e.services
      /\ w.life = e.life /\ w.fromPreset = FALSE
  BY <1>2, WireIs
<1>4. /\ IsRoute(q) /\ q.preset = "none" /\ q.mode = r.mode /\ q.up = r.up /\ q.cred = r.cred
      /\ q.inject = Leans(r.inject) /\ q.guest = r.guest /\ q.allow = r.allow /\ q.services = r.services
      /\ q.life = "none" /\ q.fromPreset = FALSE
  BY BareIs DEF Written
<1> HIDE DEF w, q
<1> DEFINE f == setDefaults(w)
           g == setDefaults(q)
<1>5. /\ IsRoute(f) /\ f.preset = w.preset /\ f.mode = Or(w.mode, "none", "endpoint") /\ f.up = w.up /\ f.cred = w.cred
      /\ f.inject = Withs(w.inject) /\ f.guest = w.guest /\ f.allow = w.allow /\ f.services = w.services
      /\ f.life = w.life /\ f.fromPreset = w.fromPreset
  BY <1>3, DefaultsIs
<1>6. /\ IsRoute(g) /\ g.preset = q.preset /\ g.mode = Or(q.mode, "none", "endpoint") /\ g.up = q.up /\ g.cred = q.cred
      /\ g.inject = Withs(q.inject) /\ g.guest = q.guest /\ g.allow = q.allow /\ g.services = q.services
      /\ g.life = q.life /\ g.fromPreset = q.fromPreset
  BY <1>4, DefaultsIs
<1>7. Filled(w) = {x \in {f} : Valid(x, TRUE)} /\ Filled(q) = {x \in {g} : Valid(x, TRUE)} BY <1>3, <1>4, FilledIs
<1> HIDE DEF f, g
<1>8. f.inject = g.inject /\ Leans(g.inject) = Leans(e.inject) BY <1>i, <1>2, <1>3, <1>4, <1>5, <1>6, WithsLeans
<1>9. f.mode = g.mode /\ g.mode = e.mode BY <1>2, <1>3, <1>4, <1>5, <1>6 DEF Or
<1>10. f = g
  <2>1. /\ f.preset = g.preset /\ f.up = g.up /\ f.cred = g.cred /\ f.guest = g.guest /\ f.allow = g.allow
        /\ f.services = g.services /\ f.life = g.life /\ f.fromPreset = g.fromPreset
    BY <1>2, <1>3, <1>4, <1>5, <1>6
  <2> QED BY <1>5, <1>6, <1>8, <1>9, <2>1, SameRoute
<1>11. SameDocument(e, g) BY <1>2, <1>4, <1>6, <1>8, <1>9 DEF SameDocument
<1>12. \A x \in e.inject \cup g.inject : IsInject(x) BY <1>i, <1>2, <1>4, <1>6, InjectsAre
<1>13. Bare(g) = Bare(e) /\ Valid(g, TRUE) BY <1>1, <1>2, <1>6, <1>11, <1>12, BareSame
<1>14. ~Vends(r) /\ ~Vends(w) /\ ~Vends(q) BY <1>3, <1>4 DEF Vends
<1>15. ExpandRoute(r) = {e} /\ ExpandRoute(w) = {g} /\ ExpandRoute(q) = {g} BY <1>1, <1>7, <1>10, <1>13, <1>14 DEF ExpandRoute
<1>16. {Bare(x) : x \in {g}} = {Bare(e)} BY <1>13
<1>17. {Bare(x) : x \in ExpandRoute(q)} = {Bare(e)} BY <1>15, <1>16
<1> QED BY <1>1, <1>13, <1>15, <1>17 DEF Once, w, q

LEMMA OncePreset ==
    ASSUME NEW r, Written(r), r.preset # "none", NEW e \in Filled(r), ~(Vends(r) /\ r.inject # {})
    PROVE  Once(r, e)
<1> DEFINE base == Preset[r.preset]
<1>1. PresetOK(base) /\ IsRoute(base) BY PresetsOK DEF Written, PresetOK
<1>2. ~Discarded(base, r) /\ e = setDefaults(Laid(base, r)) /\ Filled(r) = {e} /\ Valid(e, TRUE) BY FilledIs
<1>p. \A s : s.preset = r.preset => Preset[s.preset] = base OBVIOUS
<1>n. ~Emptied(r) => \A x \in r.inject, b \in base.inject : ~Empties(x, b) BY DEF Emptied, Empties
<1> HIDE DEF base
<1>i. InjectsOK(r.inject) /\ \A x \in r.inject : IsInject(x) /\ x.basic \in BOOLEAN BY DEF Written, InjectsOK
<1> DEFINE o == Laid(base, r)
<1>3. /\ IsRoute(o) /\ o.preset = r.preset /\ o.mode = Or(r.mode, "none", "endpoint") /\ o.up = Or(r.up, "none", base.up)
      /\ o.cred = CredOver(base, r.cred) /\ o.inject = InjectOver(base, r.inject) /\ o.guest = GuestOver(base, r.guest)
      /\ o.allow = Or(r.allow, "none", base.allow) /\ o.services = Or(r.services, {}, base.services)
      /\ o.life = base.life /\ o.fromPreset = base.fromPreset
  BY <1>1, LaidIs
<1>o. e = setDefaults(o) BY <1>2
<1> HIDE DEF o
<1>4. /\ IsRoute(e) /\ e.preset = o.preset /\ e.mode = Or(o.mode, "none", "endpoint") /\ e.up = o.up /\ e.cred = o.cred
      /\ e.inject = Withs(o.inject) /\ e.guest = o.guest /\ e.allow = o.allow /\ e.services = o.services
      /\ e.life = o.life /\ e.fromPreset = o.fromPreset
  BY <1>o, <1>3, DefaultsIs
<1> DEFINE w == OnTheWire(e)
           q == Bare(r)
<1>5. /\ IsRoute(w) /\ w.preset = e.preset /\ w.mode = e.mode /\ w.up = e.up /\ w.cred = e.cred
      /\ w.inject = Leans(e.inject) /\ w.guest = e.guest /\ w.allow = e.allow /\ w.services = e.services
  BY <1>4, WireIs
<1>6. /\ IsRoute(q) /\ q.preset = r.preset /\ q.mode = r.mode /\ q.up = r.up /\ q.cred = r.cred
      /\ q.inject = Leans(r.inject) /\ q.guest = r.guest /\ q.allow = r.allow /\ q.services = r.services
  BY BareIs DEF Written
<1> HIDE DEF w, q
<1> DEFINE m == Laid(base, q)
           g == setDefaults(Laid(base, q))
<1>7. /\ IsRoute(m) /\ m.preset = q.preset /\ m.mode = Or(q.mode, "none", "endpoint") /\ m.up = Or(q.up, "none", base.up)
      /\ m.cred = CredOver(base, q.cred) /\ m.inject = InjectOver(base, q.inject) /\ m.guest = GuestOver(base, q.guest)
      /\ m.allow = Or(q.allow, "none", base.allow) /\ m.services = Or(q.services, {}, base.services)
      /\ m.life = base.life /\ m.fromPreset = base.fromPreset
  BY <1>1, LaidIs
<1>g. g = setDefaults(m) OBVIOUS
<1> HIDE DEF m
<1>8. /\ IsRoute(g) /\ g.preset = m.preset /\ g.mode = Or(m.mode, "none", "endpoint") /\ g.up = m.up /\ g.cred = m.cred
      /\ g.inject = Withs(m.inject) /\ g.guest = m.guest /\ g.allow = m.allow /\ g.services = m.services
      /\ g.life = m.life /\ g.fromPreset = m.fromPreset
  BY <1>g, <1>7, DefaultsIs
<1>9. ~Discarded(base, q) BY <1>2, <1>6 DEF Discarded
<1>10. Preset[q.preset] = base /\ q.preset # "none" BY <1>p, <1>6
<1>11. Filled(q) = {x \in {g} : Valid(x, TRUE)} BY <1>9, <1>10, FilledIs
<1>12. ~(Vends(q) /\ q.inject # {})
  <2>1. r.inject = {} => q.inject = {} BY <1>6 DEF Leans
  <2> QED BY <1>6, <2>1 DEF Vends
<1>13. ExpandRoute(r) = {e} /\ ExpandRoute(q) = {x \in {g} : Valid(x, TRUE)} BY <1>2, <1>11, <1>12 DEF ExpandRoute
<1> HIDE DEF g
<1>14. ASSUME \A x \in r.inject, b \in base.inject : ~Empties(x, b)
       PROVE  Bare(g) = Bare(e) /\ Valid(g, TRUE)
  <2>1. Leans(g.inject) = Leans(e.inject) BY <1>1, <1>i, <1>3, <1>4, <1>6, <1>7, <1>8, <1>14, InjectLean
  <2>2. SameDocument(e, g) BY <1>3, <1>4, <1>6, <1>7, <1>8, <2>1 DEF SameDocument
  <2>3. \A x \in q.inject : x.basic \in BOOLEAN
    <3>1. \A x \in r.inject : Lean(x).basic = x.basic BY <1>i, LeanIs
    <3> QED BY <1>i, <1>6, <3>1 DEF Leans
  <2>4. \A x \in o.inject \cup m.inject : IsInject(x) BY <1>1, <1>i, <1>3, <1>7, <2>3, LaidInjectsAre
  <2>5. \A x \in e.inject \cup g.inject : IsInject(x) BY <1>4, <1>8, <2>4, InjectsAre
  <2> QED BY <1>2, <1>4, <1>8, <2>2, <2>5, BareSame
<1>15. ExpandRoute(w) = ExpandRoute(q)
  <2>1. CASE Vends(w) /\ w.inject # {}
    <3> DEFINE s == [w EXCEPT !.inject = {}]
    <3>1. /\ s.preset = e.preset /\ s.mode = e.mode /\ s.up = e.up /\ s.cred = e.cred /\ s.inject = {}
          /\ s.guest = e.guest /\ s.allow = e.allow /\ s.services = e.services
      BY <1>5, WithoutInject
    <3>2. ExpandRoute(w) = {f \in Filled(s) : f.inject = w.inject} BY <2>1 DEF ExpandRoute
    <3> HIDE DEF s
    <3>3. r.inject = {} BY <1>3, <1>4, <1>5, <2>1 DEF Vends
    <3>4. ~Discarded(base, s) /\ setDefaults(Laid(base, s)) = g BY <1>1, <1>2, <1>i, <1>6, <3>1, <3>3, ExpandedAgain DEF g
    <3>5. Preset[s.preset] = base /\ s.preset # "none" BY <1>3, <1>4, <1>p, <3>1
    <3>6. Filled(s) = {x \in {g} : Valid(x, TRUE)} BY <3>4, <3>5, FilledIs
    <3>7. g.inject = w.inject
      <4>1. q.inject = {} BY <1>6, <3>3 DEF Leans
      <4>2. g.inject = e.inject BY <1>3, <1>4, <1>7, <1>8, <3>3, <4>1
      <4>3. PICK b : base.inject = {b} /\ InjectOK(b) BY <1>1 DEF PresetOK
      <4>4. InjectOver(base, {}) = {b} BY <4>3 DEF InjectOver
      <4>5. e.inject = {With(b)} BY <1>3, <1>4, <3>3, <4>4 DEF Withs
      <4>6. /\ IsInject(With(b)) /\ With(b).set = b.set /\ With(b).allow = b.allow BY <4>3, WithIs DEF InjectOK
      <4>7. Lean(With(b)) = With(b) BY <4>3, <4>6, LeanFull DEF InjectOK, Full
      <4>8. Leans({With(b)}) = {With(b)} BY <4>7 DEF Leans
      <4> QED BY <1>5, <4>2, <4>5, <4>8
    <3> QED BY <1>13, <3>2, <3>6, <3>7
  <2>2. CASE ~(Vends(w) /\ w.inject # {})
    <3>1. ExpandRoute(w) = Filled(w) BY <2>2 DEF ExpandRoute
    <3>2. ~Discarded(base, w) /\ setDefaults(Laid(base, w)) = g BY <1>1, <1>2, <1>i, <1>5, <1>6, ExpandedAgain DEF g
    <3>3. Preset[w.preset] = base /\ w.preset # "none" BY <1>3, <1>4, <1>5, <1>p
    <3>4. Filled(w) = {x \in {g} : Valid(x, TRUE)} BY <3>2, <3>3, FilledIs
    <3> QED BY <1>13, <3>1, <3>4
  <2> QED BY <2>1, <2>2
<1>16. ASSUME ~Emptied(r) PROVE {Bare(f) : f \in ExpandRoute(q)} = {Bare(e)}
  <2>1. Bare(g) = Bare(e) /\ Valid(g, TRUE) BY <1>n, <1>14, <1>16
  <2>2. ExpandRoute(q) = {g} BY <1>13, <2>1
  <2>3. {Bare(f) : f \in {g}} = {Bare(e)} BY <2>1
  <2> QED BY <2>2, <2>3
<1>17. \A f \in ExpandRoute(q) : Valid(f, TRUE) BY <1>13
<1> QED BY <1>2, <1>13, <1>15, <1>16, <1>17 DEF Once, w, q

LEMMA OnceMore ==
    ASSUME NEW r, Written(r), NEW e \in ExpandRoute(r)
    PROVE  Once(r, e)
<1>1. ~(Vends(r) /\ r.inject # {}) BY DEF Written, Valid
<1>2. e \in Filled(r) BY <1>1 DEF ExpandRoute
<1>3. CASE r.preset = "none" BY <1>2, <1>3, OnceCustom
<1>4. CASE r.preset # "none" BY <1>1, <1>2, <1>4, OncePreset
<1> QED BY <1>3, <1>4

\* A route that is complete sends its credential one way.
LEMMA SentOneWay ==
    ASSUME NEW e, Valid(e, TRUE), NEW in \in e.inject
    PROVE  /\ "Authorization" \in in.remove \ UNION in.allow /\ ~(in.basic /\ UNION in.set # {})
           /\ e.cred # {} => carriesCredential(in)
<1>1. InjectValid(in, TRUE, TRUE) BY DEF Valid
<1>2. "Authorization" \in in.remove /\ "Authorization" \notin UNION in.allow /\ ~(UNION in.set # {} /\ in.basic)
  BY <1>1 DEF InjectValid, HeadersValid
<1>3. ASSUME e.cred # {} PROVE carriesCredential(in)
  <2>1. CASE in.tls # "none" BY <1>3, <2>1 DEF Valid
  <2>2. CASE in.tls = "none" BY <1>1, <2>2 DEF InjectValid, carriesCredential
  <2> QED BY <2>1, <2>2
<1> QED BY <1>2, <1>3

LEMMA TriedOnce == ExpandTry => ExpandsOnce'
<1> SUFFICES ASSUME ExpandTry PROVE ExpandsOnce' OBVIOUS
<1>1. PICK preset \in DOMAIN Preset \cup {"none"}, up \in {"none", "other", "path"}, creds \in Creds,
          inject \in Injects, guests \in Guests, allow \in {"none", "open", "GET", "repos"},
          services \in {{}, {"storage"}} :
         LET r == [NoRoute EXCEPT !.preset = preset, !.up = up, !.cred = creds, !.inject = inject,
                                  !.guest = guests, !.allow = allow, !.services = services]
             once == ExpandRoute(r)
         IN  /\ Valid(r, FALSE)
             /\ rtx' = [at |-> "tried", written |-> r, brig |-> once,
                        broker |-> UNION {ExpandRoute(OnTheWire(e)) : e \in once}]
  BY DEF ExpandTry
<1> DEFINE r == [NoRoute EXCEPT !.preset = preset, !.up = up, !.cred = creds, !.inject = inject,
                                !.guest = guests, !.allow = allow, !.services = services]
<1>2. InjectsOK(inject) BY ExpandAssumption DEF IsInject, InjectsOK
<1>3. /\ IsRoute(r) /\ r.preset = preset /\ r.life = "none" /\ r.fromPreset = FALSE /\ r.inject = inject
  BY DEF NoRoute, IsRoute
<1>4. /\ Valid(r, FALSE) /\ rtx'.written = r /\ rtx'.brig = ExpandRoute(r)
      /\ rtx'.broker = UNION {ExpandRoute(OnTheWire(e)) : e \in ExpandRoute(r)}
  BY <1>1
<1> HIDE DEF r
<1>5. Written(r) BY <1>2, <1>3, <1>4 DEF Written
<1>6. ASSUME NEW e \in ExpandRoute(r)
      PROVE  /\ rtx'.broker = ExpandRoute(Bare(r)) /\ Valid(e, TRUE) /\ \A f \in rtx'.broker : Valid(f, TRUE)
             /\ ~Emptied(r) => {Bare(f) : f \in rtx'.broker} = {Bare(e)}
  <2>1. Once(r, e) BY <1>5, OnceMore
  <2>2. {ExpandRoute(OnTheWire(x)) : x \in {e}} = {ExpandRoute(Bare(r))} BY <2>1 DEF Once
  <2>3. rtx'.broker = UNION {ExpandRoute(Bare(r))} BY <1>4, <2>1, <2>2 DEF Once
  <2>4. rtx'.broker = ExpandRoute(Bare(r)) BY <2>3
  <2> QED BY <2>1, <2>4 DEF Once
<1>7. \A e \in rtx'.brig \cup rtx'.broker : Valid(e, TRUE)
  <2>1. \A e \in rtx'.brig : Valid(e, TRUE) BY <1>4, <1>6
  <2>2. CASE ExpandRoute(r) = {} BY <1>4, <2>1, <2>2
  <2>3. CASE ExpandRoute(r) # {} BY <1>6, <2>1, <2>3
  <2> QED BY <2>2, <2>3
<1>8. \A e \in rtx'.brig \cup rtx'.broker : \A in \in e.inject :
        /\ "Authorization" \in in.remove \ UNION in.allow
        /\ ~(in.basic /\ UNION in.set # {})
        /\ e.cred # {} => carriesCredential(in)
  BY <1>7, SentOneWay
<1>9. \A e \in rtx'.brig : /\ rtx'.broker = ExpandRoute(Bare(rtx'.written))
                           /\ ~Emptied(rtx'.written) => {Bare(f) : f \in rtx'.broker} = {Bare(e)}
  BY <1>4, <1>6
<1> QED BY <1>8, <1>9 DEF ExpandsOnce

\* The route that brig expanded from a policy expands to the same document in the
\* broker, which does not know that it was expanded, whatever was overridden of a
\* preset; except for a list of the preset that the policy empties, for which the
\* broker does what it would had the list been left out.  What is served sends its
\* credential one way (presets.go:139-203, route.go:252-264, routevalidate.go:296-430).
THEOREM ExpandsAlike == ExpandSpec => []ExpandsOnce
<1>1. ExpandInit => ExpandsOnce BY DEF ExpandInit, ExpandsOnce
<1>2. ExpandsOnce /\ UNCHANGED rtx => ExpandsOnce' BY DEF ExpandsOnce
<1> QED BY <1>1, <1>2, TriedOnce, PTL DEF ExpandSpec

-----------------------------------------------------------------------------
(* The plan of a run (RunSecrets). *)

SessionSpec == SecretsInit /\ [][\E w : SecretsTry(w)]_sec

-----------------------------------------------------------------------------
\* The smallest of the places of a chain that will do, or 0.
LEMMA Least == ASSUME NEW S \in SUBSET Nat, S # {} PROVE (\E n \in S : \A k \in S : n <= k) /\ Min(S) \in S /\ \A k \in S : Min(S) <= k
<1> DEFINE below == {1..n : n \in S}
           R == StrictSubsetOrdering(Nat)
<1>1. IsWellFoundedOn(R, FiniteSubsetsOf(Nat)) BY FS_StrictSubsetOrderingWellFounded
<1>2. below \subseteq FiniteSubsetsOf(Nat) /\ below # {}
  <2>1. \A n \in S : IsFiniteSet(1..n) /\ 1..n \in SUBSET Nat BY FS_Interval
  <2> QED BY <2>1 DEF FiniteSubsetsOf
<1> HIDE DEF below
<1>3. PICK x \in below : \A y \in below : ~(<<y, x>> \in R) BY <1>1, <1>2, WFMin
<1>4. \E n \in S : \A k \in S : n <= k
  <2>1. PICK n \in S : x = 1..n BY DEF below
  <2>2. ASSUME NEW k \in S, k < n PROVE FALSE
    <3>1. 1..k \subseteq 1..n /\ n \in 1..n /\ n \notin 1..k BY <2>2
    <3>2. 1..k \in SUBSET Nat /\ 1..n \in SUBSET Nat /\ 1..k # 1..n BY <3>1
    <3>3. <<1..k, 1..n>> \in R BY <3>1, <3>2 DEF StrictSubsetOrdering
    <3>4. 1..k \in below BY DEF below
    <3> QED BY <1>3, <2>1, <3>3, <3>4
  <2> QED BY <2>2
<1> QED BY <1>4 DEF Min

LEMMA Residue == ASSUME NEW n \in Nat, NEW x \in 1..(n + 1) PROVE x % (n + 1) = IF x = n + 1 THEN 0 ELSE x
<1>1. CASE x = n + 1 BY <1>1
<1>2. CASE x # n + 1 BY <1>2
<1> QED BY <1>1, <1>2

LEMMA FirstPlace ==
    ASSUME NEW n \in Nat, NEW S \in SUBSET (1..n)
    PROVE  LET m == Min(S \cup {n + 1}) % (n + 1) IN
           /\ m \in 0..n /\ (m = 0 <=> S = {})
           /\ m # 0 => m \in S /\ \A k \in S : m <= k
<1> DEFINE x == Min(S \cup {n + 1})
<1>1. x \in S \cup {n + 1} /\ \A k \in S \cup {n + 1} : x <= k
  <2>1. S \cup {n + 1} \in SUBSET Nat /\ S \cup {n + 1} # {} OBVIOUS
  <2> QED BY <2>1, Least
<1> HIDE DEF x
<1>2. x \in 1..(n + 1) BY <1>1
<1>3. x % (n + 1) = IF x = n + 1 THEN 0 ELSE x BY <1>2, Residue
<1>4. x = n + 1 <=> S = {} BY <1>1
<1> QED BY <1>1, <1>2, <1>3, <1>4 DEF x

LEMMA Positive == \A n \in Nat : \A x \in 0..n : (x > 0) <=> (x # 0)
  OBVIOUS

LEMMA ChainIs ==
    ASSUME NEW refs, IsChain(refs)
    PROVE  /\ Len(refs) \in Nat /\ DOMAIN refs = 1..Len(refs)
           /\ \A k \in DOMAIN refs : refs[k][1] \in {"env", "secrets"}
           /\ refs = <<>> <=> Len(refs) = 0
  BY DEF IsChain

\* The last of some places.
LEMMA Greatest ==
    ASSUME NEW n \in Nat, NEW S \in SUBSET (1..n), S # {} PROVE Max(S) \in S /\ \A k \in S : k <= Max(S)
<1> DEFINE T == {i \in 0..n : n - i \in S}
<1>1. T \in SUBSET Nat OBVIOUS
<1>2. T # {}
  <2>1. PICK k \in S : TRUE OBVIOUS
  <2>2. n - k \in 0..n /\ n - (n - k) = k BY <2>1
  <2> QED BY <2>1, <2>2
<1>3. PICK i \in T : \A j \in T : i <= j BY <1>1, <1>2, Least
<1>4. n - i \in S /\ i \in 0..n BY <1>3
<1>5. ASSUME NEW k \in S PROVE k <= n - i
  <2>1. n - k \in T /\ k \in 1..n BY DEF T
  <2>2. i <= n - k BY <1>3, <2>1
  <2> QED BY <1>4, <2>1, <2>2
<1>6. \E x \in S : \A k \in S : x >= k BY <1>4, <1>5
<1> QED BY <1>6 DEF Max

-----------------------------------------------------------------------------
\* What Load leaves of the declarations and the chains.

Secret(ref) == ref[1] = "secrets"

LEMMA ConfigIs ==
    ASSUME NEW w, IsSession(w)
    PROVE  LET c == Config(w)  b == brokeredSecrets(w) IN
           /\ DOMAIN c.decl = DOMAIN w.decl \ b /\ \A s \in DOMAIN c.decl : c.decl[s] \in {"required", "optional"}
           /\ c.files = w.files \ b /\ c.files \subseteq DOMAIN c.decl /\ DOMAIN c.decl \subseteq DOMAIN w.held
           /\ "" \notin b
           /\ \A v \in DOMAIN c.env :
                /\ IsChain(c.env[v])
                /\ \A k \in DOMAIN c.env[v] : Secret(c.env[v][k]) =>
                     /\ c.env[v][k][2] \in DOMAIN c.decl
                     /\ v \in DOMAIN c.profile /\ c.profile[v] = c.env[v]
<1> DEFINE c == Config(w)
           b == brokeredSecrets(w)
           e == envOverride(w)
<1>1. /\ c.decl = Restrict(w.decl, DOMAIN w.decl \ b) /\ c.files = w.files \ b
      /\ c.env = withoutProjectVar(withRoutes(e, b)) /\ c.profile = withRoutes(w.env, b)
  BY DEF Config
<1>2. "" \notin b BY DEF brokeredSecrets, routesOf, IsSession
<1> HIDE DEF c, b, e
<1>3. DOMAIN c.decl = DOMAIN w.decl \ b /\ \A s \in DOMAIN c.decl : c.decl[s] = w.decl[s] BY <1>1 DEF Restrict
<1>4. c.files \subseteq DOMAIN c.decl /\ DOMAIN c.decl \subseteq DOMAIN w.held BY <1>1, <1>3 DEF IsSession
<1>5. \A v \in DOMAIN c.env : v \in DOMAIN e /\ c.env[v] = e[v] /\ ~namesBrokered(e[v], b)
  BY <1>1 DEF withoutProjectVar, withRoutes, Restrict
<1>6. \A v \in DOMAIN w.env : ~namesBrokered(w.env[v], b) => v \in DOMAIN c.profile /\ c.profile[v] = w.env[v]
  BY <1>1 DEF withRoutes, Restrict
<1>7. ASSUME NEW v \in DOMAIN e
      PROVE  (v \in DOMAIN w.env /\ e[v] = w.env[v]) \/ (v \in w.forward /\ e[v] = <<<<"env", v>>>>)
  <2> DEFINE kept == {u \in DOMAIN w.env : ~(Len(w.env[u]) = 1 /\ w.env[u][1][1] = "env")}
  <2>1. e = IF w.forward = {} THEN w.env
            ELSE [u \in kept \cup w.forward |-> IF u \in kept THEN w.env[u] ELSE <<<<"env", u>>>>]
    BY DEF e, envOverride
  <2>2. kept \subseteq DOMAIN w.env OBVIOUS
  <2> HIDE DEF kept
  <2> QED BY <1>7, <2>1, <2>2
<1>8. ASSUME NEW v \in DOMAIN c.env
      PROVE  /\ IsChain(c.env[v])
             /\ \A k \in DOMAIN c.env[v] : Secret(c.env[v][k]) =>
                  /\ c.env[v][k][2] \in DOMAIN c.decl
                  /\ v \in DOMAIN c.profile /\ c.profile[v] = c.env[v]
  <2>0. v \in DOMAIN e /\ c.env[v] = e[v] /\ ~namesBrokered(e[v], b) BY <1>5
  <2>1. CASE v \in DOMAIN w.env /\ e[v] = w.env[v]
    <3>1. IsChain(c.env[v]) BY <2>0, <2>1 DEF IsSession
    <3>2. ASSUME NEW k \in DOMAIN c.env[v], Secret(c.env[v][k]) PROVE c.env[v][k][2] \in DOMAIN c.decl
      <4>1. c.env[v][k][2] \in DOMAIN w.decl BY <2>0, <2>1, <3>2 DEF IsSession, Secret
      <4>2. c.env[v][k][2] \notin b BY <2>0, <3>2 DEF namesBrokered, Secret
      <4> QED BY <1>3, <4>1, <4>2
    <3>3. v \in DOMAIN c.profile /\ c.profile[v] = c.env[v] BY <1>6, <2>0, <2>1
    <3> QED BY <3>1, <3>2, <3>3
  <2>2. CASE v \in w.forward /\ e[v] = <<<<"env", v>>>>
    <3>1. c.env[v] = <<<<"env", v>>>> /\ v \in STRING BY <2>0, <2>2 DEF IsSession
    <3>2. IsChain(c.env[v]) BY <3>1 DEF IsChain
    <3>3. \A k \in DOMAIN c.env[v] : ~Secret(c.env[v][k]) BY <3>1 DEF Secret
    <3> QED BY <3>2, <3>3
  <2> QED BY <1>7, <2>0, <2>1, <2>2
<1>9. \A s \in DOMAIN c.decl : c.decl[s] \in {"required", "optional"} BY <1>3 DEF IsSession
<1> QED BY <1>1, <1>2, <1>3, <1>4, <1>8, <1>9 DEF c, b

-----------------------------------------------------------------------------
\* The walk of a chain, by the run and by the plan.

Truthful(w) == ~w.open \/ \A s \in DOMAIN w.held : w.held[s] \in {"absent", "held"}

RunHas(refs, w) ==
    {k \in DOMAIN refs : Answered(refs[k], w) \/ (Secret(refs[k]) /\ refs[k][2] \in Read(w) /\ w.held[refs[k][2]] = "held")}
PlanHas(refs, w) == {k \in DOMAIN refs : Answered(refs[k], w) \/ (Secret(refs[k]) /\ stored(refs[k][2], w))}

LEMMA EndsAt ==
    ASSUME NEW w, NEW refs, IsChain(refs)
    PROVE  /\ Source(refs, w) \in 0..Len(refs) /\ (Source(refs, w) = 0 <=> RunHas(refs, w) = {})
           /\ Source(refs, w) # 0 => Source(refs, w) \in RunHas(refs, w) /\ \A k \in RunHas(refs, w) : Source(refs, w) <= k
           /\ ChainEnd(refs, w) \in 0..Len(refs) /\ (ChainEnd(refs, w) = 0 <=> PlanHas(refs, w) = {})
           /\ ChainEnd(refs, w) # 0 => ChainEnd(refs, w) \in PlanHas(refs, w) /\ \A k \in PlanHas(refs, w) : ChainEnd(refs, w) <= k
<1> DEFINE n == Len(refs)
<1>1. n \in Nat /\ DOMAIN refs = 1..n BY ChainIs
<1>2. RunHas(refs, w) \in SUBSET (1..n) /\ PlanHas(refs, w) \in SUBSET (1..n) BY <1>1 DEF RunHas, PlanHas
<1>3. Source(refs, w) = Min(RunHas(refs, w) \cup {n + 1}) % (n + 1) BY DEF Source, RunHas, Secret
<1>4. ChainEnd(refs, w) = Min(PlanHas(refs, w) \cup {n + 1}) % (n + 1) BY DEF ChainEnd, PlanHas, Secret
<1> HIDE DEF n
<1>5. LET m == Source(refs, w) IN m \in 0..n /\ (m = 0 <=> RunHas(refs, w) = {}) /\
          (m # 0 => m \in RunHas(refs, w) /\ \A k \in RunHas(refs, w) : m <= k)
  BY <1>1, <1>2, <1>3, FirstPlace
<1>6. LET m == ChainEnd(refs, w) IN m \in 0..n /\ (m = 0 <=> PlanHas(refs, w) = {}) /\
          (m # 0 => m \in PlanHas(refs, w) /\ \A k \in PlanHas(refs, w) : m <= k)
  <2> DEFINE S == PlanHas(refs, w)
  <2>1. S \in SUBSET (1..n) /\ ChainEnd(refs, w) = Min(S \cup {n + 1}) % (n + 1) BY <1>2, <1>4
  <2> HIDE DEF S
  <2>2. LET m == Min(S \cup {n + 1}) % (n + 1) IN m \in 0..n /\ (m = 0 <=> S = {}) /\ (m # 0 => m \in S /\ \A k \in S : m <= k)
    BY <1>1, <2>1, FirstPlace
  <2> QED BY <2>1, <2>2 DEF S
<1> QED BY <1>5, <1>6 DEF n

\* What is stored is read when it is needed.
LEMMA StoredIsRead ==
    ASSUME NEW w, IsSession(w), NEW s \in DOMAIN Config(w).decl
    PROVE  /\ Listed(w) <=> w.open
           /\ Truthful(w) => (stored(s, w) <=> w.open /\ w.held[s] = "held")
           /\ s \in Read(w) <=> s \in Needed(w) /\ w.open /\ w.held[s] \in {"held", "empty"}
           /\ s \in Read(w) => stored(s, w)
<1>1. Listed(w) <=> w.open BY DEF Listed
<1>2. s \in DOMAIN w.held BY ConfigIs
<1>3. s \in Read(w) <=> s \in Needed(w) /\ w.open /\ w.held[s] \in {"held", "empty"}
  BY DEF Read
<1> QED BY <1>1, <1>2, <1>3 DEF stored, Truthful

LEMMA SameEnd ==
    ASSUME NEW w, IsSession(w), Truthful(w), NEW v \in DOMAIN Config(w).env
    PROVE  Source(Config(w).env[v], w) = ChainEnd(Config(w).env[v], w)
<1> DEFINE c == Config(w)
           refs == c.env[v]
           m == ChainEnd(refs, w)
<1>1. /\ IsChain(refs)
      /\ \A k \in DOMAIN refs : Secret(refs[k]) => refs[k][2] \in DOMAIN c.decl /\ v \in DOMAIN c.profile /\ c.profile[v] = refs
      /\ DOMAIN c.decl \subseteq DOMAIN w.held
  BY ConfigIs
<1>2. DOMAIN refs = 1..Len(refs) /\ Len(refs) \in Nat BY <1>1, ChainIs
<1>3. RunHas(refs, w) \subseteq PlanHas(refs, w)
  <2>1. ASSUME NEW k \in DOMAIN refs, Secret(refs[k]), refs[k][2] \in Read(w) PROVE stored(refs[k][2], w)
    BY <1>1, <2>1, StoredIsRead
  <2> QED BY <2>1 DEF RunHas, PlanHas
<1>4. ASSUME m # 0 PROVE m \in RunHas(refs, w)
  <2>1. m \in PlanHas(refs, w) /\ (\A k \in PlanHas(refs, w) : m <= k) /\ m \in DOMAIN refs /\ m \in 1..Len(refs)
    BY <1>1, <1>2, <1>4, EndsAt DEF PlanHas
  <2> HIDE DEF m
  <2>2. CASE Answered(refs[m], w) BY <2>1, <2>2 DEF RunHas
  <2>3. CASE ~Answered(refs[m], w)
    <3>1. Secret(refs[m]) /\ stored(refs[m][2], w) BY <2>1, <2>3 DEF PlanHas
    <3> DEFINE s == refs[m][2]
    <3>2. s \in DOMAIN c.decl /\ v \in DOMAIN c.profile /\ c.profile[v] = refs BY <1>1, <2>1, <3>1
    <3>3. w.open /\ w.held[s] = "held" BY <3>1, <3>2, StoredIsRead
    <3>4. ~\E j \in 1..(m - 1) : Answered(refs[j], w)
      <4> SUFFICES ASSUME NEW j \in 1..(m - 1), Answered(refs[j], w) PROVE FALSE OBVIOUS
      <4>1. j \in DOMAIN refs /\ j < m BY <1>2, <2>1
      <4>2. j \in PlanHas(refs, w) BY <4>1 DEF PlanHas
      <4> QED BY <2>1, <4>1, <4>2
    <3>5. s \in Needed(w)
      <4>1. s \in {refs[k][2] : k \in {i \in DOMAIN refs : refs[i][1] = "secrets" /\ ~\E j \in 1..(i - 1) : Answered(refs[j], w)}}
        BY <2>1, <3>1, <3>4 DEF Secret
      <4>2. s \in UNION {{c.profile[u][k][2] : k \in {i \in DOMAIN c.profile[u] : c.profile[u][i][1] = "secrets" /\
                                    ~\E j \in 1..(i - 1) : Answered(c.profile[u][j], w)}} : u \in DOMAIN c.profile}
        BY <3>2, <4>1
      <4> QED BY <3>2, <4>2 DEF Needed
    <3>6. s \in Read(w) BY <3>2, <3>3, <3>5, StoredIsRead
    <3> QED BY <2>1, <3>1, <3>3, <3>6 DEF RunHas
  <2> QED BY <2>2, <2>3
<1> DEFINE x == Source(refs, w)
<1>5. x \in 0..Len(refs) /\ (x = 0 <=> RunHas(refs, w) = {}) /\ (x # 0 => x \in RunHas(refs, w) /\ \A k \in RunHas(refs, w) : x <= k)
  BY <1>1, EndsAt
<1>6. m \in 0..Len(refs) /\ (m = 0 <=> PlanHas(refs, w) = {}) /\ (m # 0 => m \in PlanHas(refs, w) /\ \A k \in PlanHas(refs, w) : m <= k)
  BY <1>1, EndsAt
<1> HIDE DEF x, m
<1>7. x = m
  <2>1. CASE m = 0 BY <1>3, <1>5, <1>6, <2>1
  <2>2. CASE m # 0
    <3>1. x # 0 BY <1>4, <1>5, <2>2
    <3>2. x <= m /\ m <= x BY <1>3, <1>4, <1>5, <1>6, <2>2, <3>1
    <3> QED BY <1>2, <1>5, <1>6, <3>2
  <2> QED BY <2>1, <2>2
<1> QED BY <1>7 DEF x, m
-----------------------------------------------------------------------------
\* The rows of a plan, and the variables of a run.

LEMMA RowsAre ==
    ASSUME NEW w
    PROVE  LET c == Config(w) IN
           \A r \in Preview(w) :
             \/ \E v \in DOMAIN c.env : c.env[v] # <<>> /\ r = bindingRow(v, c.env[v], w)
             \/ \E s \in c.files : r = secretRow("file", "file", s, w)
             \/ \E s \in DOMAIN c.decl : c.decl[s] = "required" /\ r = secretRow("", "none", s, w)
  BY DEF Preview

Unmet(r) == r.state \in {"unresolved", "unknown"}
Met(r) == r.state = "resolved"

LEMMA SecretRowIs ==
    ASSUME NEW w, NEW name, NEW delivery, NEW s
    PROVE  LET r == secretRow(name, delivery, s, w) IN
           /\ r.secret = s /\ r.delivery = delivery
           /\ Met(r) <=> stored(s, w)
           /\ Unmet(r) <=> ~stored(s, w)
<1>1. stored(s, w) => Listed(w) BY DEF stored
<1> QED BY <1>1 DEF secretRow, Met, Unmet

\* The row of a required secret that nothing delivers.
LEMMA FreeRowIs ==
    ASSUME NEW w, NEW s
    PROVE  LET r == secretRow("", "none", s, w) IN
           r.secret = s /\ r.delivery = "none" /\ (Met(r) <=> stored(s, w)) /\ (Unmet(r) <=> ~stored(s, w))
<1> DEFINE noname == ""
<1> HIDE DEF noname
<1>1. LET r == secretRow(noname, "none", s, w) IN
      r.secret = s /\ r.delivery = "none" /\ (Met(r) <=> stored(s, w)) /\ (Unmet(r) <=> ~stored(s, w))
  BY SecretRowIs
<1> QED BY <1>1 DEF noname

Bears(refs, end, w) == IF refs[end][1] = "env" THEN w.shell[refs[end][2]] ELSE ""

LEMMA BindingRowIs ==
    ASSUME NEW w, NEW v, NEW refs
    PROVE  LET r == bindingRow(v, refs, w)  end == ChainEnd(refs, w) IN
           /\ r.name = v /\ r.delivery = "env" /\ r.secret = Names(refs, end)
           /\ end > 0 => r.source = refs[end][1]
           /\ Met(r) <=> end > 0 /\ admit(v, Bears(refs, end, w), w)
           /\ Unmet(r) <=> ~(end > 0)
  BY DEF bindingRow, Met, Unmet, Bears

\* A row names a secret of its chain; a stored one exactly when it ends the chain.
LEMMA NamesIs ==
    ASSUME NEW w, NEW refs, IsChain(refs), Names(refs, ChainEnd(refs, w)) # ""
    PROVE  LET s == Names(refs, ChainEnd(refs, w)) IN
           /\ \E k \in DOMAIN refs : Secret(refs[k]) /\ s = refs[k][2]
           /\ stored(s, w) <=> ChainEnd(refs, w) > 0
<1> DEFINE end == ChainEnd(refs, w)
           passed == {k \in DOMAIN refs : refs[k][1] = "secrets" /\ (end = 0 \/ k = end)}
           n == Len(refs)
<1>1. n \in Nat /\ DOMAIN refs = 1..n BY ChainIs
<1>2. end \in 0..n /\ (end = 0 <=> PlanHas(refs, w) = {}) /\ (end # 0 => end \in PlanHas(refs, w)) BY EndsAt
<1>11. end > 0 <=> end # 0
  <2>1. end \in 0..n /\ n \in Nat BY <1>1, <1>2
  <2> HIDE DEF end, n, passed
  <2> QED BY <2>1, Positive
<1>3. Names(refs, end) = IF passed = {} THEN "" ELSE refs[Max(passed)][2] BY DEF Names
<1>4. passed # {} BY <1>3
<1>5. passed \in SUBSET (1..n) BY <1>1
<1> DEFINE k == Max(passed)
<1> HIDE DEF n
<1>6. k \in passed BY <1>1, <1>4, <1>5, Greatest
<1>7. Secret(refs[k]) /\ k \in DOMAIN refs /\ Names(refs, end) = refs[k][2] /\ (end # 0 => k = end)
  BY <1>3, <1>4, <1>6 DEF Secret
<1> HIDE DEF k, end, passed
<1>8. stored(refs[k][2], w) => PlanHas(refs, w) # {} BY <1>7 DEF PlanHas
<1>9. ~Answered(refs[k], w) BY <1>7 DEF Answered, Secret
<1>10. end # 0 => stored(refs[k][2], w) BY <1>2, <1>7, <1>9 DEF PlanHas
<1> QED BY <1>2, <1>7, <1>8, <1>10, <1>11 DEF end

\* A plan warns of a required secret exactly when the run misses one.
LEMMA WarnsOfMissing ==
    ASSUME NEW w, IsSession(w), Truthful(w)
    PROVE  missing(w) # {} <=> Warns(w, Preview(w))
<1> DEFINE c == Config(w)
<1>0. /\ "" \notin DOMAIN c.decl /\ \A v \in DOMAIN c.env : IsChain(c.env[v])
  BY ConfigIs DEF IsSession
<1>1. ASSUME NEW s \in missing(w) PROVE Warns(w, Preview(w))
  <2>1. s \in DOMAIN c.decl /\ c.decl[s] = "required" /\ s \in Needed(w) /\ s \notin Read(w) BY DEF missing, Needed
  <2>2. ~stored(s, w) BY <2>1, StoredIsRead
  <2> SUFFICES \E r \in Preview(w) : Unmet(r) /\ r.secret = s BY <2>1 DEF Warns, Unmet
  <2> DEFINE bound == {bindingRow(v, c.env[v], w) : v \in {u \in DOMAIN c.env : c.env[u] # <<>>}}
             filed == {secretRow("file", "file", t, w) : t \in c.files}
             delivered == {r.secret : r \in bound \cup filed}
  <2>3. Preview(w) = bound \cup filed \cup {secretRow("", "none", t, w) : t \in {u \in DOMAIN c.decl : c.decl[u] = "required"} \ delivered}
    BY DEF Preview
  <2>4. CASE \E r \in bound : r.secret = s
    <3>1. PICK v \in DOMAIN c.env : c.env[v] # <<>> /\ bindingRow(v, c.env[v], w).secret = s BY <2>4
    <3> DEFINE refs == c.env[v]
               r == bindingRow(v, refs, w)
    <3>2. IsChain(refs) BY <1>0
    <3>3. r \in Preview(w) BY <2>3, <3>1
    <3>8. r = bindingRow(v, refs, w) OBVIOUS
    <3>5. r.secret = s BY <3>1
    <3> HIDE DEF refs, r, c, bound, filed, delivered
    <3>4. r.secret = Names(refs, ChainEnd(refs, w)) /\ (Unmet(r) <=> ~(ChainEnd(refs, w) > 0))
      BY <3>2, <3>8, BindingRowIs
    <3>6. s # "" /\ Names(refs, ChainEnd(refs, w)) = s BY <1>0, <2>1, <3>4, <3>5
    <3>7. ~(ChainEnd(refs, w) > 0) BY <2>2, <3>2, <3>6, NamesIs
    <3> QED BY <3>3, <3>4, <3>5, <3>7
  <2>5. CASE \E r \in filed : r.secret = s
    <3>1. PICK t \in c.files : secretRow("file", "file", t, w).secret = s BY <2>5
    <3>2. t = s BY <3>1, SecretRowIs
    <3>3. secretRow("file", "file", s, w) \in Preview(w) BY <2>3, <3>2
    <3> DEFINE r == secretRow("file", "file", s, w)
    <3>4. r.secret = s /\ Unmet(r) BY <2>2, SecretRowIs
    <3> HIDE DEF r, c
    <3>5. r \in Preview(w) BY <3>3 DEF r
    <3> QED BY <3>4, <3>5
  <2>6. CASE s \notin delivered
    <3>1. secretRow("", "none", s, w) \in Preview(w) BY <2>1, <2>3, <2>6
    <3> DEFINE r == secretRow("", "none", s, w)
    <3> HIDE DEF c, bound, filed, delivered
    <3>4. r.secret = s /\ Unmet(r)
      <4>1. r.secret = s /\ (Unmet(r) <=> ~stored(s, w)) BY FreeRowIs
      <4> QED BY <2>2, <4>1
    <3> HIDE DEF r
    <3>5. r \in Preview(w) BY <3>1 DEF r
    <3> QED BY <3>4, <3>5
  <2>7. s \in delivered => (\E r \in bound : r.secret = s) \/ (\E r \in filed : r.secret = s) OBVIOUS
  <2> HIDE DEF delivered, bound, filed, c
  <2> QED BY <2>4, <2>5, <2>6, <2>7
<1>2. ASSUME NEW r \in Preview(w), Unmet(r), r.secret \in DOMAIN c.decl, c.decl[r.secret] = "required"
      PROVE  missing(w) # {}
  <2>1. ~stored(r.secret, w)
    <3>1. CASE \E v \in DOMAIN c.env : c.env[v] # <<>> /\ r = bindingRow(v, c.env[v], w)
      <4>1. PICK v \in DOMAIN c.env : r = bindingRow(v, c.env[v], w) BY <3>1
      <4> DEFINE refs == c.env[v]
      <4>2. IsChain(refs) BY <1>0
      <4>3. r = bindingRow(v, refs, w) BY <4>1
      <4> HIDE DEF refs
      <4>4. r.secret = Names(refs, ChainEnd(refs, w)) /\ ~(ChainEnd(refs, w) > 0) BY <1>2, <4>2, <4>3, BindingRowIs
      <4>5. Names(refs, ChainEnd(refs, w)) # "" BY <1>0, <1>2, <4>4
      <4> QED BY <4>2, <4>4, <4>5, NamesIs
    <3>2. CASE \E s \in c.files : r = secretRow("file", "file", s, w) BY <1>2, <3>2, SecretRowIs
    <3>3. CASE \E s \in DOMAIN c.decl : c.decl[s] = "required" /\ r = secretRow("", "none", s, w)
      <4>1. PICK s \in DOMAIN c.decl : r = secretRow("", "none", s, w) BY <3>3
      <4> QED BY <1>2, <4>1, SecretRowIs
    <3> HIDE DEF c
    <3> QED BY <3>1, <3>2, <3>3, RowsAre DEF c
  <2>2. r.secret \notin Read(w) BY <1>2, <2>1, StoredIsRead
  <2>3. r.secret \in Needed(w) BY <1>2 DEF Needed
  <2> QED BY <1>2, <2>2, <2>3 DEF missing
<1> HIDE DEF c
<1> QED BY <1>1, <1>2 DEF Warns, Unmet, c

-----------------------------------------------------------------------------
\* The variables of the run, each with where its value is from.

From(v, w) ==
    LET refs == Config(w).env[v]  end == Source(refs, w)
    IN  IF refs = <<>> THEN "literal" ELSE IF end = 0 THEN "none" ELSE refs[end][1]
Carries(v, w) ==
    LET refs == Config(w).env[v]  end == Source(refs, w)
    IN  IF From(v, w) = "env" THEN w.shell[refs[end][2]] ELSE "plain"

LEMMA BindIs ==
    ASSUME NEW w
    PROVE  Bind(w) = {<<v, From(v, w)>> : v \in {u \in DOMAIN Config(w).env : From(u, w) # "none" /\ admit(u, Carries(u, w), w)}}
  BY DEF Bind, From, Carries

LEMMA BindHas ==
    ASSUME NEW w, NEW v, NEW from
    PROVE  <<v, from>> \in Bind(w) <=>
             v \in DOMAIN Config(w).env /\ from = From(v, w) /\ from # "none" /\ admit(v, Carries(v, w), w)
  BY BindIs

LEMMA Unlike == ASSUME NEW w, NEW v PROVE admit(v, "plain", w) <=> admit(v, "", w) BY DEF admit

\* The rows that resolve to a variable are the variables that the run binds.
LEMMA RowsBind ==
    ASSUME NEW w, IsSession(w), Truthful(w)
    PROVE  {var \in Bind(w) : var[2] # "literal"} =
             {<<r.name, r.source>> : r \in {x \in Preview(w) : x.delivery = "env" /\ x.state = "resolved"}}
<1> DEFINE c == Config(w)
           rows == {x \in Preview(w) : x.delivery = "env" /\ x.state = "resolved"}
<1>1. ASSUME NEW v \in DOMAIN c.env, c.env[v] # <<>>, NEW r, r = bindingRow(v, c.env[v], w)
      PROVE  /\ Met(r) <=> From(v, w) # "none" /\ admit(v, Carries(v, w), w)
             /\ Met(r) => r.source = From(v, w) /\ From(v, w) # "literal"
             /\ From(v, w) # "literal" /\ r.name = v /\ r.delivery = "env"
  <2> DEFINE refs == c.env[v]
             end == ChainEnd(refs, w)
  <2>1. IsChain(refs) BY ConfigIs
  <2>2. end = Source(refs, w) BY SameEnd
  <2>3. /\ r.name = v /\ r.delivery = "env"
        /\ end > 0 => r.source = refs[end][1]
        /\ Met(r) <=> end > 0 /\ admit(v, Bears(refs, end, w), w)
    <3> DEFINE q == bindingRow(v, refs, w)
    <3>1. /\ q.name = v /\ q.delivery = "env"
          /\ end > 0 => q.source = refs[end][1]
          /\ Met(q) <=> end > 0 /\ admit(v, Bears(refs, end, w), w)
      BY BindingRowIs
    <3>2. r = q BY <1>1
    <3> HIDE DEF q, refs, end
    <3> QED BY <3>1, <3>2
  <2>4. end \in 0..Len(refs) /\ Len(refs) \in Nat /\ DOMAIN refs = 1..Len(refs) /\ \A k \in DOMAIN refs : refs[k][1] \in {"env", "secrets"}
    BY <2>1, EndsAt, ChainIs
  <2>5. From(v, w) = (IF end = 0 THEN "none" ELSE refs[end][1]) /\ Carries(v, w) = (IF From(v, w) = "env" THEN w.shell[refs[end][2]] ELSE "plain")
    BY <1>1, <2>2 DEF From, Carries
  <2> HIDE DEF refs, end
  <2>6. end > 0 <=> end # 0 BY <2>4, Positive
  <2>7. end # 0 => refs[end][1] \in {"env", "secrets"}
    <3>1. end # 0 => end \in 1..Len(refs) BY <2>4
    <3> QED BY <2>4, <3>1
  <2>8. CASE end = 0 BY <2>3, <2>5, <2>6, <2>8
  <2>9. CASE end # 0 /\ refs[end][1] = "env"
    <3>1. Bears(refs, end, w) = Carries(v, w) /\ From(v, w) = "env" BY <2>5, <2>9 DEF Bears
    <3> QED BY <2>3, <2>5, <2>6, <2>9, <3>1
  <2>10. CASE end # 0 /\ refs[end][1] = "secrets"
    <3>1. Bears(refs, end, w) = "" /\ Carries(v, w) = "plain" /\ From(v, w) = "secrets" BY <2>5, <2>10 DEF Bears
    <3> QED BY <2>3, <2>5, <2>6, <2>10, <3>1, Unlike
  <2> QED BY <2>7, <2>8, <2>9, <2>10
<1>2. ASSUME NEW var \in Bind(w), var[2] # "literal" PROVE var \in {<<r.name, r.source>> : r \in rows}
  <2>1. PICK v \in DOMAIN c.env : var = <<v, From(v, w)>> /\ From(v, w) # "none" /\ admit(v, Carries(v, w), w)
    BY BindIs
  <2>2. c.env[v] # <<>> BY <1>2, <2>1 DEF From
  <2> DEFINE r == bindingRow(v, c.env[v], w)
  <2>3. r \in Preview(w) BY <2>2 DEF Preview
  <2>4. Met(r) /\ r.source = From(v, w) /\ r.name = v /\ r.delivery = "env" BY <1>1, <2>1, <2>2
  <2> HIDE DEF r
  <2>5. r \in rows /\ var = <<r.name, r.source>> BY <2>1, <2>3, <2>4 DEF Met
  <2> QED BY <2>5
<1>3. ASSUME NEW r \in rows PROVE <<r.name, r.source>> \in Bind(w) /\ r.source # "literal"
  <2>1. \E v \in DOMAIN c.env : c.env[v] # <<>> /\ r = bindingRow(v, c.env[v], w)
    <3>1. \A s : secretRow("file", "file", s, w).delivery = "file" BY SecretRowIs
    <3>3. \A s : secretRow("", "none", s, w).delivery = "none" BY FreeRowIs
    <3>2. r \in Preview(w) /\ r.delivery = "env" OBVIOUS
    <3> HIDE DEF rows
    <3> QED BY <3>1, <3>2, <3>3, RowsAre
  <2>2. PICK v \in DOMAIN c.env : c.env[v] # <<>> /\ r = bindingRow(v, c.env[v], w) BY <2>1
  <2>3. Met(r) BY DEF Met
  <2> HIDE DEF rows
  <2>4. r.name = v /\ r.source = From(v, w) /\ From(v, w) # "literal" /\ From(v, w) # "none" /\ admit(v, Carries(v, w), w)
    BY <1>1, <2>2, <2>3
  <2> QED BY <2>4, BindHas
<1>4. {var \in Bind(w) : var[2] # "literal"} \subseteq {<<r.name, r.source>> : r \in rows} BY <1>2
<1>5. {<<r.name, r.source>> : r \in rows} \subseteq {var \in Bind(w) : var[2] # "literal"}
  <2>1. \A r \in rows : <<r.name, r.source>>[2] = r.source OBVIOUS
  <2> HIDE DEF rows
  <2> QED BY <1>3, <2>1
<1> HIDE DEF rows
<1>6. {var \in Bind(w) : var[2] # "literal"} = {<<r.name, r.source>> : r \in rows} BY <1>4, <1>5
<1> QED BY <1>6 DEF rows

\* What of it is seen on the command line of the runtime.
LEMMA ArgvForetold ==
    ASSUME NEW w, IsSession(w), Truthful(w)
    PROVE  planArgvExposed(w) = {var \in inArgv(w) : var[1] \notin runtimeReads}
<1> DEFINE c == Config(w)
           literals == {v \in DOMAIN c.env : c.env[v] = <<>> /\ (v \notin w.deny \/ "denied" \in w.allow)}
           rows == {<<r.name, r.source>> : r \in {x \in Preview(w) : x.delivery = "env" /\ x.state = "resolved"}}
           lits == {<<v, "literal">> : v \in literals}
<1>1. planArgvExposed(w) = {var \in lits \cup rows : hatchExposes(w, var)} BY DEF planArgvExposed
<1>2. rows = {var \in Bind(w) : var[2] # "literal"} BY RowsBind
<1>3. lits = {var \in Bind(w) : var[2] = "literal"}
  <2>1. ASSUME NEW v \in literals PROVE <<v, "literal">> \in Bind(w)
    <3>1. From(v, w) = "literal" /\ Carries(v, w) = "plain" BY DEF From, Carries
    <3>2. admit(v, "plain", w) BY DEF admit
    <3> QED BY <3>1, <3>2, BindHas
  <2>2. ASSUME NEW var \in Bind(w), var[2] = "literal" PROVE var \in lits
    <3>1. PICK v \in DOMAIN c.env : var = <<v, From(v, w)>> /\ From(v, w) # "none" /\ admit(v, Carries(v, w), w)
      BY BindIs
    <3>2. From(v, w) = "literal" BY <2>2, <3>1
    <3>3. c.env[v] = <<>>
      <4>1. SUFFICES ASSUME c.env[v] # <<>> PROVE FALSE OBVIOUS
      <4> DEFINE refs == c.env[v]
                 end == Source(refs, w)
      <4>2. IsChain(refs) BY ConfigIs
      <4>3. end \in 0..Len(refs) /\ Len(refs) \in Nat /\ DOMAIN refs = 1..Len(refs) /\ \A k \in DOMAIN refs : refs[k][1] \in {"env", "secrets"}
        BY <4>2, EndsAt, ChainIs
      <4>4. From(v, w) = IF end = 0 THEN "none" ELSE refs[end][1] BY <4>1 DEF From
      <4> HIDE DEF refs, end
      <4>5. end # 0 => end \in 1..Len(refs) BY <4>3
      <4>6. end # 0 => refs[end][1] \in {"env", "secrets"} BY <4>3, <4>5
      <4> QED BY <3>2, <4>4, <4>6
    <3>4. v \in literals BY <3>1, <3>3 DEF admit
    <3> QED BY <3>1, <3>2, <3>4
  <2>3. \A v \in literals : <<v, "literal">>[2] = "literal" OBVIOUS
  <2>4. \A x \in lits : \E v \in literals : x = <<v, "literal">> OBVIOUS
  <2> HIDE DEF literals, lits
  <2>5. \A x \in lits : x \in Bind(w) /\ x[2] = "literal" BY <2>1, <2>3, <2>4
  <2> QED BY <2>2, <2>5
<1> HIDE DEF lits, rows
<1>4. lits \cup rows = Bind(w) BY <1>2, <1>3
<1>5. \A var : hatchExposes(w, var) => var[1] \notin runtimeReads BY DEF hatchExposes
<1> QED BY <1>1, <1>4, <1>5 DEF inArgv

\* The files that the run writes are the rows of a file that resolve.
LEMMA FilesForetold ==
    ASSUME NEW w, IsSession(w), Truthful(w)
    PROVE  Config(w).files \cap Read(w) =
             {r.secret : r \in {x \in Preview(w) : x.delivery = "file" /\ x.state = "resolved"}}
<1> DEFINE c == Config(w)
           rows == {x \in Preview(w) : x.delivery = "file" /\ x.state = "resolved"}
<1>1. ASSUME NEW s \in c.files PROVE s \in DOMAIN c.decl /\ s \in Needed(w) /\ (s \in Read(w) <=> stored(s, w))
  <2>1. s \in DOMAIN c.decl BY ConfigIs
  <2>2. s \in Needed(w) BY <2>1 DEF Needed
  <2>3. s \in Read(w) => stored(s, w) BY <2>1, StoredIsRead
  <2>4. stored(s, w) => w.open /\ w.held[s] = "held" BY <2>1, StoredIsRead
  <2>5. w.open /\ w.held[s] = "held" => s \in Read(w) BY <2>1, <2>2, StoredIsRead
  <2> QED BY <2>1, <2>2, <2>3, <2>4, <2>5
<1>2. ASSUME NEW s \in c.files, s \in Read(w) PROVE \E r \in rows : r.secret = s
  <2> DEFINE r == secretRow("file", "file", s, w)
  <2>1. r \in Preview(w) BY DEF Preview
  <2>2. r.secret = s /\ r.delivery = "file" /\ (Met(r) <=> stored(s, w)) BY SecretRowIs
  <2>3. stored(s, w) BY <1>1, <1>2
  <2> HIDE DEF r, c
  <2>4. r \in rows BY <2>1, <2>2, <2>3 DEF Met
  <2> QED BY <2>2, <2>4
<1>3. ASSUME NEW r \in rows PROVE r.secret \in c.files /\ r.secret \in Read(w)
  <2>1. r \in Preview(w) /\ r.delivery = "file" /\ Met(r) BY DEF Met
  <2>2. \A v : bindingRow(v, c.env[v], w).delivery = "env" BY BindingRowIs
  <2>3. \A s : secretRow("", "none", s, w).delivery = "none" BY FreeRowIs
  <2>4. \E s \in c.files : r = secretRow("file", "file", s, w)
    <3> HIDE DEF rows
    <3> QED BY <2>1, <2>2, <2>3, RowsAre
  <2>5. PICK s \in c.files : r = secretRow("file", "file", s, w) BY <2>4
  <2> DEFINE q == secretRow("file", "file", s, w)
  <2>6. q.secret = s /\ (Met(q) <=> stored(s, w)) BY SecretRowIs
  <2>7. r = q BY <2>5
  <2> HIDE DEF q, rows, c
  <2> QED BY <1>1, <2>1, <2>6, <2>7
<1>4. \A s \in {r.secret : r \in rows} : \E r \in rows : s = r.secret OBVIOUS
<1>5. \A r \in rows : r.secret \in {q.secret : q \in rows} OBVIOUS
<1> DEFINE shown == {r.secret : r \in rows}
<1> HIDE DEF rows, shown
<1>6. c.files \cap Read(w) = shown BY <1>2, <1>3, <1>4, <1>5 DEF shown
<1> QED BY <1>6 DEF shown, rows

\* No injected secret is read, nor named by a row.
LEMMA InjectedAreNotRead ==
    ASSUME NEW w, IsSession(w)
    PROVE  /\ brokeredSecrets(w) \cap Needed(w) = {}
           /\ brokeredSecrets(w) \cap Config(w).files = {}
           /\ brokeredSecrets(w) \cap {r.secret : r \in Preview(w)} = {}
<1> DEFINE c == Config(w)
           b == brokeredSecrets(w)
<1>1. /\ DOMAIN c.decl = DOMAIN w.decl \ b /\ c.files = w.files \ b /\ c.files \subseteq DOMAIN c.decl /\ "" \notin b
      /\ \A v \in DOMAIN c.env :
           IsChain(c.env[v]) /\ \A k \in DOMAIN c.env[v] : Secret(c.env[v][k]) => c.env[v][k][2] \in DOMAIN c.decl
  BY ConfigIs
<1>2. Needed(w) \subseteq DOMAIN c.decl BY DEF Needed
<1>3. ASSUME NEW r \in Preview(w) PROVE r.secret \notin b
  <2>1. CASE \E v \in DOMAIN c.env : r = bindingRow(v, c.env[v], w)
    <3>1. PICK v \in DOMAIN c.env : r = bindingRow(v, c.env[v], w) BY <2>1
    <3> DEFINE refs == c.env[v]
               q == bindingRow(v, refs, w)
    <3>2. q.secret = Names(refs, ChainEnd(refs, w)) /\ r = q BY <3>1, BindingRowIs
    <3>3. IsChain(refs) /\ \A k \in DOMAIN refs : Secret(refs[k]) => refs[k][2] \in DOMAIN c.decl BY <1>1
    <3> HIDE DEF q, refs, c
    <3>4. r.secret # "" => r.secret \in DOMAIN c.decl BY <3>2, <3>3, NamesIs
    <3> QED BY <1>1, <3>4
  <2>2. CASE \E s \in c.files : r = secretRow("file", "file", s, w)
    <3>1. PICK s \in c.files : r = secretRow("file", "file", s, w) BY <2>2
    <3>2. secretRow("file", "file", s, w).secret = s BY SecretRowIs
    <3> HIDE DEF c
    <3> QED BY <1>1, <3>1, <3>2
  <2>3. CASE \E s \in DOMAIN c.decl : r = secretRow("", "none", s, w)
    <3>1. PICK s \in DOMAIN c.decl : r = secretRow("", "none", s, w) BY <2>3
    <3>2. secretRow("", "none", s, w).secret = s BY FreeRowIs
    <3> HIDE DEF c
    <3> QED BY <1>1, <3>1, <3>2
  <2> QED BY <2>1, <2>2, <2>3, RowsAre
<1> HIDE DEF c, b
<1>4. b \cap {r.secret : r \in Preview(w)} = {} BY <1>3
<1> QED BY <1>1, <1>2, <1>4 DEF b, c

-----------------------------------------------------------------------------
\* What holds of every session that was tried.
Tried == sec = <<>> \/ \E w : IsSession(w) /\ sec = <<w, Plan(w), Run(w)>>

LEMMA TriedForetells == ASSUME Tried PROVE PlanForetells
<1> SUFFICES ASSUME sec # <<>> PROVE PlanForetells BY DEF PlanForetells
<1>1. PICK w : IsSession(w) /\ sec = <<w, Plan(w), Run(w)>> BY DEF Tried
<1> DEFINE plan == Plan(w)
           run == Run(w)
           resolved(d) == {r \in plan.rows : r.delivery = d /\ r.state = "resolved"}
<1>2. sec[1] = w /\ sec[2] = plan /\ sec[3] = run BY <1>1
<1>3. plan.rows = Preview(w) /\ plan.argv = planArgvExposed(w) /\ (plan.refused <=> routeRefusal(w) \/ routeStoreRefusal(w)) BY DEF Plan
<1>4. /\ run.refused <=> missing(w) # {} \/ routeRefusal(w) \/ routeStoreRefusal(w) \/ splitEnvRefusal(w)
      /\ run.vars = IF run.refused THEN {} ELSE Bind(w)
      /\ run.files = IF run.refused THEN {} ELSE Config(w).files \cap Read(w)
      /\ run.argv = IF run.refused THEN {} ELSE inArgv(w)
  BY DEF Run
<1> HIDE DEF plan, run
<1>5. Truthful(w) => (run.refused <=> plan.refused \/ Warns(w, plan.rows) \/ splitEnvRefusal(w))
  BY <1>1, <1>3, <1>4, WarnsOfMissing
<1>6. ASSUME Truthful(w), ~run.refused
      PROVE  /\ {var \in run.vars : var[2] # "literal"} = {<<r.name, r.source>> : r \in resolved("env")}
             /\ run.files = {r.secret : r \in resolved("file")}
             /\ plan.argv = {var \in run.argv : var[1] \notin runtimeReads}
  <2>1. run.vars = Bind(w) /\ run.files = Config(w).files \cap Read(w) /\ run.argv = inArgv(w) BY <1>4, <1>6
  <2>2. {var \in run.vars : var[2] # "literal"} = {<<r.name, r.source>> : r \in resolved("env")}
    BY <1>1, <1>3, <1>6, <2>1, RowsBind
  <2>3. run.files = {r.secret : r \in resolved("file")} BY <1>1, <1>3, <1>6, <2>1, FilesForetold
  <2>4. plan.argv = {var \in run.argv : var[1] \notin runtimeReads} BY <1>1, <1>3, <1>6, <2>1, ArgvForetold
  <2> QED BY <2>2, <2>3, <2>4
<1>7. brokeredSecrets(w) \cap (Needed(w) \cup run.files \cup {r.secret : r \in plan.rows}) = {}
  <2>1. run.files \subseteq Config(w).files BY <1>4
  <2>2. brokeredSecrets(w) \cap {r.secret : r \in plan.rows} = {} BY <1>1, <1>3, InjectedAreNotRead
  <2> QED BY <1>1, <2>1, <2>2, InjectedAreNotRead
<1>8. \A var \in run.argv : var[2] # "secrets" BY <1>4 DEF inArgv, hatchExposes
<1> QED BY <1>2, <1>5, <1>6, <1>7, <1>8 DEF PlanForetells, Truthful

\* `brig plan` foretells the run for every session that a valid profile makes, with
\* chains of any length: whether it is refused, and else its variables and their
\* sources, its files and what is seen on the command line.  An injected secret is read
\* for nothing, and no stored value is on the command line (preview.go:83-181,
\* resolve.go:180-268, bind.go:25-140, routes.go:433-496).
THEOREM PlanIsRun == SessionSpec => []PlanForetells
<1>1. SecretsInit => Tried BY DEF SecretsInit, Tried
<1>2. Tried /\ [\E w : SecretsTry(w)]_sec => Tried'
  <2> SUFFICES ASSUME Tried, [\E w : SecretsTry(w)]_sec PROVE Tried' OBVIOUS
  <2>1. CASE \E w : SecretsTry(w)
    <3>1. PICK w : SecretsTry(w) BY <2>1
    <3>2. IsSession(w) /\ sec' = <<w, Plan(w), Run(w)>> BY <3>1 DEF SecretsTry
    <3> QED BY <3>2 DEF Tried
  <2>2. CASE UNCHANGED sec BY <2>2 DEF Tried
  <2> QED BY <2>1, <2>2
<1>3. Tried => PlanForetells BY TriedForetells
<1> QED BY <1>1, <1>2, <1>3, PTL DEF SessionSpec

=============================================================================
