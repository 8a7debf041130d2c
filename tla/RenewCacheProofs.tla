--------------------------- MODULE RenewCacheProofs ---------------------------
(***************************************************************************)
(* What TLAPS proves of RenewCache, for any set of processes and any       *)
(* number of documents: the types; that no cache sends a document twice or *)
(* serves one it has replaced; and, unless an import lands between flush's *)
(* read and its writes, that the one valid pair of a login is never        *)
(* dropped, that no replaced refresh token is sent and that no write-back  *)
(* overwrites what somebody else stored.                                   *)
(*                                                                         *)
(* The argument is an invariant of the running cache's entry against the   *)
(* store: which journal the entry's step speaks of, what the provider did  *)
(* with the stored document, and what each label adds (RunOK); and one of  *)
(* where the valid document is (HeadOK).  A step that leaves the store     *)
(* alone is Moves; the others are taken one by one.                        *)
(***************************************************************************)
EXTENDS RenewCache, TLAPS

Consts == Nobody \notin Procs /\ MaxDocs \in Nat \ {0}
            /\ ImportRaces \in BOOLEAN

Steps == {"none", "started", "renewed", "clear"}

(* The part of the type invariant that an operation's control keeps. *)
CtlOK == e \in [Procs -> EntrySet] /\ pc \in [Procs -> Labels] /\ op \in [Procs -> OpSet]

-----------------------------------------------------------------------------
(* The entry's operators map entries to entries *)

(* A cleared or replaced entry (entry.reset) is an entry. *)
LEMMA ResetType ==
    ASSUME NEW r \in EntrySet, NEW d \in 0..MaxDocs, NEW l \in Lives
    PROVE  reset(r, d, l) \in EntrySet
  BY DEF reset, EntrySet, Lives, Timers

(* What a store read makes of an entry (reconcileLocked) is an entry. *)
LEMMA ReconcileType ==
    ASSUME NEW r \in EntrySet, NEW v \in (0..MaxDocs) \cup {Junk}, NEW l \in Lives, Consts
    PROVE  reconcileLocked(r, v, l) \in EntrySet
<1>1. CASE r.doc # NoDoc /\ v \in {r.stored, r.doc}
  BY <1>1 DEF reconcileLocked, EntrySet
<1>2. CASE ~(r.doc # NoDoc /\ v \in {r.stored, r.doc}) /\ v = Junk
  <2>1. reset(r, NoDoc, "fresh") \in EntrySet
    BY ResetType DEF NoDoc, Lives, Consts
  <2> QED BY <1>2, <2>1 DEF reconcileLocked
<1>3. CASE ~(r.doc # NoDoc /\ v \in {r.stored, r.doc}) /\ v # Junk
  <2>1. reset(r, v, l) \in EntrySet
    BY <1>3, ResetType
  <2> QED BY <1>3, <2>1 DEF reconcileLocked
<1> QED BY <1>1, <1>2, <1>3

(* A recorded failure, a failed write and a settled journal keep the type. *)
LEMMA MarksType ==
    ASSUME NEW r \in EntrySet
    PROVE  /\ failed(r, "renewal") \in EntrySet /\ failed(r, "unread") \in EntrySet
           /\ writeFailed(r) \in EntrySet
           /\ \A b \in BOOLEAN : settled(r, b) \in EntrySet
           /\ \A s \in Steps : journalAt(r, s) \in EntrySet
           /\ [r EXCEPT !.checked = TRUE] \in EntrySet
           /\ [r EXCEPT !.cooling = @ \cup {"recover"}] \in EntrySet
<1>1. failed(r, "renewal") \in EntrySet /\ failed(r, "unread") \in EntrySet
  BY DEF failed, EntrySet, Timers
<1>2. writeFailed(r) \in EntrySet
  BY DEF writeFailed, EntrySet, Timers
<1>3. ASSUME NEW b \in BOOLEAN PROVE settled(r, b) \in EntrySet
  BY DEF settled, EntrySet, Timers
<1>4. ASSUME NEW s \in Steps PROVE journalAt(r, s) \in EntrySet
  <2>1. r.from \in 0..MaxDocs /\ NoDoc \in 0..MaxDocs
    BY MaxDocsAssumption DEF EntrySet, NoDoc
  <2> QED BY <2>1 DEF journalAt, EntrySet, Steps
<1>5. [r EXCEPT !.checked = TRUE] \in EntrySet
  BY DEF EntrySet
<1>6. [r EXCEPT !.cooling = @ \cup {"recover"}] \in EntrySet
  BY DEF EntrySet, Timers
<1> QED BY <1>1, <1>2, <1>3, <1>4, <1>5, <1>6

(* Time that passes leads from an entry to entries. *)
LEMMA AgedType ==
    ASSUME NEW r \in EntrySet
    PROVE  /\ cooled(r) \subseteq EntrySet
           /\ \A k \in BOOLEAN, l \in {r.life, "due"} : aged(r, k, l) \in EntrySet
<1>1. ASSUME NEW c \in SUBSET r.cooling PROVE [r EXCEPT !.cooling = c] \in EntrySet
  BY DEF EntrySet, Timers
<1>2. cooled(r) \subseteq EntrySet
  BY <1>1 DEF cooled
<1>3. ASSUME NEW k \in BOOLEAN, NEW l \in Lives
      PROVE [r EXCEPT !.checked = k, !.life = l] \in EntrySet
  BY DEF EntrySet
<1>4. r.checked \in BOOLEAN /\ r.life \in Lives /\ "due" \in Lives
  BY DEF EntrySet, Lives
<1> QED BY <1>2, <1>3, <1>4 DEF aged

(* What a stopped process's journal makes of the entry is an entry. *)
LEMMA SettleType ==
    ASSUME NEW r \in EntrySet, NEW j \in JournalSet, NEW v
    PROVE  settle(r, j, v) \in EntrySet
<1>1. journalAt(r, "clear") \in EntrySet /\ journalAt(r, "renewed") \in EntrySet
  BY MarksType DEF Steps
<1>2. [journalAt(r, "clear") EXCEPT !.suspect = TRUE] \in EntrySet
  BY <1>1 DEF EntrySet
<1>3. [journalAt(r, "renewed") EXCEPT !.doc = j.doc, !.life = "fresh", !.failure = "none",
                                     !.spent = FALSE, !.cooling = @ \ {"fail"}] \in EntrySet
  <2> DEFINE w == journalAt(r, "renewed")
  <2> j.doc \in 0..MaxDocs BY DEF JournalSet
  <2> w \in EntrySet BY <1>1
  <2> HIDE DEF w
  <2>1. [w EXCEPT !.doc = j.doc, !.life = "fresh", !.failure = "none",
                  !.spent = FALSE, !.cooling = @ \ {"fail"}] \in EntrySet
    BY DEF EntrySet, Lives, Timers
  <2> QED BY <2>1 DEF w
<1> QED BY <1>1, <1>2, <1>3 DEF settle

(* What a write that landed makes of the entry is an entry. *)
LEMMA SteppedType ==
    ASSUME NEW r \in EntrySet
    PROVE  stepOf(r) \in Steps /\ \A s \in Steps : stepped(r, s) \in EntrySet
<1>1. stepOf(r) \in Steps
  BY DEF stepOf, EntrySet, Steps
<1>2. ASSUME NEW s \in Steps PROVE stepped(r, s) \in EntrySet
  <2> DEFINE w == [r EXCEPT !.cooling = @ \ {"write"}]
  <2>1. w \in EntrySet BY DEF EntrySet, Timers
  <2>2. \A t \in Steps : journalAt(w, t) \in EntrySet
    BY <2>1, MarksType
  <2>3. ASSUME NEW t \in Steps PROVE [journalAt(w, t) EXCEPT !.stored = r.doc] \in EntrySet
    <3>1. r.doc \in 0..MaxDocs BY DEF EntrySet
    <3> DEFINE x == journalAt(w, t)
    <3>2. x \in EntrySet BY <2>2
    <3> HIDE DEF x
    <3>3. [x EXCEPT !.stored = r.doc] \in EntrySet
      BY <3>1, <3>2 DEF EntrySet
    <3> QED BY <3>3 DEF x
  <2>4. "clear" \in Steps /\ "renewed" \in Steps /\ "none" \in Steps
    BY DEF Steps
  <2> QED BY <2>2, <2>3, <2>4 DEF stepped
<1> QED BY <1>1, <1>2

-----------------------------------------------------------------------------
(* Control keeps the type *)

LEMMA GotoType ==
    ASSUME CtlOK, NEW p \in Procs, NEW label \in Labels, NEW r \in EntrySet,
           NEW o \in OpSet, Goto(p, label, r, o)
    PROVE  CtlOK'
  BY DEF CtlOK, Goto

LEMMA NoOpType ==
    /\ NoOp \in OpSet
    /\ \A k \in {"resolve", "force", "recover"} : [NoOp EXCEPT !.kind = k] \in OpSet
    /\ \A a \in {"exists", "renew"} : [NoOp EXCEPT !.at = a] \in OpSet
<1>1. NoOp \in OpSet
  BY MaxDocsAssumption DEF NoOp, OpSet, NoDoc
<1>2. ASSUME NEW o \in OpSet, NEW k \in {"resolve", "force", "recover"}
      PROVE  [o EXCEPT !.kind = k] \in OpSet
  BY DEF OpSet
<1>3. ASSUME NEW o \in OpSet, NEW a \in {"exists", "renew"}
      PROVE  [o EXCEPT !.at = a] \in OpSet
  BY DEF OpSet
<1> QED BY <1>1, <1>2, <1>3

LEMMA ReturnType ==
    ASSUME CtlOK, NEW p \in Procs, NEW r \in EntrySet, Return(p, r)
    PROVE  CtlOK'
<1> "idle" \in Labels BY DEF Labels
<1> QED BY GotoType, NoOpType DEF Return

LEMMA FlushDoneType ==
    ASSUME CtlOK, NEW p \in Procs, NEW r \in EntrySet, NEW o \in OpSet,
           FlushDone(p, r, o)
    PROVE  CtlOK'
<1>1. "create" \in Labels /\ "reread" \in Labels
  BY DEF Labels
<1>2. lifted(r, o) \in EntrySet
  BY DEF lifted, EntrySet, Timers
<1>3. \E r1 \in {r, lifted(r, o)} : \/ Return(p, r1)
                                   \/ Goto(p, "create", r1, NoOp)
                                   \/ Goto(p, "reread", r1, NoOp)
  BY DEF FlushDone
<1> QED BY <1>1, <1>2, <1>3, ReturnType, GotoType, NoOpType

LEMMA FlushType ==
    ASSUME CtlOK, NEW p \in Procs, NEW r \in EntrySet, NEW o \in OpSet, Flush(p, r, o)
    PROVE  CtlOK'
<1> "flush" \in Labels BY DEF Labels
<1> QED BY GotoType, FlushDoneType DEF Flush

LEMMA RecoverDoneType ==
    ASSUME CtlOK, NEW p \in Procs, NEW r \in EntrySet, NEW o \in OpSet,
           RecoverDone(p, r, o)
    PROVE  CtlOK'
<1> "sync" \in Labels BY DEF Labels
<1>1. Return(p, failed(r, "renewal")) \/ Goto(p, "sync", r, o) \/ Flush(p, r, o)
  BY DEF RecoverDone
<1> QED BY <1>1, GotoType, FlushType, ReturnType, MarksType

-----------------------------------------------------------------------------
(* Every action keeps the type invariant *)

LEMMA InitType == Init => TypeOK
<1> SUFFICES ASSUME Init PROVE TypeOK
  OBVIOUS
<1>1. NewEntry \in EntrySet
  BY MaxDocsAssumption DEF NewEntry, EntrySet, NoDoc, Lives, Timers
<1>2. NoJournal \in JournalSet
  BY MaxDocsAssumption DEF NoJournal, JournalSet, NoDoc
<1>3. "idle" \in Labels
  BY DEF Labels
<1>4. NoOp \in OpSet
  BY NoOpType
<1>5. 1 \in 0..MaxDocs /\ 1 \in Docs
  BY MaxDocsAssumption DEF Docs
<1> QED BY <1>1, <1>2, <1>3, <1>4, <1>5 DEF Init, TypeOK

(* The steps of a running operation, each from its label. *)
LEMMA RequestType ==
    ASSUME TypeOK, NEW p \in Procs, Request(p)
    PROVE  CtlOK'
<1>1. CtlOK /\ e[p] \in EntrySet
  BY DEF TypeOK, CtlOK
<1>2. "recover" \in Labels
  BY DEF Labels
<1>3. CASE Resolve(p)
  <2>1. PICK w \in cooled(e[p]), k \in BOOLEAN, l \in {e[p].life, "due"} :
           LET r == aged(w, k, l)
               o == [NoOp EXCEPT !.kind = "resolve"] IN
           Goto(p, "recover", r, o) \/ RecoverDone(p, r, o)
    BY <1>3 DEF Resolve
  <2>2. w \in EntrySet /\ w.life = e[p].life
    BY <1>1, AgedType DEF cooled, EntrySet
  <2>3. aged(w, k, l) \in EntrySet
    BY <2>2, AgedType
  <2> QED BY <1>1, <1>2, <2>1, <2>3, GotoType, RecoverDoneType, NoOpType
<1>4. CASE ForceRenew(p)
  <2>1. PICK r \in cooled(e[p]), d \in {e[p].doc, NoDoc} :
           LET o == [NoOp EXCEPT !.kind = "force", !.stale = d] IN
           Goto(p, "recover", r, o) \/ RecoverDone(p, r, o)
    BY <1>4 DEF ForceRenew
  <2>2. r \in EntrySet
    BY <1>1, AgedType
  <2>3. d \in 0..MaxDocs
    BY <1>1, MaxDocsAssumption DEF EntrySet, NoDoc
  <2>4. [NoOp EXCEPT !.kind = "force", !.stale = d] \in OpSet
    BY <2>3 DEF NoOp, OpSet
  <2> QED BY <1>1, <1>2, <2>1, <2>2, <2>4, GotoType, RecoverDoneType
<1>5. CASE Recover(p)
  <2>1. PICK r \in cooled(e[p]) : Goto(p, "recover", r, [NoOp EXCEPT !.kind = "recover"])
    BY <1>5 DEF Recover
  <2> QED BY <1>1, <1>2, <2>1, AgedType, GotoType, NoOpType
<1> QED BY <1>3, <1>4, <1>5 DEF Request

(* Reads take the entry to an entry, whatever the store holds. *)
LEMMA ReadType ==
    ASSUME TypeOK, NEW p \in Procs, Read(p)
    PROVE  CtlOK' /\ jr' \in [Procs -> JournalSet]
<1> USE DEF Labels
<1>1. /\ CtlOK /\ e[p] \in EntrySet /\ op[p] \in OpSet
      /\ secret \in (0..MaxDocs) \cup {Junk} /\ journal \in JournalSet
      /\ jr \in [Procs -> JournalSet] /\ jr[p] \in JournalSet
      /\ NoDoc \in 0..MaxDocs /\ "fresh" \in Lives /\ Consts
  BY ProcsAssumption, MaxDocsAssumption, RacesAssumption
  DEF TypeOK, CtlOK, NoDoc, Lives, Consts
<1>2. NoJournal \in JournalSet
  BY MaxDocsAssumption DEF NoJournal, JournalSet, NoDoc
<1>3. reset(e[p], NoDoc, "fresh") \in EntrySet
  BY <1>1, ResetType
<1>4. \A life \in Lives : reconcileLocked(e[p], secret, life) \in EntrySet
  BY <1>1, ReconcileType
<1>5. settled(e[p], FALSE) \in EntrySet /\ settled(e[p], TRUE) \in EntrySet
  BY <1>1, MarksType
<1>6. NoOp \in OpSet
  BY NoOpType
<1>7. CASE readJournalOk(p)
  <2> DEFINE r == settled(e[p], FALSE)
             x == journalAt(r, IF r.journal = "none" THEN "clear" ELSE r.journal)
  <2>1. x \in EntrySet
    <3>1. (IF r.journal = "none" THEN "clear" ELSE r.journal) \in Steps
      BY <1>5 DEF EntrySet, Steps
    <3> QED BY <1>5, <3>1, MarksType
  <2>2. jr' \in [Procs -> JournalSet]
    BY <1>1, <1>7 DEF readJournalOk
  <2>3. \/ \E y \in {r, x, settled(e[p], TRUE)} : RecoverDone(p, y, op[p])
        \/ Goto(p, "settle", e[p], op[p])
    BY <1>7 DEF readJournalOk
  <2> QED BY <1>1, <1>5, <2>1, <2>2, <2>3, RecoverDoneType, GotoType
<1>8. CASE readJournalFails(p)
  <2>1. [e[p] EXCEPT !.cooling = @ \cup {"recover"}] \in EntrySet
    BY <1>1, MarksType
  <2> QED BY <1>1, <1>8, <2>1, RecoverDoneType DEF readJournalFails
<1>9. CASE SettleJournalOk(p)
  <2> DEFINE x == journalAt(settled(reset(e[p], NoDoc, "fresh"), FALSE), "clear")
             r(life) == reconcileLocked(settled(e[p], FALSE), secret, life)
  <2>1. x \in EntrySet
    BY <1>3, MarksType DEF Steps
  <2>2. \A life \in Lives : r(life) \in EntrySet /\ settle(r(life), jr[p], secret) \in EntrySet
    BY <1>1, <1>5, ReconcileType, SettleType
  <2>3. \/ Goto(p, "drop", x, NoOp)
        \/ \E life \in Lives : \/ Return(p, r(life))
                              \/ RecoverDone(p, settle(r(life), jr[p], secret), op[p])
    BY <1>9 DEF SettleJournalOk
  <2>4. jr' \in [Procs -> JournalSet]
    BY <1>1, <1>2, <1>9 DEF SettleJournalOk
  <2> HIDE DEF x, r
  <2> QED BY <1>1, <1>6, <2>1, <2>2, <2>3, <2>4, RecoverDoneType, ReturnType, GotoType
<1>10. CASE SettleJournalFails(p)
  <2> DEFINE r == [e[p] EXCEPT !.cooling = @ \cup {"recover"}]
  <2>1. r \in EntrySet
    BY <1>1, MarksType
  <2>2. jr' \in [Procs -> JournalSet]
    BY <1>1, <1>2, <1>10 DEF SettleJournalFails
  <2>3. Return(p, r) \/ RecoverDone(p, r, op[p])
    BY <1>10 DEF SettleJournalFails
  <2> QED BY <1>1, <2>1, <2>2, <2>3, RecoverDoneType, ReturnType
<1>11. CASE SyncReadOk(p)
  <2>1. [op[p] EXCEPT !.read = TRUE] \in OpSet
    BY <1>1 DEF OpSet
  <2>2. \/ Return(p, reset(e[p], NoDoc, "fresh"))
        \/ \E life \in Lives : LET r == reconcileLocked(e[p], secret, life) IN
              Return(p, r) \/ Flush(p, r, [op[p] EXCEPT !.read = TRUE])
    BY <1>11 DEF SyncReadOk
  <2>3. jr' = jr
    BY <1>11 DEF SyncReadOk
  <2> QED BY <1>1, <1>3, <1>4, <2>1, <2>2, <2>3, ReturnType, FlushType
<1>12. CASE SyncReadFails(p)
  <2>1. [e[p] EXCEPT !.checked = TRUE] \in EntrySet
    BY <1>1, MarksType
  <2> QED BY <1>1, <1>12, <2>1, ReturnType, FlushType DEF SyncReadFails
<1>13. CASE SyncReadDue(p)
  <2> DEFINE x == [e[p] EXCEPT !.checked = TRUE]
  <2>1. failed(x, "unread") \in EntrySet
    BY <1>1, MarksType
  <2>2. \/ Return(p, reset(e[p], NoDoc, "fresh"))
        \/ Return(p, failed(x, "unread"))
        \/ \E life \in Lives : LET r == reconcileLocked(e[p], secret, life) IN
              Goto(p, "create", r, NoOp) \/ Return(p, r)
    BY <1>13 DEF SyncReadDue
  <2>3. jr' = jr
    BY <1>13 DEF SyncReadDue
  <2> QED BY <1>1, <1>3, <1>4, <1>6, <2>1, <2>2, <2>3, ReturnType, GotoType
<1>14. CASE FlushReadOk(p)
  <2>1. \/ Goto(p, "drop", reset(e[p], NoDoc, "fresh"), NoOp)
        \/ \E life \in Lives : LET r == reconcileLocked(e[p], secret, life) IN
              Return(p, r) \/ Goto(p, "write", r, op[p]) \/ FlushDone(p, r, op[p])
    BY <1>14 DEF FlushReadOk
  <2>2. jr' = jr
    BY <1>14 DEF FlushReadOk
  <2> QED BY <1>1, <1>3, <1>4, <1>6, <2>1, <2>2, ReturnType, GotoType, FlushDoneType
<1>15. CASE FlushReadFails(p)
  <2>1. writeFailed([e[p] EXCEPT !.checked = TRUE]) \in EntrySet
    BY <1>1, MarksType
  <2> QED BY <1>1, <1>15, <2>1, ReturnType, FlushDoneType DEF FlushReadFails
<1> QED BY <1>7, <1>8, <1>9, <1>10, <1>11, <1>12, <1>13, <1>14, <1>15 DEF Read

(* Writes keep the store's type as well. *)
LEMMA WriteType ==
    ASSUME TypeOK, NEW p \in Procs, Write(p)
    PROVE  /\ CtlOK' /\ young' \in BOOLEAN
           /\ secret' \in (0..MaxDocs) \cup {Junk} /\ journal' \in JournalSet
<1>1. /\ CtlOK /\ e[p] \in EntrySet /\ op[p] \in OpSet
      /\ secret \in (0..MaxDocs) \cup {Junk} /\ journal \in JournalSet
      /\ young \in BOOLEAN
  BY DEF TypeOK, CtlOK
<1>2. NoJournal \in JournalSet
  BY MaxDocsAssumption DEF NoJournal, JournalSet, NoDoc
<1>3. "write" \in Labels
  BY DEF Labels
<1>4. ASSUME NEW step, Landed(p, step)
      PROVE  /\ young' \in BOOLEAN
             /\ secret' \in (0..MaxDocs) \cup {Junk} /\ journal' \in JournalSet
  <2>1. Journal("renewed", p, e[p].from, e[p].doc) \in JournalSet
    BY <1>1 DEF Journal, JournalSet, EntrySet
  <2>2. e[p].doc \in 0..MaxDocs
    BY <1>1 DEF EntrySet
  <2>3. young' \in BOOLEAN
    BY <1>1, <1>4 DEF Landed
  <2>4. secret' \in (0..MaxDocs) \cup {Junk} /\ journal' \in JournalSet
    BY <1>1, <1>2, <1>4, <2>1, <2>2 DEF Landed
  <2> QED BY <2>3, <2>4
<1>5. CASE FlushWriteOk(p)
  <2> DEFINE r == stepped(e[p], stepOf(e[p]))
  <2>1. r \in EntrySet
    BY <1>1, SteppedType
  <2>2. Landed(p, stepOf(e[p])) /\ (Goto(p, "write", r, op[p]) \/ FlushDone(p, r, op[p]))
    BY <1>5 DEF FlushWriteOk
  <2> HIDE DEF r
  <2> QED BY <1>1, <1>3, <1>4, <2>1, <2>2, GotoType, FlushDoneType
<1>6. CASE FlushWriteFails(p)
  <2> DEFINE r == writeFailed(journalAt(e[p], stepOf(e[p])))
  <2>1. r \in EntrySet
    BY <1>1, SteppedType, MarksType
  <2>2. /\ UNCHANGED <<store, young>> \/ Landed(p, stepOf(e[p]))
        /\ FlushDone(p, r, op[p])
    BY <1>6 DEF FlushWriteFails
  <2>3. /\ young' \in BOOLEAN
        /\ secret' \in (0..MaxDocs) \cup {Junk} /\ journal' \in JournalSet
    BY <1>1, <1>4, <2>2 DEF store
  <2> HIDE DEF r
  <2> QED BY <1>1, <2>1, <2>2, <2>3, FlushDoneType
<1>7. CASE dropJournal(p)
  <2>1. journalAt(e[p], "none") \in EntrySet /\ writeFailed(e[p]) \in EntrySet
    BY <1>1, MarksType DEF Steps
  <2>2. Return(p, journalAt(e[p], "none")) \/ Return(p, writeFailed(e[p]))
    BY <1>7 DEF dropJournal
  <2>3. CtlOK'
    BY <1>1, <2>1, <2>2, ReturnType
  <2>4. journal' \in {journal, NoJournal} /\ secret' = secret
    BY <1>7 DEF dropJournal
  <2>5. young' \in BOOLEAN
    BY <1>7 DEF dropJournal
  <2> QED BY <1>1, <1>2, <2>3, <2>4, <2>5
<1> QED BY <1>5, <1>6, <1>7 DEF Write

(* A renewal keeps the types of the journal, the provider and the ghosts. *)
LEMMA RenewalType ==
    ASSUME TypeOK, NEW p \in Procs, Renewal(p)
    PROVE  /\ CtlOK' /\ young' \in BOOLEAN /\ journal' \in JournalSet
           /\ issued' \in Docs /\ live' \subseteq Docs /\ lost' \subseteq 0..MaxDocs
           /\ head' \in 0..MaxDocs /\ sent' \in [Procs -> SUBSET (0..MaxDocs)]
           /\ rotated' \in [Procs -> SUBSET Docs]
<1>1. /\ CtlOK /\ e[p] \in EntrySet /\ e[p].doc \in 0..MaxDocs /\ op[p] \in OpSet
      /\ young \in BOOLEAN /\ journal \in JournalSet /\ issued \in Docs
      /\ live \subseteq Docs /\ lost \subseteq 0..MaxDocs /\ head \in 0..MaxDocs
      /\ sent \in [Procs -> SUBSET (0..MaxDocs)] /\ rotated \in [Procs -> SUBSET Docs]
  BY DEF TypeOK, CtlOK, EntrySet
<1>2. failed(e[p], "renewal") \in EntrySet
  BY <1>1, MarksType
<1>3. journalAt(failed(e[p], "renewal"), "clear") \in EntrySet
  BY <1>2, MarksType DEF Steps
<1>4. [NoOp EXCEPT !.at = "renew"] \in OpSet /\ [NoOp EXCEPT !.at = "exists"] \in OpSet
  BY NoOpType
<1>5. "call" \in Labels /\ "recover" \in Labels
  BY DEF Labels
<1>6. CASE CreateJournal(p)
  <2> DEFINE mine == Journal("renewing", p, e[p].doc, NoDoc)
             x == [e[p] EXCEPT !.journal = "started", !.from = e[p].doc]
             y == [e[p] EXCEPT !.recovered = FALSE, !.cooling = @ \ {"recover"}]
  <2>1. x \in EntrySet /\ y \in EntrySet
    BY <1>1 DEF EntrySet, Timers
  <2>2. mine \in JournalSet /\ BadJournal \in JournalSet
    BY <1>1, MaxDocsAssumption DEF Journal, JournalSet, BadJournal, NoJournal, NoDoc
  <2>3. journal' \in {journal, mine, BadJournal} /\ young' \in {young, TRUE}
    BY <1>6 DEF CreateJournal
  <2>4. \/ Goto(p, "call", x, op[p])
        \/ Goto(p, "recover", y, [NoOp EXCEPT !.at = "exists"])
        \/ Return(p, failed(e[p], "renewal"))
    BY <1>6 DEF CreateJournal
  <2>5. CtlOK'
    BY <1>1, <1>2, <1>4, <1>5, <2>1, <2>4, GotoType, ReturnType
  <2>6. UNCHANGED <<provider, head>>
    BY <1>6 DEF CreateJournal
  <2>7. journal' \in JournalSet /\ young' \in BOOLEAN
    BY <1>1, <2>2, <2>3
  <2> QED BY <1>1, <2>5, <2>6, <2>7 DEF provider
<1>7. CASE RenewNotSent(p)
  <2>1. CtlOK'
    BY <1>1, <1>3, <1>4, <1>7, FlushType DEF RenewNotSent
  <2>2. UNCHANGED <<store, provider, young, head>>
    BY <1>7 DEF RenewNotSent
  <2> QED BY <1>1, <2>1, <2>2 DEF store, provider
<1>8. CASE RenewSpent(p)
  <2> DEFINE x == [journalAt(failed(e[p], "renewal"), "clear") EXCEPT
                        !.spent = TRUE, !.suspect = FALSE]
  <2>1. ASSUME NEW r \in EntrySet
        PROVE  [r EXCEPT !.spent = TRUE, !.suspect = FALSE] \in EntrySet
    BY DEF EntrySet
  <2>2. x \in EntrySet
    BY <1>3, <2>1
  <2>3. Flush(p, x, [NoOp EXCEPT !.at = "renew"])
    BY <1>8 DEF RenewSpent
  <2>4. CtlOK'
    BY <1>1, <1>4, <2>2, <2>3, FlushType
  <2>5. UNCHANGED <<store, issued, rotated, young>>
    BY <1>8 DEF RenewSpent
  <2>6. /\ sent' = [sent EXCEPT ![p] = @ \cup {e[p].doc}]
        /\ \/ UNCHANGED <<live, lost, head>>
           \/ /\ e[p].doc \in live /\ live' = live \ {e[p].doc}
              /\ lost' = lost \cup {e[p].doc} /\ head' \in {NoDoc, head}
    BY <1>8 DEF RenewSpent
  <2>7. live' \subseteq Docs /\ lost' \subseteq 0..MaxDocs
    BY <1>1, <2>6
  <2>8. head' \in 0..MaxDocs
    BY <1>1, <2>6, MaxDocsAssumption DEF NoDoc
  <2> QED BY <1>1, <2>4, <2>5, <2>6, <2>7, <2>8 DEF store
<1>9. CASE RenewOk(p)
  <2> DEFINE x == [e[p] EXCEPT !.doc = issued + 1, !.life = "fresh", !.failure = "none",
                               !.spent = FALSE, !.suspect = FALSE,
                               !.cooling = @ \ {"fail", "write"}]
  <2>1. issued + 1 \in Docs /\ issued + 1 \in 0..MaxDocs /\ e[p].doc \in Docs
    BY <1>1, <1>9, MaxDocsAssumption DEF RenewOk, Docs
  <2>2. x \in EntrySet
    BY <1>1, <2>1 DEF EntrySet, Lives, Timers
  <2>3. Flush(p, x, [NoOp EXCEPT !.at = "renew"])
    BY <1>9 DEF RenewOk
  <2>4. CtlOK'
    BY <1>1, <1>4, <2>2, <2>3, FlushType
  <2>5. UNCHANGED <<store, lost, young>>
    BY <1>9 DEF RenewOk
  <2>6. /\ issued' = issued + 1 /\ live' = (live \ {e[p].doc}) \cup {issued + 1}
        /\ head' \in {issued + 1, head}
        /\ sent' = [sent EXCEPT ![p] = @ \cup {e[p].doc}]
        /\ rotated' = [rotated EXCEPT ![p] = @ \cup {e[p].doc}]
    BY <1>9 DEF RenewOk
  <2> HIDE DEF x
  <2> QED BY <1>1, <2>1, <2>4, <2>5, <2>6 DEF store
<1> QED BY <1>6, <1>7, <1>8, <1>9 DEF Renewal

LEMMA NextType ==
    ASSUME TypeOK, [Next]_vars
    PROVE  TypeOK'
<1>1. NewEntry \in EntrySet /\ NoJournal \in JournalSet /\ NoOp \in OpSet
  <2>1. NewEntry \in EntrySet
    BY MaxDocsAssumption DEF NewEntry, EntrySet, NoDoc, Lives, Timers
  <2>2. NoJournal \in JournalSet
    BY MaxDocsAssumption DEF NoJournal, JournalSet, NoDoc
  <2> QED BY <2>1, <2>2, NoOpType
<1>2. ASSUME NEW p \in Procs, NewCache(p) PROVE TypeOK'
  BY <1>2 DEF NewCache, TypeOK, store, provider
<1>3. ASSUME NEW p \in Procs, Crash(p) PROVE TypeOK'
  <2>1. e[p].stored \in 0..MaxDocs /\ "idle" \in Labels
    BY DEF TypeOK, EntrySet, Labels
  <2>2. \/ head' = NoDoc /\ lost' = lost \cup {e[p].stored}
        \/ head' = head /\ lost' = lost
    BY <1>3 DEF Crash
  <2>3. NoDoc \in 0..MaxDocs
    BY MaxDocsAssumption DEF NoDoc
  <2>4. head' \in 0..MaxDocs /\ lost' \subseteq 0..MaxDocs
    BY <2>1, <2>2, <2>3 DEF TypeOK
  <2> QED BY <1>1, <1>3, <2>1, <2>4 DEF Crash, TypeOK, store
<1>4. ASSUME NEW p \in Procs, Request(p) PROVE TypeOK'
  <2>1. UNCHANGED <<store, provider, up, jr, young, head>>
    BY <1>4 DEF Request, Resolve, ForceRenew, Recover
  <2>2. CtlOK'
    BY <1>4, RequestType
  <2> QED BY <2>1, <2>2 DEF TypeOK, CtlOK, store, provider
<1>5. ASSUME NEW p \in Procs, Canceled(p) PROVE TypeOK'
  <2>1. CtlOK /\ e[p] \in EntrySet
    BY DEF TypeOK, CtlOK
  <2>2. CtlOK'
    BY <1>5, <2>1, ReturnType DEF Canceled
  <2> QED BY <1>1, <1>5, <2>2 DEF Canceled, TypeOK, CtlOK, store, provider
<1>6. ASSUME NEW p \in Procs, Read(p) PROVE TypeOK'
  <2>1. UNCHANGED <<store, provider, up, young, head>>
    BY <1>6 DEF Read, readJournalOk, readJournalFails, SettleJournalOk, SettleJournalFails,
                SyncReadOk, SyncReadFails, SyncReadDue, FlushReadOk, FlushReadFails
  <2>2. CtlOK' /\ jr' \in [Procs -> JournalSet]
    BY <1>6, ReadType
  <2> QED BY <2>1, <2>2 DEF TypeOK, CtlOK, store, provider
<1>7. ASSUME NEW p \in Procs, Write(p) PROVE TypeOK'
  <2>1. UNCHANGED <<provider, up, jr, head>>
    BY <1>7 DEF Write, FlushWriteOk, FlushWriteFails, dropJournal
  <2> QED BY <1>7, <2>1, WriteType DEF TypeOK, CtlOK, provider
<1>8. ASSUME NEW p \in Procs, Renewal(p) PROVE TypeOK'
  <2>1. UNCHANGED <<secret, up, jr>>
    BY <1>8 DEF Renewal, CreateJournal, RenewNotSent, RenewSpent, RenewOk, store
  <2> QED BY <1>8, <2>1, RenewalType DEF TypeOK, CtlOK
<1>9. ASSUME Import PROVE TypeOK'
  <2>1. /\ issued < MaxDocs => issued + 1 \in Docs /\ issued + 1 \in 0..MaxDocs
        /\ NoDoc \in 0..MaxDocs
    BY MaxDocsAssumption DEF TypeOK, Docs, NoDoc
  <2>2. /\ secret' \in (0..MaxDocs) \cup {Junk} /\ issued' \in Docs
        /\ live' \subseteq Docs /\ head' \in 0..MaxDocs
    BY <1>9, <2>1 DEF Import, TypeOK
  <2> QED BY <1>9, <2>2 DEF Import, TypeOK
<1>10. ASSUME deleteSecret PROVE TypeOK'
  <2>1. NoDoc \in 0..MaxDocs
    BY MaxDocsAssumption DEF NoDoc
  <2>2. journal' \in JournalSet
    BY <1>1, <1>10 DEF deleteSecret, TypeOK
  <2> QED BY <1>10, <2>1, <2>2 DEF deleteSecret, TypeOK, provider
<1>11. ASSUME AgeJournal PROVE TypeOK'
  BY <1>11 DEF AgeJournal, TypeOK, store, provider
<1>12. ASSUME UNCHANGED vars PROVE TypeOK'
  BY <1>12 DEF vars, TypeOK
<1> QED BY <1>2, <1>3, <1>4, <1>5, <1>6, <1>7, <1>8, <1>9, <1>10, <1>11, <1>12
        DEF Next, Broker

(* The store, the provider and every cache stay well typed, with one       *)
(* broker or several and with imports at any moment.                       *)
THEOREM TypeCorrect == Spec => []TypeOK
<1>1. Init => TypeOK
  BY InitType
<1>2. TypeOK /\ [Next]_vars => TypeOK'
  BY NextType
<1> QED BY <1>1, <1>2, PTL DEF Spec
-----------------------------------------------------------------------------
(* The inductive invariant of the renewals *)

(* The next process makes the journal's document the secret. *)
Promotable == journal.phase = "renewed" /\ journal.from = secret

Renewing(p, d) == Journal("renewing", p, d, NoDoc)

(* What is known of a running cache's entry r, whatever it does next.      *)
(* A document that differs from the stored one has a journal step, and the *)
(* stored one is then dead at the provider and, while the secret still is  *)
(* that one, the entry holds its successor.  The journal in the store is   *)
(* the one the step says; a step that only deletes it deletes none that    *)
(* the secret's login depends on.                                          *)
DocsOK(r) ==
    /\ r.doc <= issued /\ r.stored <= issued
    /\ r.journal \in {"none", "clear"} => r.doc = r.stored
    /\ r.doc # r.stored => r.doc # NoDoc /\ r.stored # NoDoc /\ r.stored \notin live
StepOK(p, r) ==
    /\ r.journal = "started" /\ r.doc # r.stored =>
         /\ r.from = r.stored
         /\ \/ journal = Renewing(p, r.stored)
            \/ journal = Journal("renewed", p, r.stored, r.doc)
            \/ journal = NoJournal /\ secret # r.stored
    /\ r.journal = "renewed" /\ r.doc # r.stored =>
         journal = NoJournal \/ (journal.phase = "renewed" /\ journal.from = r.stored)
    /\ r.journal # "none" /\ r.doc = r.stored => ~Promotable
OwnOK(p, r) ==
    /\ r.journal # "none" /\ ~r.recovered => journal.owner = p \/ journal = NoJournal
    /\ r.blocked => r.journal = "none"
    /\ journal.owner = p /\ journal.phase = "renewed" => r.journal # "none"
(* A document p sent is in the store only as the one the entry knows of,   *)
(* and the entry holds it only as spent.                                   *)
SentOK(p, r) ==
    /\ secret \in sent[p] => r.doc # NoDoc /\ secret \in {r.stored, r.doc}
    /\ r.doc \in sent[p] => r.spent
    /\ r.doc \notin rotated[p]
EntryOK(p, r) == DocsOK(r) /\ StepOK(p, r) /\ OwnOK(p, r) /\ SentOK(p, r)

(* What the label adds: r is the entry, o the operation at label l. *)
LabelOK(p, l, r, o) ==
    /\ l \in {"create", "call", "reread"} \/ o.at = "exists" => ~r.spent
    /\ o.at = "exists" => l \in {"recover", "settle"}
    /\ l = "create" => r.journal = "none" /\ ~r.blocked /\ r.doc # NoDoc
    /\ l = "call" => /\ r.journal = "started" /\ r.from = r.doc /\ r.stored = r.doc
                     /\ r.doc # NoDoc
                     /\ \/ journal = Renewing(p, r.doc)
                        \/ journal = NoJournal /\ secret # r.doc
    /\ l = "recover" => r.journal = "none" \/ ~r.recovered
    /\ l = "settle" => r.journal = "none"
    /\ l \in {"flush", "write"} => r.journal # "none"
    /\ l = "drop" => r.journal # "none" /\ r.doc = NoDoc
    /\ l = "write" => r.doc # NoDoc

(* The journal recover read is still in the store when the secret is read, *)
(* or was deleted with the secret it belonged to.                          *)
SettleOK(p) ==
    LET j == jr[p] IN
    /\ j # NoJournal /\ j.owner # p
    /\ journal = j \/ (journal = NoJournal /\ (j.phase = "renewed" => secret # j.from))
    /\ j.phase = "renewed" => /\ j.from # NoDoc /\ j.doc # NoDoc /\ j.from # j.doc
                              /\ j.from <= issued /\ j.doc <= issued /\ sent[p] = {}

RunOK(p) ==
    /\ EntryOK(p, e[p]) /\ LabelOK(p, pc[p], e[p], op[p])
    /\ pc[p] = "settle" => SettleOK(p)
    /\ sent[p] # {} => journal.owner \in {p, Nobody}
(* A process that has not started or has ended holds nothing. *)
OffOK(p) ==
    /\ e[p] = NewEntry /\ pc[p] = "idle" /\ op[p] = NoOp
    /\ sent[p] = {} /\ rotated[p] = {}
RunsOK ==
    /\ \A p \in Procs : /\ Running(p) => RunOK(p)
                        /\ ~Running(p) => OffOK(p)
                        /\ up[p] = "new" => journal.owner # p
                        /\ rotated[p] \subseteq sent[p] /\ sent[p] \subseteq 1..issued
    /\ \A p, q \in Procs : Running(p) /\ Running(q) => p = q

JournalOK ==
    /\ journal.phase = "none" => journal = NoJournal
    /\ journal.from <= issued /\ journal.doc <= issued
    /\ journal.phase = "renewed" => /\ journal.from # NoDoc /\ journal.doc # NoDoc
                                    /\ journal.from # journal.doc /\ journal.owner \in Procs
                                    /\ journal.from \notin live

BoundsOK == secret <= issued /\ head <= issued /\ live \subseteq 1..issued /\ lost \subseteq 1..issued

CacheInv == RunsOK /\ JournalOK /\ BoundsOK

-----------------------------------------------------------------------------
(* The one valid document *)

(* What a flush is about to replace is what it read, or gone.  This is the *)
(* part that an import between the read and the write would break.         *)
WriteOK ==
    \A p \in Procs : At(p, "write") => secret \in {e[p].stored, e[p].doc, NoDoc}

(* While the secret is the stored one, a differing document succeeds it.   *)
Succeeds(r) == r.doc # r.stored /\ secret = r.stored => head = r.doc
Holds(r) == r.doc # r.stored /\ secret = r.stored /\ r.journal = "started"

(* The one valid document is in the secret, in a journal to promote, or in *)
(* the entry of a cache whose journal says so; without one, what the store *)
(* holds is lost or no document.                                           *)
HeadOK ==
    /\ \A p \in Procs : Running(p) => Succeeds(e[p])
    /\ head # NoDoc => \/ secret = head \/ Promotable
                       \/ \E p \in Procs : Running(p) /\ Holds(e[p])
    /\ head = NoDoc => secret \in {NoDoc, Junk} \cup lost
    /\ Promotable => head = journal.doc
    /\ head # NoDoc => head \in live
    /\ lost \cap live = {}

RenewInv == CacheInv /\ WriteOK /\ HeadOK

-----------------------------------------------------------------------------
(* Where an operation goes next *)

(* The fields of an entry that the invariant speaks of. *)
SameCore(x, r) ==
    /\ r.doc = x.doc /\ r.stored = x.stored /\ r.spent = x.spent /\ r.journal = x.journal
    /\ r.from = x.from /\ r.recovered = x.recovered /\ r.blocked = x.blocked

LEMMA SameEntry ==
    ASSUME NEW p, NEW x, NEW r, SameCore(x, r)
    PROVE  /\ EntryOK(p, x) => EntryOK(p, r)
           /\ EntryOK(p, x)' => EntryOK(p, r)'
<1>1. EntryOK(p, x) => EntryOK(p, r)
  BY DEF SameCore, EntryOK, DocsOK, StepOK, OwnOK, SentOK
<1>2. EntryOK(p, x)' => EntryOK(p, r)'
  BY DEF SameCore, EntryOK, DocsOK, StepOK, OwnOK, SentOK
<1> QED BY <1>1, <1>2

(* A document that is not stored has a journal step. *)
Owed(x) == x.journal = "none" => x.doc = x.stored

(* The operation goes on from the entry x, to no label that takes more     *)
(* than the entry to reach.                                                *)
Ctl(p, x) ==
    \E l \in Labels \ {"settle", "write", "call"}, r \in EntrySet, o \in OpSet :
        Goto(p, l, r, o) /\ SameCore(x, r) /\ LabelOK(p, l, r, o)

LEMMA ReturnCtl ==
    ASSUME NEW p \in Procs, NEW x \in EntrySet, Return(p, x)
    PROVE  Ctl(p, x)
<1>1. "idle" \in Labels \ {"settle", "write", "call"} /\ NoOp \in OpSet
  BY NoOpType DEF Labels
<1>2. SameCore(x, x)
  BY DEF SameCore
<1>3. LabelOK(p, "idle", x, NoOp)
  BY DEF LabelOK, NoOp
<1> QED BY <1>1, <1>2, <1>3 DEF Ctl, Return

LEMMA FlushDoneCtl ==
    ASSUME NEW p \in Procs, NEW x \in EntrySet, NEW o \in OpSet, FlushDone(p, x, o)
    PROVE  Ctl(p, x)
<1>1. /\ "create" \in Labels \ {"settle", "write", "call"} /\ NoOp \in OpSet
      /\ "reread" \in Labels \ {"settle", "write", "call"}
  BY NoOpType DEF Labels
<1>2. PICK y \in EntrySet : y = lifted(x, o)
  BY DEF lifted, EntrySet, Timers
<1>3. SameCore(x, y) /\ SameCore(x, x)
  BY <1>2 DEF SameCore, lifted, EntrySet
<1>4. \/ Return(p, x) \/ Return(p, y)
      \/ due(x) /\ Goto(p, "create", x, NoOp)
      \/ due(x) /\ Goto(p, "reread", x, NoOp)
      \/ mayForce(y, o) /\ Goto(p, "create", y, NoOp)
  BY <1>2 DEF FlushDone
<1>5. CASE Return(p, x)
  BY <1>5, ReturnCtl
<1>6. CASE Return(p, y)
  <2>1. PICK l \in Labels \ {"settle", "write", "call"}, r \in EntrySet, q \in OpSet :
          Goto(p, l, r, q) /\ SameCore(y, r) /\ LabelOK(p, l, r, q)
    BY <1>6, ReturnCtl DEF Ctl
  <2>2. SameCore(x, r)
    BY <2>1, <1>3 DEF SameCore
  <2> QED BY <2>1, <2>2 DEF Ctl
<1>7. CASE due(x) /\ Goto(p, "create", x, NoOp)
  <2>1. LabelOK(p, "create", x, NoOp)
    BY <1>7 DEF LabelOK, due, pendingLocked, NoOp
  <2> QED BY <1>1, <1>3, <1>7, <2>1 DEF Ctl
<1>8. CASE due(x) /\ Goto(p, "reread", x, NoOp)
  <2>1. LabelOK(p, "reread", x, NoOp)
    BY <1>8 DEF LabelOK, due, NoOp
  <2> QED BY <1>1, <1>3, <1>8, <2>1 DEF Ctl
<1>9. CASE mayForce(y, o) /\ Goto(p, "create", y, NoOp)
  <2>1. LabelOK(p, "create", y, NoOp)
    BY <1>9 DEF LabelOK, mayForce, pendingLocked, NoOp
  <2> QED BY <1>1, <1>3, <1>9, <2>1 DEF Ctl
<1> QED BY <1>4, <1>5, <1>6, <1>7, <1>8, <1>9

LEMMA FlushCtl ==
    ASSUME NEW p \in Procs, NEW x \in EntrySet, NEW o \in OpSet, Owed(x),
           o.at # "exists", Flush(p, x, o)
    PROVE  Ctl(p, x)
<1>1. CASE writeDue(x)
  <2>1. "flush" \in Labels \ {"settle", "write", "call"} /\ SameCore(x, x)
    BY DEF Labels, SameCore
  <2>2. x.journal # "none"
    BY <1>1 DEF writeDue, pendingLocked, Owed
  <2>3. LabelOK(p, "flush", x, o)
    BY <2>2 DEF LabelOK
  <2>4. Goto(p, "flush", x, o)
    BY <1>1 DEF Flush
  <2> QED BY <2>1, <2>3, <2>4 DEF Ctl
<1>2. CASE ~writeDue(x)
  BY <1>2, FlushDoneCtl DEF Flush
<1> QED BY <1>1, <1>2

LEMMA RecoverDoneCtl ==
    ASSUME NEW p \in Procs, NEW x \in EntrySet, NEW o \in OpSet, Owed(x),
           o.at = "exists" => ~x.spent, RecoverDone(p, x, o)
    PROVE  Ctl(p, x)
<1>1. \/ o.at = "exists" /\ Return(p, failed(x, "renewal"))
      \/ o.at # "exists" /\ Goto(p, "sync", x, o)
      \/ o.at # "exists" /\ Flush(p, x, o)
  BY DEF RecoverDone
<1>2. CASE o.at = "exists" /\ Return(p, failed(x, "renewal"))
  <2>1. PICK y \in EntrySet : y = failed(x, "renewal")
    BY MarksType
  <2>2. SameCore(x, y)
    BY <1>2, <2>1 DEF SameCore, failed, EntrySet
  <2>3. PICK l \in Labels \ {"settle", "write", "call"}, r \in EntrySet, q \in OpSet :
          Goto(p, l, r, q) /\ SameCore(y, r) /\ LabelOK(p, l, r, q)
    BY <1>2, <2>1, ReturnCtl DEF Ctl
  <2>4. SameCore(x, r)
    BY <2>2, <2>3 DEF SameCore
  <2> QED BY <2>3, <2>4 DEF Ctl
<1>3. CASE o.at # "exists" /\ Goto(p, "sync", x, o)
  <2>1. "sync" \in Labels \ {"settle", "write", "call"} /\ SameCore(x, x)
    BY DEF Labels, SameCore
  <2>2. LabelOK(p, "sync", x, o)
    BY <1>3 DEF LabelOK
  <2> QED BY <1>3, <2>1, <2>2 DEF Ctl
<1>4. CASE o.at # "exists" /\ Flush(p, x, o)
  BY <1>4, FlushCtl
<1> QED BY <1>1, <1>2, <1>3, <1>4

-----------------------------------------------------------------------------
(* Steps of one running process *)

(* Everything a step of p that ends at l with the entry r leaves to show. *)
LEMMA StepKeeps ==
    ASSUME TypeOK, RunsOK, NEW p \in Procs, Running(p), up' = up,
           NEW l \in Labels, NEW r \in EntrySet, NEW o \in OpSet, Goto(p, l, r, o),
           EntryOK(p, r)', LabelOK(p, l, r, o)', l = "settle" => SettleOK(p)',
           sent'[p] # {} => journal'.owner \in {p, Nobody},
           journal'.owner \in {journal.owner, p, Nobody},
           rotated'[p] \subseteq sent'[p], sent'[p] \subseteq 1..issued',
           \A q \in Procs \ {p} : sent'[q] = sent[q] /\ rotated'[q] = rotated[q]
    PROVE  RunsOK'
<1>1. \A q \in Procs : Running(q) => q = p
  BY DEF RunsOK
<1>2. /\ e'[p] = r /\ pc'[p] = l /\ op'[p] = o
      /\ \A q \in Procs \ {p} : e'[q] = e[q] /\ pc'[q] = pc[q] /\ op'[q] = op[q]
  BY DEF Goto, TypeOK
<1>3. RunOK(p)'
  BY <1>2 DEF RunOK
<1>4. ASSUME NEW q \in Procs
      PROVE  /\ Running(q)' => RunOK(q)'
             /\ ~Running(q)' => OffOK(q)'
             /\ up'[q] = "new" => journal'.owner # q
             /\ rotated'[q] \subseteq sent'[q] /\ sent'[q] \subseteq 1..issued'
  <2>1. CASE q = p
    <3>1. Running(p)' /\ up'[p] # "new"
      BY DEF Running
    <3> QED BY <1>3, <2>1, <3>1
  <2>2. CASE q # p
    <3>1. ~Running(q) /\ ~Running(q)'
      BY <1>1, <2>2 DEF Running
    <3>2. OffOK(q)
      BY <3>1 DEF RunsOK
    <3>3. OffOK(q)'
      BY <1>2, <2>2, <3>2 DEF OffOK
    <3>4. up'[q] = "new" => journal'.owner # q
      <4>1. up'[q] = "new" => journal.owner # q
        BY DEF RunsOK
      <4>2. Nobody # q
        BY ProcsAssumption
      <4> QED BY <2>2, <4>1, <4>2
    <3> QED BY <3>1, <3>3, <3>4 DEF OffOK
  <2> QED BY <2>1, <2>2
<1>5. \A a, b \in Procs : Running(a)' /\ Running(b)' => a = b
  BY DEF RunsOK, Running
<1> QED BY <1>4, <1>5 DEF RunsOK

(* What an entry must keep across a step that leaves the store alone.      *)
Keeps(x, r) ==
    /\ x.doc # x.stored /\ secret = x.stored =>
          /\ r.doc = x.doc /\ r.stored = x.stored
          /\ x.journal = "started" => r.journal = "started"
    /\ r.doc # r.stored /\ secret = r.stored =>
          \/ x.doc = r.doc /\ x.stored = r.stored
          \/ Promotable /\ r.doc = journal.doc

(* A step of p that leaves the store and the provider alone.               *)
Moves(p) ==
    /\ UNCHANGED <<store, provider, up, head>>
    /\ \E l \in Labels, r \in EntrySet, o \in OpSet :
        /\ Goto(p, l, r, o) /\ EntryOK(p, r) /\ LabelOK(p, l, r, o)
        /\ l = "settle" => SettleOK(p)'
        /\ l = "write" => secret = r.stored
        /\ Keeps(e[p], r)

LEMMA MovesKeep ==
    ASSUME TypeOK, CacheInv, NEW p \in Procs, Running(p), Moves(p)
    PROVE  CacheInv'
<1>1. /\ UNCHANGED <<secret, journal, live, issued, lost, sent, rotated, up, head>>
  BY DEF Moves, store, provider
<1>2. PICK l \in Labels, r \in EntrySet, o \in OpSet :
        /\ Goto(p, l, r, o) /\ EntryOK(p, r) /\ LabelOK(p, l, r, o)
        /\ l = "settle" => SettleOK(p)'
  BY DEF Moves
<1>3. EntryOK(p, r)' /\ LabelOK(p, l, r, o)'
  BY <1>1, <1>2 DEF EntryOK, DocsOK, StepOK, OwnOK, SentOK, Promotable, LabelOK
<1>4. JournalOK' /\ BoundsOK'
  BY <1>1 DEF CacheInv, JournalOK, BoundsOK
<1>5. /\ sent'[p] # {} => journal'.owner \in {p, Nobody}
      /\ journal'.owner \in {journal.owner, p, Nobody}
      /\ rotated'[p] \subseteq sent'[p] /\ sent'[p] \subseteq 1..issued'
      /\ \A q \in Procs \ {p} : sent'[q] = sent[q] /\ rotated'[q] = rotated[q]
  BY <1>1 DEF CacheInv, RunsOK, RunOK
<1>6. RunsOK'
  BY <1>1, <1>2, <1>3, <1>5, StepKeeps DEF CacheInv
<1> QED BY <1>4, <1>6 DEF CacheInv

LEMMA MovesHead ==
    ASSUME TypeOK, RenewInv, NEW p \in Procs, Running(p), Moves(p)
    PROVE  WriteOK' /\ HeadOK'
<1>1. /\ UNCHANGED <<secret, journal, live, issued, lost, sent, rotated, up, head>>
  BY DEF Moves, store, provider
<1>2. PICK l \in Labels, r \in EntrySet, o \in OpSet :
        /\ Goto(p, l, r, o)
        /\ l = "write" => secret = r.stored
        /\ Keeps(e[p], r)
  BY DEF Moves
<1>3. /\ e'[p] = r /\ pc'[p] = l
      /\ \A q \in Procs \ {p} : e'[q] = e[q] /\ pc'[q] = pc[q]
  BY <1>2 DEF Goto, TypeOK
<1>4. \A q \in Procs : Running(q)' = Running(q) /\ (Running(q) => q = p)
  BY <1>1 DEF RenewInv, CacheInv, RunsOK, Running
<1>5. WriteOK'
  BY <1>1, <1>2, <1>3, <1>4 DEF WriteOK, At
<1>6. Succeeds(e[p]) /\ (Promotable => head = journal.doc)
  BY DEF RenewInv, HeadOK
<1>7. Succeeds(r)
  BY <1>2, <1>6 DEF Keeps, Succeeds
<1>8. \A q \in Procs : Running(q)' => Succeeds(e[q])'
  BY <1>1, <1>3, <1>4, <1>7 DEF Succeeds
<1>9. head # NoDoc => \/ secret = head \/ Promotable
                      \/ \E q \in Procs : Running(q)' /\ Holds(e[q])'
  <2>1. ASSUME NEW q \in Procs, Running(q), Holds(e[q])
        PROVE  Running(p)' /\ Holds(e[p])'
    <3>1. q = p
      BY <1>4, <2>1
    <3>2. Holds(r)
      BY <1>2, <2>1, <3>1 DEF Keeps, Holds
    <3> QED BY <1>1, <1>3, <1>4, <3>2 DEF Holds
  <2> QED BY <2>1 DEF RenewInv, HeadOK
<1>10. /\ head' # NoDoc => \/ secret' = head' \/ Promotable'
                           \/ \E q \in Procs : Running(q)' /\ Holds(e[q])'
  BY <1>1, <1>9 DEF Promotable
<1>11. /\ head' = NoDoc => secret' \in {NoDoc, Junk} \cup lost'
       /\ Promotable' => head' = journal'.doc
       /\ head' # NoDoc => head' \in live'
       /\ lost' \cap live' = {}
  BY <1>1 DEF RenewInv, HeadOK, Promotable
<1>12. HeadOK'
  BY <1>8, <1>10, <1>11 DEF HeadOK
<1> QED BY <1>5, <1>12

(* The control's answer, from an entry that is all right. *)
LEMMA CtlMoves ==
    ASSUME NEW p \in Procs, NEW x \in EntrySet, EntryOK(p, x), Keeps(e[p], x), Ctl(p, x),
           UNCHANGED <<store, provider, up, head>>
    PROVE  Moves(p)
<1>1. PICK l \in Labels \ {"settle", "write", "call"}, r \in EntrySet, o \in OpSet :
        Goto(p, l, r, o) /\ SameCore(x, r) /\ LabelOK(p, l, r, o)
  BY DEF Ctl
<1>2. EntryOK(p, r)
  BY <1>1, SameEntry
<1>3. Keeps(e[p], r)
  BY <1>1 DEF Keeps, SameCore
<1>4. l \in Labels /\ l # "settle" /\ l # "write"
  BY <1>1
<1> QED BY <1>1, <1>2, <1>3, <1>4 DEF Moves

LEMMA SameKeeps ==
    ASSUME NEW x, NEW r, SameCore(x, r)
    PROVE  Keeps(x, r)
  BY DEF SameCore, Keeps

LEMMA OwedEntry ==
    ASSUME NEW p, NEW x, EntryOK(p, x)
    PROVE  Owed(x)
  BY DEF EntryOK, DocsOK, Owed

LEMMA RunningOK ==
    ASSUME TypeOK, CacheInv, NEW p \in Procs, Running(p)
    PROVE  /\ e[p] \in EntrySet /\ op[p] \in OpSet /\ pc[p] \in Labels
           /\ EntryOK(p, e[p]) /\ LabelOK(p, pc[p], e[p], op[p]) /\ Owed(e[p])
<1>1. EntryOK(p, e[p]) /\ LabelOK(p, pc[p], e[p], op[p])
  BY DEF CacheInv, RunsOK, RunOK
<1>2. e[p] \in EntrySet /\ op[p] \in OpSet /\ pc[p] \in Labels
  BY DEF TypeOK
<1>3. Owed(e[p])
  BY <1>1, OwedEntry
<1> QED BY <1>1, <1>2, <1>3

-----------------------------------------------------------------------------
(* The entry's operators keep what is known of an entry *)

(* A secret that is gone: the entry holds nothing. *)
LEMMA ResetGone ==
    ASSUME TypeOK, CacheInv, NEW p \in Procs, NEW r \in EntrySet, EntryOK(p, r), secret = NoDoc
    PROVE  /\ reset(r, NoDoc, "fresh") \in EntrySet
           /\ EntryOK(p, reset(r, NoDoc, "fresh"))
           /\ Keeps(r, reset(r, NoDoc, "fresh"))
           /\ reset(r, NoDoc, "fresh").doc = NoDoc /\ reset(r, NoDoc, "fresh").stored = NoDoc
           /\ reset(r, NoDoc, "fresh").journal = r.journal
           /\ ~reset(r, NoDoc, "fresh").spent
<1> DEFINE k == reset(r, NoDoc, "fresh")
<1>1. NoDoc \in 0..MaxDocs /\ "fresh" \in Lives /\ issued \in Nat
  BY MaxDocsAssumption DEF NoDoc, Lives, TypeOK, Docs
<1>2. k \in EntrySet
  BY <1>1, ResetType
<1>3. /\ k.doc = NoDoc /\ k.stored = NoDoc /\ ~k.spent /\ k.journal = r.journal
      /\ k.recovered = r.recovered /\ k.blocked = r.blocked
  BY DEF reset, EntrySet
<1> HIDE DEF k
<1>4. NoDoc \notin sent[p] /\ NoDoc \notin rotated[p]
  BY DEF CacheInv, RunsOK, NoDoc
<1>5. ~Promotable
  BY DEF CacheInv, JournalOK, Promotable
<1>6. DocsOK(k)
  BY <1>1, <1>3 DEF DocsOK, NoDoc
<1>7. StepOK(p, k)
  BY <1>3, <1>5 DEF StepOK
<1>8. OwnOK(p, k)
  BY <1>3 DEF OwnOK, EntryOK
<1>9. SentOK(p, k)
  BY <1>3, <1>4 DEF SentOK
<1>10. Keeps(r, k)
  BY <1>3 DEF Keeps, EntryOK, DocsOK
<1> QED BY <1>2, <1>3, <1>6, <1>7, <1>8, <1>9, <1>10 DEF k, EntryOK

(* A store read (reconcileLocked) keeps a document the store does not yet  *)
(* have and takes any other one it finds; what it finds was never sent.    *)
LEMMA ReconcileOK ==
    ASSUME TypeOK, CacheInv, NEW p \in Procs, NEW r \in EntrySet, EntryOK(p, r),
           NEW life \in Lives, secret # NoDoc,
           NEW k, k = reconcileLocked(r, secret, life)
    PROVE  /\ k \in EntrySet /\ EntryOK(p, k) /\ Keeps(r, k)
           /\ k.journal = r.journal /\ k.recovered = r.recovered /\ k.blocked = r.blocked
           /\ ~r.spent => ~k.spent
           /\ k.doc # NoDoc => k.stored = secret
           /\ r.doc = r.stored => k.doc = k.stored
<1>1. /\ secret \in (0..MaxDocs) \cup {Junk} /\ secret <= issued /\ issued \in Nat
      /\ journal.phase = "renewed" => journal.from # NoDoc /\ journal.from \in 0..MaxDocs
      /\ rotated[p] \subseteq sent[p] /\ sent[p] \subseteq 1..issued
      /\ NoDoc \notin sent[p]
  BY DEF TypeOK, Docs, CacheInv, BoundsOK, JournalOK, JournalSet, RunsOK, NoDoc
<1>2. k \in EntrySet
  BY <1>1, ReconcileType, ProcsAssumption, MaxDocsAssumption, RacesAssumption DEF Consts
<1>3. CASE r.doc # NoDoc /\ secret \in {r.stored, r.doc}
  <2>1. k = [r EXCEPT !.stored = secret, !.checked = TRUE]
    BY <1>3 DEF reconcileLocked
  <2>2. /\ k.doc = r.doc /\ k.stored = secret /\ k.spent = r.spent /\ k.journal = r.journal
        /\ k.from = r.from /\ k.recovered = r.recovered /\ k.blocked = r.blocked
    BY <2>1 DEF EntrySet
  <2>3. DocsOK(k)
    BY <1>1, <1>3, <2>2 DEF DocsOK, EntryOK
  <2>4. StepOK(p, k)
    <3>1. CASE secret = r.stored
      BY <2>2, <3>1 DEF StepOK, EntryOK
    <3>2. CASE secret = r.doc /\ r.doc # r.stored /\ r.journal # "none"
      <4>1. r.journal # "clear"
        BY <3>2 DEF EntryOK, DocsOK
      <4>2. r.journal \in {"started", "renewed"}
        BY <3>2, <4>1 DEF EntrySet
      <4>3. ~Promotable
        BY <3>2, <4>2 DEF EntryOK, StepOK, Promotable, Journal, Renewing, NoJournal
      <4> QED BY <2>2, <3>2, <4>3 DEF StepOK
    <3>3. CASE r.journal = "none"
      BY <2>2, <3>3 DEF StepOK
    <3> QED BY <1>3, <3>1, <3>2, <3>3
  <2>5. OwnOK(p, k)
    BY <2>2 DEF OwnOK, EntryOK
  <2>6. SentOK(p, k)
    BY <1>3, <2>2 DEF SentOK, EntryOK
  <2>7. Keeps(r, k)
    BY <1>3, <2>2 DEF Keeps
  <2>8. r.doc = r.stored => k.doc = k.stored
    BY <1>3, <2>2
  <2> QED BY <1>2, <2>2, <2>3, <2>4, <2>5, <2>6, <2>7, <2>8 DEF EntryOK
<1>4. CASE ~(r.doc # NoDoc /\ secret \in {r.stored, r.doc})
  <2> DEFINE d == IF secret = Junk THEN NoDoc ELSE secret
  <2>1. k.doc = d /\ k.stored = d /\ ~k.spent /\ k.journal = r.journal
        /\ k.recovered = r.recovered /\ k.blocked = r.blocked
    BY <1>4 DEF reconcileLocked, reset, EntrySet
  <2>2. d <= issued /\ (d # NoDoc => d = secret) /\ (secret \in 0..MaxDocs => d = secret)
    BY <1>1, MaxDocsAssumption DEF Junk, NoDoc
  <2> HIDE DEF d
  <2>3. secret \notin sent[p]
    BY <1>4 DEF EntryOK, SentOK
  <2>4. d \notin sent[p] /\ d \notin rotated[p]
    BY <1>1, <2>2, <2>3
  <2>5. r.journal # "none" => ~Promotable
    <3>1. CASE r.doc = r.stored
      BY <3>1 DEF EntryOK, StepOK
    <3>2. CASE r.doc # r.stored
      <4>1. r.doc # NoDoc
        BY <3>2 DEF EntryOK, DocsOK
      <4>2. r.journal \in {"started", "renewed"}
        BY <3>2 DEF EntryOK, DocsOK, EntrySet
      <4> QED BY <1>4, <3>2, <4>1, <4>2
              DEF EntryOK, StepOK, Promotable, Journal, Renewing, NoJournal
    <3> QED BY <3>1, <3>2
  <2>6. DocsOK(k)
    BY <2>1, <2>2 DEF DocsOK
  <2>7. StepOK(p, k)
    BY <2>1, <2>5 DEF StepOK
  <2>8. OwnOK(p, k)
    BY <2>1 DEF OwnOK, EntryOK
  <2>9. SentOK(p, k)
    BY <2>1, <2>3, <2>4 DEF SentOK
  <2>10. Keeps(r, k)
    BY <1>4, <2>1 DEF Keeps, EntryOK, DocsOK
  <2> QED BY <1>2, <2>1, <2>2, <2>6, <2>7, <2>8, <2>9, <2>10 DEF EntryOK
<1> QED BY <1>3, <1>4

(* recover found nothing to do, its own journal, or one that another       *)
(* process still holds.                                                    *)
LEMMA SettledOK ==
    ASSUME NEW p \in Procs, NEW r \in EntrySet, EntryOK(p, r), NEW b \in BOOLEAN,
           b => r.journal = "none"
    PROVE  /\ settled(r, b) \in EntrySet /\ EntryOK(p, settled(r, b)) /\ Keeps(r, settled(r, b))
           /\ settled(r, b).journal = r.journal /\ settled(r, b).doc = r.doc
           /\ settled(r, b).stored = r.stored /\ settled(r, b).spent = r.spent
           /\ settled(r, b).recovered /\ settled(r, b).from = r.from
           /\ settled(r, b).blocked = b
<1> DEFINE k == settled(r, b)
<1>1. k \in EntrySet
  BY MarksType
<1>2. /\ k.doc = r.doc /\ k.stored = r.stored /\ k.spent = r.spent /\ k.journal = r.journal
      /\ k.from = r.from /\ k.recovered = TRUE /\ k.blocked = b
  BY DEF settled, EntrySet
<1> HIDE DEF k
<1>3. EntryOK(p, k)
  BY <1>2 DEF EntryOK, DocsOK, StepOK, OwnOK, SentOK
<1>4. Keeps(r, k)
  BY <1>2 DEF Keeps
<1> QED BY <1>1, <1>2, <1>3, <1>4 DEF k

(* What a stopped process's journal makes of the entry: its document is    *)
(* promoted only over the one it was renewed from, and a journal that is   *)
(* only deleted holds no document the secret's login depends on.           *)
LEMMA SettleKeeps ==
    ASSUME TypeOK, CacheInv, NEW p \in Procs, NEW r \in EntrySet, EntryOK(p, r), SettleOK(p),
           r.journal = "none", r.doc # NoDoc, r.stored = secret, r.recovered, ~r.blocked,
           NEW k, k = settle(r, jr[p], secret)
    PROVE  /\ k \in EntrySet /\ EntryOK(p, k) /\ Keeps(r, k)
           /\ ~r.spent => ~k.spent
<1> DEFINE j == jr[p]
<1>1. j \in JournalSet
  BY DEF TypeOK
<1>2. k \in EntrySet
  BY <1>1, SettleType
<1>3. r.doc = r.stored
  BY DEF EntryOK, DocsOK
<1>4. CASE j.phase = "renewed" /\ j.from = secret
  <2>1. k = [journalAt(r, "renewed") EXCEPT
                !.doc = j.doc, !.life = "fresh", !.failure = "none", !.spent = FALSE,
                !.cooling = @ \ {"fail"}]
    BY <1>4 DEF settle
  <2>2. /\ k.doc = j.doc /\ k.stored = r.stored /\ ~k.spent /\ k.journal = "renewed"
        /\ k.recovered = r.recovered /\ k.blocked = r.blocked
    BY <2>1 DEF journalAt, EntrySet
  <2>3. /\ journal = j /\ j.from # NoDoc /\ j.doc # NoDoc /\ j.from # j.doc
        /\ j.from <= issued /\ j.doc <= issued /\ sent[p] = {}
    BY <1>4 DEF SettleOK
  <2>4. j.from \notin live /\ rotated[p] = {}
    BY <1>4, <2>3 DEF CacheInv, JournalOK, RunsOK
  <2> HIDE DEF j
  <2>5. DocsOK(k)
    BY <1>4, <2>2, <2>3, <2>4 DEF DocsOK
  <2>6. StepOK(p, k)
    BY <1>4, <2>2, <2>3 DEF StepOK
  <2>7. OwnOK(p, k)
    BY <2>2 DEF OwnOK
  <2>8. SentOK(p, k)
    BY <2>2, <2>3, <2>4 DEF SentOK
  <2>9. Keeps(r, k)
    BY <1>3, <1>4, <2>2, <2>3 DEF Keeps, Promotable
  <2> QED BY <1>2, <2>2, <2>5, <2>6, <2>7, <2>8, <2>9 DEF EntryOK
<1>5. CASE ~(j.phase = "renewed" /\ j.from = secret)
  <2>1. k \in {journalAt(r, "clear"), [journalAt(r, "clear") EXCEPT !.suspect = TRUE]}
    BY <1>5 DEF settle
  <2>2. /\ k.doc = r.doc /\ k.stored = r.stored /\ k.spent = r.spent /\ k.journal = "clear"
        /\ k.recovered = r.recovered /\ k.blocked = r.blocked
    BY <2>1 DEF journalAt, EntrySet
  <2>3. ~Promotable
    BY <1>5 DEF SettleOK, Promotable, NoJournal
  <2>4. DocsOK(k) /\ SentOK(p, k)
    BY <1>3, <2>2 DEF DocsOK, SentOK, EntryOK
  <2>5. StepOK(p, k)
    BY <2>2, <2>3 DEF StepOK
  <2>6. OwnOK(p, k)
    BY <2>2 DEF OwnOK
  <2>7. Keeps(r, k)
    BY <1>3, <2>2 DEF Keeps
  <2> QED BY <1>2, <2>2, <2>4, <2>5, <2>6, <2>7 DEF EntryOK
<1> QED BY <1>4, <1>5

-----------------------------------------------------------------------------
(* The steps that leave the store and the provider alone *)

(* Time alone changes no field that the invariant speaks of. *)
LEMMA AgedSame ==
    ASSUME NEW r \in EntrySet, NEW w \in cooled(r)
    PROVE  /\ w \in EntrySet /\ w.life = r.life /\ SameCore(r, w)
           /\ \A b \in BOOLEAN, l \in {w.life, "due"} :
                aged(w, b, l) \in EntrySet /\ SameCore(r, aged(w, b, l))
<1>1. w \in EntrySet
  BY AgedType
<1>2. SameCore(r, w) /\ w.life = r.life
  BY DEF cooled, SameCore, EntrySet
<1>3. ASSUME NEW b \in BOOLEAN, NEW l \in {w.life, "due"}
      PROVE  aged(w, b, l) \in EntrySet /\ SameCore(r, aged(w, b, l))
  <2>1. aged(w, b, l) \in EntrySet
    BY <1>1, AgedType
  <2>2. SameCore(w, aged(w, b, l))
    BY <1>1 DEF aged, SameCore, EntrySet
  <2> QED BY <1>2, <2>1, <2>2 DEF SameCore
<1> QED BY <1>1, <1>2, <1>3

(* Entering recover: the journal is unsettled, so the entry has no step of *)
(* another process's journal.                                              *)
LEMMA EnterMoves ==
    ASSUME TypeOK, CacheInv, NEW p \in Procs, Running(p), NEW r \in EntrySet, SameCore(e[p], r),
           NEW o \in OpSet, o.at # "exists",
           \/ unsettled(r) /\ Goto(p, "recover", r, o)
           \/ RecoverDone(p, r, o),
           UNCHANGED <<store, provider, up, head>>
    PROVE  Moves(p)
<1>1. EntryOK(p, e[p])
  BY RunningOK
<1>2. EntryOK(p, r) /\ Keeps(e[p], r)
  BY <1>1, SameEntry, SameKeeps
<1>3. CASE unsettled(r) /\ Goto(p, "recover", r, o)
  <2>1. r.journal = "none" \/ ~r.recovered
    BY <1>2, <1>3 DEF unsettled, EntryOK, OwnOK
  <2>2. LabelOK(p, "recover", r, o) /\ "recover" \in Labels
    BY <2>1 DEF LabelOK, Labels
  <2> QED BY <1>2, <1>3, <2>2 DEF Moves
<1>4. CASE RecoverDone(p, r, o)
  <2>1. Ctl(p, r)
    BY <1>2, <1>4, OwedEntry, RecoverDoneCtl
  <2> QED BY <1>2, <2>1, CtlMoves
<1> QED BY <1>3, <1>4

LEMMA RequestMoves ==
    ASSUME TypeOK, CacheInv, NEW p \in Procs, Request(p)
    PROVE  Running(p) /\ Moves(p)
<1>1. Running(p) /\ UNCHANGED <<store, provider, up, head>>
  BY DEF Request, Resolve, ForceRenew, Recover, At
<1>2. e[p] \in EntrySet
  BY <1>1, RunningOK
<1>3. CASE Resolve(p)
  <2>1. PICK w \in cooled(e[p]), k \in BOOLEAN, l \in {e[p].life, "due"} :
           LET r == aged(w, k, l)
               o == [NoOp EXCEPT !.kind = "resolve"] IN
           IF unsettled(r) THEN Goto(p, "recover", r, o) ELSE RecoverDone(p, r, o)
    BY <1>3 DEF Resolve
  <2>2. w.life = e[p].life
    BY <1>2, AgedSame
  <2>3. PICK r \in EntrySet : r = aged(w, k, l) /\ SameCore(e[p], r)
    BY <1>2, <2>2, AgedSame
  <2>4. PICK o \in OpSet : o = [NoOp EXCEPT !.kind = "resolve"]
    BY NoOpType
  <2>5. o.at # "exists"
    BY <2>4 DEF NoOp
  <2> QED BY <1>1, <2>1, <2>3, <2>4, <2>5, EnterMoves
<1>4. CASE ForceRenew(p)
  <2>1. PICK r \in cooled(e[p]), d \in {e[p].doc, NoDoc} :
           LET o == [NoOp EXCEPT !.kind = "force", !.stale = d] IN
           IF unsettled(r) THEN Goto(p, "recover", r, o) ELSE RecoverDone(p, r, o)
    BY <1>4 DEF ForceRenew
  <2>2. r \in EntrySet /\ SameCore(e[p], r)
    BY <1>2, AgedSame
  <2>3. d \in 0..MaxDocs
    BY <1>2, MaxDocsAssumption DEF EntrySet, NoDoc
  <2>4. PICK o \in OpSet : o = [NoOp EXCEPT !.kind = "force", !.stale = d]
    BY <2>3 DEF NoOp, OpSet
  <2>5. o.at # "exists"
    BY <2>4 DEF NoOp
  <2> QED BY <1>1, <2>1, <2>2, <2>4, <2>5, EnterMoves
<1>5. CASE Recover(p)
  <2>1. PICK r \in cooled(e[p]) :
          unsettled(r) /\ Goto(p, "recover", r, [NoOp EXCEPT !.kind = "recover"])
    BY <1>5 DEF Recover
  <2>2. r \in EntrySet /\ SameCore(e[p], r)
    BY <1>2, AgedSame
  <2>3. PICK o \in OpSet : o = [NoOp EXCEPT !.kind = "recover"]
    BY NoOpType
  <2>4. o.at # "exists"
    BY <2>3 DEF NoOp
  <2> QED BY <1>1, <2>1, <2>2, <2>3, <2>4, EnterMoves
<1> QED BY <1>1, <1>3, <1>4, <1>5 DEF Request

LEMMA CanceledMoves ==
    ASSUME TypeOK, CacheInv, NEW p \in Procs, Canceled(p)
    PROVE  Running(p) /\ Moves(p)
<1>1. Running(p) /\ UNCHANGED <<store, provider, up, head>> /\ Return(p, e[p])
  BY DEF Canceled
<1>2. PICK x \in EntrySet : x = e[p]
  BY <1>1, RunningOK
<1>3. EntryOK(p, x) /\ Keeps(e[p], x)
  BY <1>1, <1>2, RunningOK DEF Keeps
<1>4. Ctl(p, x)
  BY <1>1, <1>2, ReturnCtl
<1> QED BY <1>1, <1>3, <1>4, CtlMoves

(* Only the owner's own journal, or none, is found while a step is left;   *)
(* so another process's journal meets an entry without one.                *)
LEMMA ReadJournalMoves ==
    ASSUME TypeOK, CacheInv, NEW p \in Procs, readJournalOk(p) \/ readJournalFails(p)
    PROVE  Running(p) /\ Moves(p)
<1>1. Running(p) /\ pc[p] = "recover" /\ UNCHANGED <<store, provider, up, head>>
  BY DEF readJournalOk, readJournalFails, At
<1>2. PICK x \in EntrySet : x = e[p]
  BY <1>1, RunningOK
<1>3. PICK o \in OpSet : o = op[p]
  BY <1>1, RunningOK
<1>4. EntryOK(p, x) /\ LabelOK(p, "recover", x, o)
  BY <1>1, <1>2, <1>3, RunningOK
<1>5. o.at = "exists" => ~x.spent
  BY <1>4 DEF LabelOK
<1>6. ASSUME NEW k \in EntrySet, EntryOK(p, k), Keeps(x, k), k.spent = x.spent,
             RecoverDone(p, k, o)
      PROVE  Moves(p)
  <2>1. Ctl(p, k)
    BY <1>5, <1>6, OwedEntry, RecoverDoneCtl
  <2> QED BY <1>1, <1>2, <1>6, <2>1, CtlMoves
<1>7. CASE readJournalFails(p)
  <2>1. PICK k \in EntrySet : k = [x EXCEPT !.cooling = @ \cup {"recover"}]
    BY MarksType
  <2>2. SameCore(x, k)
    BY <2>1 DEF SameCore, EntrySet
  <2>3. EntryOK(p, k) /\ Keeps(x, k) /\ k.spent = x.spent
    BY <1>4, <2>2, SameEntry, SameKeeps DEF SameCore
  <2>4. RecoverDone(p, k, o)
    BY <1>2, <1>3, <1>7, <2>1 DEF readJournalFails
  <2> QED BY <1>1, <1>6, <2>3, <2>4
<1>8. CASE readJournalOk(p)
  <2>1. PICK s \in EntrySet : s = settled(x, FALSE)
    BY SettledOK, <1>4
  <2>2. /\ EntryOK(p, s) /\ Keeps(x, s) /\ s.journal = x.journal /\ s.doc = x.doc
        /\ s.stored = x.stored /\ s.spent = x.spent /\ s.recovered /\ s.from = x.from
    BY <1>4, <2>1, SettledOK
  <2>3. journal # NoJournal /\ journal.owner # p => x.journal = "none"
    BY <1>4 DEF LabelOK, EntryOK, OwnOK
  <2>4. CASE RecoverDone(p, settled(e[p], FALSE), op[p])
    BY <1>1, <1>2, <1>3, <1>6, <2>1, <2>2, <2>4
  <2>5. CASE /\ journal.owner = p
             /\ LET r == settled(e[p], FALSE) IN
                RecoverDone(p, journalAt(r, IF r.journal = "none" THEN "clear" ELSE r.journal),
                            op[p])
    <3> DEFINE st == IF s.journal = "none" THEN "clear" ELSE s.journal
    <3>1. st \in Steps /\ st # "none" /\ (s.journal # "none" => st = s.journal)
          /\ (s.journal = "none" => st = "clear")
      BY DEF Steps, EntrySet
    <3> HIDE DEF st
    <3>2. PICK k \in EntrySet : k = journalAt(s, st)
      BY <3>1, MarksType
    <3>3. /\ k.doc = s.doc /\ k.stored = s.stored /\ k.spent = s.spent /\ k.journal = st
          /\ k.recovered = s.recovered /\ k.blocked = s.blocked
          /\ st = "started" => k.from = s.from
      BY <3>2 DEF journalAt, EntrySet
    <3>4. s.journal = "none" => ~Promotable
      BY <2>2, <2>5 DEF EntryOK, OwnOK, Promotable
    <3>5. s.journal = "none" => s.doc = s.stored
      BY <2>2 DEF EntryOK, DocsOK
    <3>6. DocsOK(k) /\ SentOK(p, k)
      BY <2>2, <3>1, <3>3, <3>5 DEF EntryOK, DocsOK, SentOK
    <3>7. StepOK(p, k)
      BY <2>2, <3>1, <3>3, <3>4, <3>5 DEF EntryOK, StepOK
    <3>8. OwnOK(p, k)
      <4>1. ~s.blocked
        BY <2>1 DEF settled, EntrySet
      <4> QED BY <2>2, <3>1, <3>3, <4>1 DEF OwnOK
    <3>9. Keeps(x, k)
      BY <2>2, <3>1, <3>3 DEF Keeps
    <3>10. RecoverDone(p, k, o)
      BY <1>2, <1>3, <2>1, <2>5, <3>2 DEF st
    <3> QED BY <1>1, <1>6, <2>2, <3>3, <3>6, <3>7, <3>8, <3>9, <3>10 DEF EntryOK
  <2>6. CASE /\ journal.owner \in Procs \ {p}
             /\ RecoverDone(p, settled(e[p], TRUE), op[p])
    <3>1. x.journal = "none"
      BY <2>3, <2>6, ProcsAssumption DEF NoJournal
    <3>2. PICK k \in EntrySet : k = settled(x, TRUE)
      BY MarksType
    <3>3. EntryOK(p, k) /\ Keeps(x, k) /\ k.spent = x.spent
      BY <1>4, <3>1, <3>2, SettledOK
    <3> QED BY <1>1, <1>2, <1>3, <1>6, <2>6, <3>2, <3>3
  <2>7. CASE /\ journal # NoJournal /\ journal.owner # p
             /\ jr' = [jr EXCEPT ![p] = journal]
             /\ Goto(p, "settle", e[p], op[p])
    <3>1. x.journal = "none"
      BY <2>3, <2>7
    <3>2. LabelOK(p, "settle", x, o) /\ "settle" \in Labels
      BY <1>4, <3>1 DEF LabelOK, Labels
    <3>3. SettleOK(p)'
      <4>1. jr'[p] = journal /\ journal' = journal /\ issued' = issued /\ sent' = sent
        BY <1>1, <2>7 DEF TypeOK, store, provider
      <4>2. journal.phase = "renewed" =>
               /\ journal.from # NoDoc /\ journal.doc # NoDoc /\ journal.from # journal.doc
               /\ journal.from <= issued /\ journal.doc <= issued
        BY DEF CacheInv, JournalOK
      <4>3. journal.phase = "renewed" => sent[p] = {}
        <5>1. journal.phase = "renewed" => journal.owner # Nobody
          BY ProcsAssumption DEF CacheInv, JournalOK
        <5>2. sent[p] # {} => journal.owner \in {p, Nobody}
          BY <1>1 DEF CacheInv, RunsOK, RunOK
        <5> QED BY <2>7, <5>1, <5>2
      <4> QED BY <2>7, <4>1, <4>2, <4>3 DEF SettleOK
    <3>4. Keeps(e[p], x)
      BY <1>2 DEF Keeps
    <3>5. Goto(p, "settle", x, o)
      BY <1>2, <1>3, <2>7
    <3> QED BY <1>1, <1>4, <3>2, <3>3, <3>4, <3>5 DEF Moves
  <2> QED BY <1>8, <1>1, <2>4, <2>5, <2>6, <2>7 DEF readJournalOk
<1> QED BY <1>1, <1>7, <1>8

LEMMA SettleMoves ==
    ASSUME TypeOK, CacheInv, NEW p \in Procs, SettleJournalOk(p) \/ SettleJournalFails(p)
    PROVE  Running(p) /\ Moves(p)
<1>1. Running(p) /\ pc[p] = "settle" /\ UNCHANGED <<store, provider, up, head>>
  BY DEF SettleJournalOk, SettleJournalFails, At
<1>2. PICK x \in EntrySet : x = e[p]
  BY <1>1, RunningOK
<1>3. PICK o \in OpSet : o = op[p]
  BY <1>1, RunningOK
<1>4. EntryOK(p, x) /\ LabelOK(p, "settle", x, o) /\ SettleOK(p)
  BY <1>1, <1>2, <1>3, RunningOK DEF CacheInv, RunsOK, RunOK
<1>5. x.journal = "none" /\ (o.at = "exists" => ~x.spent)
  BY <1>4 DEF LabelOK
<1>6. ASSUME NEW k \in EntrySet, EntryOK(p, k), Keeps(x, k), ~x.spent => ~k.spent,
             RecoverDone(p, k, o) \/ Return(p, k)
      PROVE  Moves(p)
  <2>1. Ctl(p, k)
    BY <1>5, <1>6, OwedEntry, RecoverDoneCtl, ReturnCtl
  <2> QED BY <1>1, <1>2, <1>6, <2>1, CtlMoves
<1>7. CASE SettleJournalFails(p)
  <2>1. PICK k \in EntrySet : k = [x EXCEPT !.cooling = @ \cup {"recover"}]
    BY MarksType
  <2>2. SameCore(x, k)
    BY <2>1 DEF SameCore, EntrySet
  <2>3. EntryOK(p, k) /\ Keeps(x, k) /\ (~x.spent => ~k.spent)
    BY <1>4, <2>2, SameEntry, SameKeeps DEF SameCore
  <2>4. RecoverDone(p, k, o) \/ Return(p, k)
    BY <1>2, <1>3, <1>7, <2>1 DEF SettleJournalFails
  <2> QED BY <1>1, <1>6, <2>3, <2>4
<1>8. CASE SettleJournalOk(p) /\ secret = NoDoc
  <2>1. PICK g \in EntrySet : g = reset(x, NoDoc, "fresh")
    BY <1>4, <1>8, ResetGone
  <2>2. /\ EntryOK(p, g) /\ Keeps(x, g) /\ g.doc = NoDoc /\ g.stored = NoDoc
        /\ g.journal = x.journal /\ ~g.spent
    BY <1>4, <1>8, <2>1, ResetGone
  <2>3. PICK s \in EntrySet : s = settled(g, FALSE)
    BY MarksType
  <2>4. /\ EntryOK(p, s) /\ s.doc = NoDoc /\ s.stored = NoDoc /\ ~s.spent /\ s.recovered
        /\ ~s.blocked
    BY <2>2, <2>3, SettledOK
  <2>5. PICK k \in EntrySet : k = journalAt(s, "clear")
    BY MarksType DEF Steps
  <2>6. /\ k.doc = NoDoc /\ k.stored = NoDoc /\ ~k.spent /\ k.journal = "clear"
        /\ k.recovered /\ ~k.blocked
    BY <2>4, <2>5 DEF journalAt, EntrySet
  <2>7. ~Promotable
    BY <1>8 DEF CacheInv, JournalOK, Promotable
  <2>8. EntryOK(p, k)
    BY <2>4, <2>6, <2>7 DEF EntryOK, DocsOK, StepOK, OwnOK, SentOK
  <2>9. Keeps(e[p], k)
    <3>1. x.doc = x.stored
      BY <1>4, <1>5 DEF EntryOK, DocsOK
    <3> QED BY <1>2, <2>6, <3>1 DEF Keeps
  <2>10. LabelOK(p, "drop", k, NoOp) /\ "drop" \in Labels /\ NoOp \in OpSet
    BY <2>6, NoOpType DEF LabelOK, Labels, NoOp
  <2>11. Goto(p, "drop", k, NoOp)
    BY <1>2, <1>8, <2>1, <2>3, <2>5 DEF SettleJournalOk
  <2> QED BY <1>1, <2>8, <2>9, <2>10, <2>11 DEF Moves
<1>9. CASE SettleJournalOk(p) /\ secret # NoDoc
  <2>1. PICK s \in EntrySet : s = settled(x, FALSE)
    BY MarksType
  <2>2. /\ EntryOK(p, s) /\ s.journal = "none" /\ s.doc = x.doc /\ s.stored = x.stored
        /\ s.spent = x.spent /\ s.recovered /\ ~s.blocked
    BY <1>4, <1>5, <2>1, SettledOK
  <2>3. PICK life \in Lives :
           LET r == reconcileLocked(settled(e[p], FALSE), secret, life) IN
           IF r.doc = NoDoc THEN Return(p, r)
           ELSE RecoverDone(p, settle(r, jr[p], secret), op[p])
    BY <1>9 DEF SettleJournalOk
  <2>4. PICK r : r = reconcileLocked(s, secret, life)
    OBVIOUS
  <2>5. /\ r \in EntrySet /\ EntryOK(p, r) /\ Keeps(s, r) /\ r.journal = "none"
        /\ r.recovered /\ ~r.blocked /\ (~s.spent => ~r.spent)
        /\ (r.doc # NoDoc => r.stored = secret)
    BY <1>9, <2>2, <2>4, ReconcileOK
  <2>6. x.doc = x.stored /\ r.doc = r.stored
    BY <1>4, <1>5, <2>5 DEF EntryOK, DocsOK
  <2>7. CASE r.doc = NoDoc
    <3>1. Return(p, r)
      BY <1>2, <2>1, <2>3, <2>4, <2>7
    <3>2. Keeps(x, r)
      BY <2>6 DEF Keeps
    <3> QED BY <1>1, <1>6, <2>2, <2>5, <3>1, <3>2
  <2>8. CASE r.doc # NoDoc
    <3>1. PICK k : k = settle(r, jr[p], secret)
      OBVIOUS
    <3>2. RecoverDone(p, k, o)
      BY <1>2, <1>3, <2>1, <2>3, <2>4, <2>8, <3>1
    <3>3. k \in EntrySet /\ EntryOK(p, k) /\ Keeps(r, k) /\ (~r.spent => ~k.spent)
      BY <1>4, <2>5, <2>8, <3>1, SettleKeeps
    <3>4. Keeps(x, k)
      BY <2>6, <3>3 DEF Keeps
    <3> QED BY <1>1, <1>6, <2>2, <2>5, <3>2, <3>3, <3>4
  <2> QED BY <2>7, <2>8
<1> QED BY <1>1, <1>7, <1>8, <1>9

(* The reads of the secret, from each of the places that make them.  Only  *)
(* flush's leads to a write, of an entry that then knows what is stored.   *)
LEMMA SyncMoves ==
    ASSUME TypeOK, CacheInv, NEW p \in Procs,
           SyncReadOk(p) \/ SyncReadFails(p) \/ SyncReadDue(p)
           \/ FlushReadOk(p) \/ FlushReadFails(p)
    PROVE  Running(p) /\ Moves(p)
<1>1. /\ Running(p) /\ UNCHANGED <<store, provider, up, head>>
      /\ pc[p] \in {"sync", "reread", "flush"}
  BY DEF SyncReadOk, SyncReadFails, SyncReadDue, FlushReadOk, FlushReadFails, At
<1>2. PICK x \in EntrySet : x = e[p]
  BY <1>1, RunningOK
<1>3. PICK o \in OpSet : o = op[p]
  BY <1>1, RunningOK
<1>4. EntryOK(p, x) /\ LabelOK(p, pc[p], x, o)
  BY <1>1, <1>2, <1>3, RunningOK
<1>5. ASSUME NEW k \in EntrySet, EntryOK(p, k), Keeps(x, k), NEW n \in OpSet,
             \/ Return(p, k) \/ FlushDone(p, k, n)
             \/ n.at # "exists" /\ Flush(p, k, n)
      PROVE  Moves(p)
  <2>1. Ctl(p, k)
    BY <1>5, OwedEntry, ReturnCtl, FlushDoneCtl, FlushCtl
  <2> QED BY <1>1, <1>2, <1>5, <2>1, CtlMoves
<1>6. PICK g \in EntrySet : secret = NoDoc =>
         /\ g = reset(x, NoDoc, "fresh") /\ EntryOK(p, g) /\ Keeps(x, g) /\ g.doc = NoDoc
         /\ g.journal = x.journal /\ ~g.spent
  BY <1>4, ResetGone
<1>7. ASSUME NEW life \in Lives, secret # NoDoc,
             NEW r, r = reconcileLocked(x, secret, life)
      PROVE  /\ r \in EntrySet /\ EntryOK(p, r) /\ Keeps(x, r) /\ r.journal = x.journal
             /\ ~x.spent => ~r.spent
             /\ r.doc # NoDoc => r.stored = secret
  BY <1>4, <1>7, ReconcileOK
<1>8. PICK c \in EntrySet : c = [x EXCEPT !.checked = TRUE]
  BY MarksType
<1>9. SameCore(x, c)
  BY <1>8 DEF SameCore, EntrySet
<1>10. EntryOK(p, c) /\ Keeps(x, c)
  BY <1>4, <1>9, SameEntry, SameKeeps
<1>11. Keeps(x, x)
  BY DEF Keeps
<1>12. o.at # "exists"
  BY <1>1, <1>4 DEF LabelOK
<1>13. CASE SyncReadOk(p)
  <2>1. CASE secret = NoDoc
    BY <1>1, <1>2, <1>3, <1>5, <1>6, <1>13, <2>1 DEF SyncReadOk
  <2>2. CASE secret # NoDoc
    <3>1. PICK life \in Lives :
             LET r == reconcileLocked(x, secret, life) IN
             IF r.doc = NoDoc THEN Return(p, r)
             ELSE Flush(p, r, [op[p] EXCEPT !.read = TRUE])
      BY <1>2, <1>13, <2>2 DEF SyncReadOk
    <3>2. PICK r : r = reconcileLocked(x, secret, life)
      OBVIOUS
    <3>3. PICK n \in OpSet : n = [o EXCEPT !.read = TRUE]
      BY DEF OpSet
    <3>4. n.at # "exists"
      BY <1>12, <3>3 DEF OpSet
    <3>5. Return(p, r) \/ Flush(p, r, n)
      BY <1>3, <3>1, <3>2, <3>3
    <3> QED BY <1>1, <1>5, <1>7, <2>2, <3>2, <3>4, <3>5
  <2> QED BY <2>1, <2>2
<1>14. CASE SyncReadFails(p)
  <2>1. Return(p, x) \/ Flush(p, c, o)
    BY <1>2, <1>3, <1>8, <1>14 DEF SyncReadFails
  <2> QED BY <1>1, <1>4, <1>5, <1>10, <1>11, <1>12, <2>1
<1>15. CASE SyncReadDue(p)
  <2>1. ~x.spent
    BY <1>4, <1>15 DEF LabelOK, SyncReadDue, At
  <2>2. CASE secret = NoDoc /\ Return(p, reset(e[p], NoDoc, "fresh"))
    BY <1>1, <1>2, <1>3, <1>5, <1>6, <2>2
  <2>3. CASE Return(p, failed([e[p] EXCEPT !.checked = TRUE], "unread"))
    <3>1. PICK k \in EntrySet : k = failed(c, "unread")
      BY MarksType
    <3>2. SameCore(c, k)
      <4>1. ~c.spent
        BY <1>9, <2>1 DEF SameCore
      <4> QED BY <3>1, <4>1 DEF SameCore, failed, EntrySet
    <3>3. SameCore(x, k)
      BY <1>9, <3>2 DEF SameCore
    <3>4. EntryOK(p, k) /\ Keeps(x, k)
      BY <1>4, <3>3, SameEntry, SameKeeps
    <3>5. Return(p, k)
      BY <1>2, <1>8, <2>3, <3>1
    <3> QED BY <1>1, <1>3, <1>5, <3>4, <3>5
  <2>4. CASE /\ secret # NoDoc
             /\ \E life \in Lives :
                  LET r == reconcileLocked(e[p], secret, life) IN
                  IF due(r) THEN Goto(p, "create", r, NoOp) ELSE Return(p, r)
    <3>1. PICK life \in Lives :
             LET r == reconcileLocked(x, secret, life) IN
             IF due(r) THEN Goto(p, "create", r, NoOp) ELSE Return(p, r)
      BY <1>2, <2>4
    <3>2. PICK r : r = reconcileLocked(x, secret, life)
      OBVIOUS
    <3>3. r \in EntrySet /\ EntryOK(p, r) /\ Keeps(x, r)
      BY <1>7, <2>4, <3>2
    <3>4. CASE due(r)
      <4>1. LabelOK(p, "create", r, NoOp) /\ "create" \in Labels /\ NoOp \in OpSet
        BY <3>4, NoOpType DEF LabelOK, due, pendingLocked, Labels, NoOp
      <4>2. Goto(p, "create", r, NoOp)
        BY <3>1, <3>2, <3>4
      <4> QED BY <1>1, <1>2, <3>3, <4>1, <4>2 DEF Moves
    <3>5. CASE ~due(r)
      BY <1>1, <1>3, <1>5, <3>1, <3>2, <3>3, <3>5
    <3> QED BY <3>4, <3>5
  <2> QED BY <1>15, <2>2, <2>3, <2>4 DEF SyncReadDue
<1>16. CASE FlushReadOk(p)
  <2>1. x.journal # "none"
    BY <1>4, <1>16 DEF LabelOK, FlushReadOk, At
  <2>2. CASE secret = NoDoc
    <3>1. LabelOK(p, "drop", g, NoOp) /\ "drop" \in Labels /\ NoOp \in OpSet
      BY <1>6, <2>1, <2>2, NoOpType DEF LabelOK, Labels, NoOp
    <3>2. Goto(p, "drop", g, NoOp)
      BY <1>2, <1>6, <1>16, <2>2 DEF FlushReadOk
    <3> QED BY <1>1, <1>2, <1>6, <2>2, <3>1, <3>2 DEF Moves
  <2>3. CASE secret # NoDoc
    <3>1. PICK life \in Lives :
             LET r == reconcileLocked(x, secret, life) IN
              \/ r.doc = NoDoc /\ Return(p, r)
              \/ r.doc # NoDoc /\ writeDue(r) /\ Goto(p, "write", r, op[p])
              \/ r.doc # NoDoc /\ ~writeDue(r) /\ FlushDone(p, r, op[p])
      BY <1>2, <1>16, <2>3 DEF FlushReadOk
    <3>2. PICK r : r = reconcileLocked(x, secret, life)
      OBVIOUS
    <3>3. /\ r \in EntrySet /\ EntryOK(p, r) /\ Keeps(x, r) /\ r.journal = x.journal
          /\ r.doc # NoDoc => r.stored = secret
      BY <1>7, <2>3, <3>2
    <3>4. CASE r.doc # NoDoc /\ Goto(p, "write", r, o)
      <4>1. LabelOK(p, "write", r, o) /\ "write" \in Labels
        BY <1>12, <2>1, <3>3, <3>4 DEF LabelOK, Labels
      <4> QED BY <1>1, <1>2, <3>3, <3>4, <4>1 DEF Moves
    <3>5. CASE Return(p, r) \/ FlushDone(p, r, o)
      BY <1>1, <1>5, <3>3, <3>5
    <3> QED BY <1>3, <3>1, <3>2, <3>4, <3>5
  <2> QED BY <2>2, <2>3
<1>17. CASE FlushReadFails(p)
  <2>1. PICK k \in EntrySet : k = writeFailed(c)
    BY MarksType
  <2>2. SameCore(c, k)
    BY <2>1 DEF SameCore, writeFailed, EntrySet
  <2>3. SameCore(x, k)
    BY <1>9, <2>2 DEF SameCore
  <2>4. EntryOK(p, k) /\ Keeps(x, k)
    BY <1>4, <2>3, SameEntry, SameKeeps
  <2>5. Return(p, x) \/ FlushDone(p, k, o)
    BY <1>2, <1>3, <1>8, <1>17, <2>1 DEF FlushReadFails
  <2> QED BY <1>1, <1>4, <1>5, <1>11, <2>4, <2>5
<1> QED BY <1>1, <1>13, <1>14, <1>15, <1>16, <1>17

LEMMA ReadMoves ==
    ASSUME TypeOK, CacheInv, NEW p \in Procs, Read(p)
    PROVE  Running(p) /\ Moves(p)
  BY ReadJournalMoves, SettleMoves, SyncMoves DEF Read

(* A refresh that was not sent: its journal is deleted, nothing else.      *)
LEMMA NotSentMoves ==
    ASSUME TypeOK, CacheInv, NEW p \in Procs, RenewNotSent(p)
    PROVE  Running(p) /\ Moves(p)
<1>1. Running(p) /\ pc[p] = "call" /\ UNCHANGED <<store, provider, up, head>>
  BY DEF RenewNotSent, At
<1>2. PICK x \in EntrySet : x = e[p]
  BY <1>1, RunningOK
<1>3. EntryOK(p, x) /\ LabelOK(p, "call", x, op[p])
  BY <1>1, <1>2, RunningOK
<1>4. PICK f \in EntrySet : f = failed(x, "renewal")
  BY MarksType
<1>5. PICK k \in EntrySet : k = journalAt(f, "clear")
  BY MarksType DEF Steps
<1>6. /\ k.doc = x.doc /\ k.stored = x.stored /\ k.journal = "clear" /\ ~k.spent
      /\ k.recovered = x.recovered /\ k.blocked = x.blocked
  BY <1>4, <1>5 DEF journalAt, failed, EntrySet
<1>7. /\ ~x.spent /\ x.journal = "started" /\ x.doc = x.stored
      /\ journal = Renewing(p, x.doc) \/ journal = NoJournal
  BY <1>3 DEF LabelOK
<1>8. ~Promotable
  BY <1>7 DEF Promotable, Renewing, Journal, NoJournal
<1>9. DocsOK(k) /\ SentOK(p, k)
  BY <1>3, <1>6, <1>7 DEF EntryOK, DocsOK, SentOK
<1>10. StepOK(p, k)
  BY <1>6, <1>8 DEF StepOK
<1>11. OwnOK(p, k)
  BY <1>3, <1>6, <1>7 DEF EntryOK, OwnOK
<1>12. Keeps(e[p], k)
  BY <1>2, <1>6, <1>7 DEF Keeps
<1>13. PICK o \in OpSet : o = [NoOp EXCEPT !.at = "renew"]
  BY NoOpType
<1>14. o.at # "exists"
  BY <1>13 DEF NoOp
<1>15. Flush(p, k, o)
  BY <1>2, <1>4, <1>5, <1>13 DEF RenewNotSent
<1>16. EntryOK(p, k)
  BY <1>9, <1>10, <1>11 DEF EntryOK
<1>17. Ctl(p, k)
  BY <1>14, <1>15, <1>16, OwedEntry, FlushCtl
<1> QED BY <1>1, <1>12, <1>16, <1>17, CtlMoves

-----------------------------------------------------------------------------
(* The steps that change the store or the provider *)

LEMMA CtlKeeps ==
    ASSUME TypeOK, RunsOK, NEW p \in Procs, Running(p), up' = up,
           NEW x \in EntrySet, Ctl(p, x), EntryOK(p, x)',
           sent'[p] # {} => journal'.owner \in {p, Nobody},
           journal'.owner \in {journal.owner, p, Nobody},
           rotated'[p] \subseteq sent'[p], sent'[p] \subseteq 1..issued',
           \A q \in Procs \ {p} : sent'[q] = sent[q] /\ rotated'[q] = rotated[q]
    PROVE  RunsOK'
<1>1. PICK l \in Labels \ {"settle", "write", "call"}, r \in EntrySet, o \in OpSet :
        Goto(p, l, r, o) /\ SameCore(x, r) /\ LabelOK(p, l, r, o)
  BY DEF Ctl
<1>2. EntryOK(p, r)'
  BY <1>1, SameEntry
<1>3. LabelOK(p, l, r, o)' /\ l \in Labels /\ l # "settle"
  BY <1>1 DEF LabelOK
<1> QED BY <1>1, <1>2, <1>3, StepKeeps

(* What is left to show of the valid document after a step of p. *)
HeadAt(r) ==
    /\ Succeeds(r)
    /\ head # NoDoc => secret = head \/ Promotable \/ Holds(r)
    /\ head = NoDoc => secret \in {NoDoc, Junk} \cup lost
    /\ Promotable => head = journal.doc
    /\ head # NoDoc => head \in live
    /\ lost \cap live = {}

LEMMA HeadBefore ==
    ASSUME RunsOK, HeadOK, NEW p \in Procs, Running(p)
    PROVE  HeadAt(e[p])
<1>1. \A q \in Procs : Running(q) => q = p
  BY DEF RunsOK
<1> QED BY <1>1 DEF HeadOK, HeadAt

LEMMA HeadStep ==
    ASSUME TypeOK, RunsOK, NEW p \in Procs, Running(p), up' = up,
           NEW x, NEW l, NEW r, NEW o, Goto(p, l, r, o), SameCore(x, r), HeadAt(x)',
           l = "write" => secret' \in {x.stored, x.doc, NoDoc}
    PROVE  HeadOK' /\ WriteOK'
<1>1. /\ e'[p] = r /\ pc'[p] = l
      /\ \A q \in Procs \ {p} : e'[q] = e[q] /\ pc'[q] = pc[q]
  BY DEF Goto, TypeOK
<1>2. \A q \in Procs : Running(q)' => q = p
  BY DEF RunsOK, Running
<1>3. WriteOK'
  BY <1>1, <1>2 DEF WriteOK, At, SameCore
<1>4. HeadAt(r)'
  BY DEF HeadAt, SameCore, Succeeds, Holds
<1>5. Running(p)'
  BY DEF Running
<1>6. \A q \in Procs : Running(q)' => Succeeds(e[q])'
  BY <1>1, <1>2, <1>4 DEF HeadAt, Succeeds
<1>7. Holds(r)' => Holds(e[p])'
  BY <1>1 DEF Holds
<1>8. HeadOK'
  BY <1>4, <1>5, <1>6, <1>7 DEF HeadOK, HeadAt
<1> QED BY <1>3, <1>8

LEMMA CtlHead ==
    ASSUME TypeOK, RunsOK, NEW p \in Procs, Running(p), up' = up,
           NEW x \in EntrySet, Ctl(p, x), HeadAt(x)'
    PROVE  HeadOK' /\ WriteOK'
<1>1. PICK l \in Labels \ {"settle", "write", "call"}, r \in EntrySet, o \in OpSet :
        Goto(p, l, r, o) /\ SameCore(x, r)
  BY DEF Ctl
<1> QED BY <1>1, HeadStep

(* Deleting the journal of a secret that is gone loses no document. *)
LEMMA DropKeeps ==
    ASSUME TypeOK, CacheInv, NEW p \in Procs, dropJournal(p)
    PROVE  CacheInv' /\ (WriteOK /\ HeadOK => WriteOK' /\ HeadOK')
<1>1. /\ Running(p) /\ pc[p] = "drop" /\ journal' \in {journal, NoJournal}
      /\ UNCHANGED <<secret, live, issued, lost, sent, rotated, up, head>>
  BY DEF dropJournal, At, provider
<1>2. PICK x \in EntrySet : x = e[p]
  BY <1>1, RunningOK
<1>3. EntryOK(p, x) /\ LabelOK(p, "drop", x, op[p])
  BY <1>1, <1>2, RunningOK
<1>4. PICK k \in EntrySet :
        /\ Return(p, k)
        /\ \/ k = journalAt(x, "none") /\ journal' = NoJournal
           \/ k = writeFailed(x)
  <2>1. journalAt(x, "none") \in EntrySet /\ writeFailed(x) \in EntrySet
    BY MarksType DEF Steps
  <2> QED BY <1>2, <2>1 DEF dropJournal
<1>5. /\ k.doc = x.doc /\ k.stored = x.stored /\ k.spent = x.spent
      /\ k.recovered = x.recovered /\ k.blocked = x.blocked
      /\ k.journal = x.journal \/ (k.journal = "none" /\ journal' = NoJournal)
  BY <1>4 DEF journalAt, writeFailed, EntrySet
<1>6. x.journal # "none" /\ x.doc = NoDoc /\ x.doc = x.stored
  BY <1>3 DEF LabelOK, EntryOK, DocsOK
<1>7. ~Promotable /\ ~Promotable'
  BY <1>1, <1>3, <1>6 DEF EntryOK, StepOK, Promotable, NoJournal
<1>8. DocsOK(k)' /\ SentOK(p, k)'
  BY <1>1, <1>3, <1>5, <1>6 DEF EntryOK, DocsOK, SentOK
<1>9. StepOK(p, k)'
  BY <1>5, <1>6, <1>7 DEF StepOK
<1>10. OwnOK(p, k)'
  <2>1. NoJournal.owner # p /\ NoJournal.phase = "none"
    BY ProcsAssumption DEF NoJournal
  <2> QED BY <1>1, <1>3, <1>5, <1>6, <2>1 DEF OwnOK, EntryOK
<1>11. EntryOK(p, k)'
  BY <1>8, <1>9, <1>10 DEF EntryOK
<1>12. Ctl(p, k)
  BY <1>4, ReturnCtl
<1>13. /\ sent'[p] # {} => journal'.owner \in {p, Nobody}
       /\ journal'.owner \in {journal.owner, p, Nobody}
       /\ rotated'[p] \subseteq sent'[p] /\ sent'[p] \subseteq 1..issued'
       /\ \A q \in Procs \ {p} : sent'[q] = sent[q] /\ rotated'[q] = rotated[q]
  BY <1>1 DEF CacheInv, RunsOK, RunOK, NoJournal
<1>14. RunsOK'
  BY <1>1, <1>11, <1>12, <1>13, CtlKeeps DEF CacheInv
<1>15. JournalOK' /\ BoundsOK'
  <2>1. NoDoc <= issued
    BY DEF TypeOK, Docs, NoDoc
  <2> QED BY <1>1, <2>1 DEF CacheInv, JournalOK, BoundsOK, NoJournal
<1>16. ASSUME HeadOK PROVE WriteOK' /\ HeadOK'
  <2>1. HeadAt(x)
    BY <1>1, <1>2, <1>16, HeadBefore DEF CacheInv
  <2>2. HeadAt(k)'
    BY <1>1, <1>5, <1>6, <1>7, <2>1 DEF HeadAt, Succeeds, Holds
  <2> QED BY <1>1, <1>12, <2>2, CtlHead DEF CacheInv
<1> QED BY <1>14, <1>15, <1>16 DEF CacheInv

(* flush's three writes, each with the entry k it leaves: as it was when   *)
(* the write reported a failure, one step on when it did not.              *)
Kept(x, k) ==
    /\ k.doc = x.doc /\ k.spent = x.spent
    /\ k.recovered = x.recovered /\ k.blocked = x.blocked

(* The document goes into the journal. *)
LEMMA WriteRenewed ==
    ASSUME TypeOK, CacheInv, NEW p \in Procs, Running(p),
           NEW x \in EntrySet, x = e[p], NEW k \in EntrySet, Kept(x, k),
           x.journal = "started", x.doc # x.stored, k.stored = x.stored,
           UNCHANGED <<secret, live, issued, lost, sent, rotated, up, head>>,
           \/ k.journal = "started" /\ k.from = x.from /\ journal' = journal
           \/ /\ k.journal = "renewed" \/ (k.journal = "started" /\ k.from = x.from)
              /\ journal' = Journal("renewed", p, x.from, x.doc)
    PROVE  /\ EntryOK(p, k)' /\ JournalOK' /\ BoundsOK'
           /\ sent'[p] # {} => journal'.owner \in {p, Nobody}
           /\ journal'.owner \in {journal.owner, p, Nobody}
           /\ HeadOK => HeadAt(k)'
<1>1. EntryOK(p, x)
  BY RunningOK
<1>2. /\ x.from = x.stored /\ x.doc <= issued /\ x.stored <= issued
      /\ x.doc # NoDoc /\ x.stored # NoDoc /\ x.stored \notin live
      /\ \/ journal = Renewing(p, x.stored)
         \/ journal = Journal("renewed", p, x.stored, x.doc)
         \/ journal = NoJournal /\ secret # x.stored
  BY <1>1 DEF EntryOK, DocsOK, StepOK
<1>3. \/ journal' = journal /\ k.journal = "started" /\ k.from = x.from
      \/ journal' = Journal("renewed", p, x.stored, x.doc)
  BY <1>2
<1>4. DocsOK(k)' /\ SentOK(p, k)'
  BY <1>1 DEF EntryOK, DocsOK, SentOK, Kept
<1>5. StepOK(p, k)'
  <2>1. CASE journal' = journal /\ k.journal = "started" /\ k.from = x.from
    BY <1>2, <2>1 DEF StepOK, Kept, Renewing
  <2>2. CASE journal' = Journal("renewed", p, x.stored, x.doc)
    <3>1. journal'.phase = "renewed" /\ journal'.from = x.stored
      BY <2>2 DEF Journal
    <3> QED BY <1>2, <2>2, <3>1 DEF StepOK, Kept
  <2> QED BY <1>3, <2>1, <2>2
<1>6. OwnOK(p, k)'
  <2>1. journal'.owner = p \/ journal' = journal
    BY <1>3 DEF Journal
  <2> QED BY <1>1, <2>1 DEF EntryOK, OwnOK, Kept
<1>7. JournalOK'
  <2>1. CASE journal' = journal
    BY <2>1 DEF CacheInv, JournalOK
  <2>2. CASE journal' = Journal("renewed", p, x.stored, x.doc)
    BY <1>2, <2>2 DEF JournalOK, Journal
  <2> QED BY <1>3, <2>1, <2>2
<1>8. BoundsOK'
  BY DEF CacheInv, BoundsOK
<1>9. /\ sent'[p] # {} => journal'.owner \in {p, Nobody}
      /\ journal'.owner \in {journal.owner, p, Nobody}
  BY <1>3 DEF CacheInv, RunsOK, RunOK, Journal
<1>10. ASSUME HeadOK PROVE HeadAt(k)'
  <2>1. HeadAt(x)
    BY <1>10, HeadBefore DEF CacheInv
  <2>2. Succeeds(k)'
    BY <2>1 DEF HeadAt, Succeeds, Kept
  <2>3. CASE journal' = journal /\ k.journal = "started"
    BY <2>1, <2>2, <2>3 DEF HeadAt, Promotable, Holds, Kept
  <2>4. CASE journal' = Journal("renewed", p, x.stored, x.doc)
    <3>1. Promotable' <=> secret = x.stored
      BY <2>4 DEF Promotable, Journal
    <3>2. Promotable => secret = x.stored
      BY <1>2 DEF Promotable, Journal, Renewing, NoJournal
    <3>3. Promotable' => head' = journal'.doc
      BY <2>1, <2>4, <3>1 DEF HeadAt, Succeeds, Journal
    <3> QED BY <2>1, <2>2, <3>1, <3>2, <3>3 DEF HeadAt, Holds
  <2> QED BY <1>3, <2>3, <2>4
<1> QED BY <1>4, <1>5, <1>6, <1>7, <1>8, <1>9, <1>10 DEF EntryOK

(* The journal is deleted once nothing depends on it. *)
LEMMA WriteClear ==
    ASSUME TypeOK, CacheInv, NEW p \in Procs, Running(p),
           NEW x \in EntrySet, x = e[p], NEW k \in EntrySet, Kept(x, k),
           x.journal # "none", x.doc = x.stored, k.stored = x.stored,
           UNCHANGED <<secret, live, issued, lost, sent, rotated, up, head>>,
           \/ k.journal = "clear" /\ journal' \in {journal, NoJournal}
           \/ k.journal = "none" /\ journal' = NoJournal
    PROVE  /\ EntryOK(p, k)' /\ JournalOK' /\ BoundsOK'
           /\ sent'[p] # {} => journal'.owner \in {p, Nobody}
           /\ journal'.owner \in {journal.owner, p, Nobody}
           /\ HeadOK => HeadAt(k)'
<1>1. EntryOK(p, x)
  BY RunningOK
<1>2. ~Promotable
  BY <1>1 DEF EntryOK, StepOK
<1>3. /\ NoJournal.owner = Nobody /\ NoJournal.phase = "none" /\ Nobody # p
      /\ NoJournal.from = NoDoc /\ NoJournal.doc = NoDoc /\ NoDoc <= issued
  BY ProcsAssumption DEF NoJournal, TypeOK, Docs, NoDoc
<1>4. ~Promotable'
  BY <1>2, <1>3 DEF Promotable
<1>5. DocsOK(k)' /\ SentOK(p, k)'
  BY <1>1 DEF EntryOK, DocsOK, SentOK, Kept
<1>6. StepOK(p, k)'
  BY <1>4 DEF StepOK, Kept
<1>7. OwnOK(p, k)'
  BY <1>1, <1>3 DEF EntryOK, OwnOK, Kept
<1>8. JournalOK' /\ BoundsOK'
  BY <1>3 DEF CacheInv, JournalOK, BoundsOK
<1>9. /\ sent'[p] # {} => journal'.owner \in {p, Nobody}
      /\ journal'.owner \in {journal.owner, p, Nobody}
  BY <1>3 DEF CacheInv, RunsOK, RunOK
<1>10. ASSUME HeadOK PROVE HeadAt(k)'
  <2>1. HeadAt(x)
    BY <1>10, HeadBefore DEF CacheInv
  <2> QED BY <1>2, <1>4, <2>1 DEF HeadAt, Succeeds, Holds, Kept
<1> QED BY <1>5, <1>6, <1>7, <1>8, <1>9, <1>10 DEF EntryOK

(* The document becomes the secret.  The part about the valid document     *)
(* needs that what is replaced is what flush read.                         *)
LEMMA WriteSecret ==
    ASSUME TypeOK, CacheInv, NEW p \in Procs, Running(p),
           NEW x \in EntrySet, x = e[p], NEW k \in EntrySet, Kept(x, k),
           x.journal = "renewed", x.doc # x.stored,
           UNCHANGED <<journal, live, issued, lost, sent, rotated, up, head>>,
           \/ k.journal = "renewed" /\ k.stored = x.stored /\ secret' = secret
           \/ k.journal = "renewed" /\ k.stored = x.stored /\ secret # NoDoc /\ secret' = x.doc
           \/ k.journal = "clear" /\ k.stored = x.doc /\ secret # NoDoc /\ secret' = x.doc
    PROVE  /\ EntryOK(p, k)' /\ JournalOK' /\ BoundsOK'
           /\ sent'[p] # {} => journal'.owner \in {p, Nobody}
           /\ journal'.owner \in {journal.owner, p, Nobody}
           /\ HeadOK /\ secret \in {x.stored, x.doc, NoDoc} => HeadAt(k)'
<1>1. EntryOK(p, x)
  BY RunningOK
<1>2. /\ x.doc <= issued /\ x.stored <= issued
      /\ x.doc # NoDoc /\ x.stored # NoDoc /\ x.stored \notin live
      /\ journal = NoJournal \/ (journal.phase = "renewed" /\ journal.from = x.stored)
  BY <1>1 DEF EntryOK, DocsOK, StepOK
<1>3. secret' = x.doc => ~Promotable'
  BY <1>2 DEF Promotable, NoJournal
<1>4. DocsOK(k)'
  BY <1>1, <1>2 DEF EntryOK, DocsOK, Kept
<1>5. SentOK(p, k)'
  BY <1>1, <1>2 DEF EntryOK, SentOK, Kept
<1>6. StepOK(p, k)'
  BY <1>2, <1>3 DEF StepOK, Kept
<1>7. OwnOK(p, k)'
  BY <1>1 DEF EntryOK, OwnOK, Kept
<1>8. JournalOK' /\ BoundsOK'
  BY <1>2 DEF CacheInv, JournalOK, BoundsOK
<1>9. /\ sent'[p] # {} => journal'.owner \in {p, Nobody}
      /\ journal'.owner \in {journal.owner, p, Nobody}
  BY DEF CacheInv, RunsOK, RunOK
<1>10. ASSUME HeadOK, secret \in {x.stored, x.doc, NoDoc} PROVE HeadAt(k)'
  <2>1. HeadAt(x)
    BY <1>10, HeadBefore DEF CacheInv
  <2>2. CASE secret' = secret /\ k.stored = x.stored
    BY <2>1, <2>2 DEF HeadAt, Succeeds, Holds, Promotable, Kept
  <2>3. CASE secret' = x.doc /\ secret = x.stored
    <3>1. head' = x.doc
      BY <2>1, <2>3 DEF HeadAt, Succeeds
    <3>2. Succeeds(k)'
      BY <2>3, <3>1 DEF Succeeds, Kept
    <3> QED BY <1>2, <1>3, <2>1, <2>3, <3>1, <3>2 DEF HeadAt
  <2>4. CASE secret' = x.doc /\ secret = x.doc
    <3>1. ~Promotable
      BY <1>2, <2>4 DEF Promotable, NoJournal
    <3>2. Succeeds(k)'
      BY <2>4 DEF Succeeds, Kept
    <3> QED BY <1>3, <2>1, <2>4, <3>1, <3>2 DEF HeadAt, Holds
  <2> QED BY <1>10, <2>2, <2>3, <2>4
<1> QED BY <1>4, <1>5, <1>6, <1>7, <1>8, <1>9, <1>10 DEF EntryOK

LEMMA FlushWriteKeeps ==
    ASSUME TypeOK, CacheInv, NEW p \in Procs, FlushWriteOk(p) \/ FlushWriteFails(p)
    PROVE  CacheInv' /\ (WriteOK /\ HeadOK => WriteOK' /\ HeadOK')
<1>1. /\ Running(p) /\ pc[p] = "write"
      /\ UNCHANGED <<live, issued, lost, sent, rotated, up, head>>
  BY DEF FlushWriteOk, FlushWriteFails, At, provider
<1>2. PICK x \in EntrySet : x = e[p]
  BY <1>1, RunningOK
<1>3. PICK o \in OpSet : o = op[p]
  BY <1>1, RunningOK
<1>4. EntryOK(p, x) /\ LabelOK(p, "write", x, o)
  BY <1>1, <1>2, <1>3, RunningOK
<1>5. x.journal # "none" /\ x.doc # NoDoc /\ o.at # "exists"
  BY <1>4 DEF LabelOK
<1>6. WriteOK => secret \in {x.stored, x.doc, NoDoc}
  BY <1>1, <1>2 DEF WriteOK, At
<1>7. PICK st \in {"started", "clear", "renewed"} :
        /\ st = stepOf(x)
        /\ st = "clear" => x.doc = x.stored
        /\ st # "clear" => x.doc # x.stored /\ x.journal = st
  <2>1. x.journal \in {"started", "renewed", "clear"}
    BY <1>5 DEF EntrySet
  <2>2. x.journal = "clear" => x.doc = x.stored
    BY <1>4 DEF EntryOK, DocsOK
  <2> QED BY <1>5, <2>1, <2>2 DEF stepOf
<1>8. \/ Landed(p, st) /\ writable(st)
      \/ FlushWriteFails(p) /\ UNCHANGED <<secret, journal>>
  BY <1>2, <1>7 DEF FlushWriteOk, FlushWriteFails, store
<1>9. PICK k \in EntrySet :
        \/ /\ FlushWriteOk(p) /\ k = stepped(x, st)
           /\ (writeDue(k) /\ Goto(p, "write", k, o)) \/ FlushDone(p, k, o)
        \/ FlushWriteFails(p) /\ k = writeFailed(journalAt(x, st)) /\ FlushDone(p, k, o)
  <2>1. st \in Steps
    BY DEF Steps
  <2>2. stepped(x, st) \in EntrySet /\ journalAt(x, st) \in EntrySet
    BY <2>1, SteppedType, MarksType
  <2>3. writeFailed(journalAt(x, st)) \in EntrySet
    BY <2>2, MarksType
  <2> QED BY <1>2, <1>3, <1>7, <2>2, <2>3 DEF FlushWriteOk, FlushWriteFails
<1>10. CASE k = stepped(x, st) /\ Landed(p, st) /\ writable(st)
            /\ ((writeDue(k) /\ Goto(p, "write", k, o)) \/ FlushDone(p, k, o))
  <2>1. PICK w \in EntrySet : w = [x EXCEPT !.cooling = @ \ {"write"}]
    BY DEF EntrySet, Timers
  <2>2. SameCore(x, w)
    BY <2>1 DEF SameCore, EntrySet
  <2>3. /\ Kept(x, k)
        /\ st = "started" => k.journal = "renewed" /\ k.stored = x.stored
        /\ st = "clear" => k.journal = "none" /\ k.stored = x.stored
        /\ st = "renewed" => k.journal = "clear" /\ k.stored = x.doc
    <3>1. k = CASE st = "started" -> journalAt(w, "renewed")
                [] st = "clear" -> journalAt(w, "none")
                [] OTHER -> [journalAt(w, IF st = "renewed" THEN "clear" ELSE st)
                                EXCEPT !.stored = x.doc]
      BY <1>10, <2>1 DEF stepped
    <3>2. CASE st = "started"
      <4>1. k = journalAt(w, "renewed")
        BY <3>1, <3>2
      <4> QED BY <2>2, <3>2, <4>1 DEF journalAt, EntrySet, Kept, SameCore
    <3>3. CASE st = "clear"
      <4>1. k = journalAt(w, "none")
        BY <3>1, <3>3
      <4> QED BY <2>2, <3>3, <4>1 DEF journalAt, EntrySet, Kept, SameCore
    <3>4. CASE st = "renewed"
      <4>1. k = [journalAt(w, "clear") EXCEPT !.stored = x.doc]
        BY <3>1, <3>4
      <4> QED BY <2>2, <3>4, <4>1 DEF journalAt, EntrySet, Kept, SameCore
    <3> QED BY <3>2, <3>3, <3>4
  <2>4. /\ EntryOK(p, k)' /\ JournalOK' /\ BoundsOK'
        /\ sent'[p] # {} => journal'.owner \in {p, Nobody}
        /\ journal'.owner \in {journal.owner, p, Nobody}
        /\ HeadOK /\ WriteOK => HeadAt(k)'
    <3>1. CASE st = "started"
      <4>1. journal' = Journal("renewed", p, x.from, x.doc) /\ secret' = secret
        BY <1>2, <1>10, <3>1 DEF Landed
      <4> QED BY <1>1, <1>2, <1>7, <2>3, <3>1, <4>1, WriteRenewed
    <3>2. CASE st = "clear"
      <4>1. journal' = NoJournal /\ secret' = secret
        BY <1>10, <3>2 DEF Landed
      <4> QED BY <1>1, <1>2, <1>5, <1>7, <2>3, <3>2, <4>1, WriteClear
    <3>3. CASE st = "renewed"
      <4>1. journal' = journal /\ secret' = x.doc /\ secret # NoDoc
        BY <1>2, <1>10, <3>3 DEF Landed, writable
      <4> QED BY <1>1, <1>2, <1>6, <1>7, <2>3, <3>3, <4>1, WriteSecret
    <3> QED BY <3>1, <3>2, <3>3
  <2>5. (st = "renewed" => secret' = x.doc) /\ (st # "renewed" => secret' = secret)
    BY <1>2, <1>10 DEF Landed
  <2>6. /\ rotated'[p] \subseteq sent'[p] /\ sent'[p] \subseteq 1..issued'
        /\ \A q \in Procs \ {p} : sent'[q] = sent[q] /\ rotated'[q] = rotated[q]
    BY <1>1 DEF CacheInv, RunsOK
  <2>7. CASE FlushDone(p, k, o)
    <3>1. Ctl(p, k)
      BY <2>7, FlushDoneCtl
    <3>2. RunsOK'
      BY <1>1, <2>4, <2>6, <3>1, CtlKeeps DEF CacheInv
    <3>3. WriteOK /\ HeadOK => WriteOK' /\ HeadOK'
      BY <1>1, <2>4, <3>1, CtlHead DEF CacheInv
    <3> QED BY <2>4, <3>2, <3>3 DEF CacheInv
  <2>8. CASE writeDue(k) /\ Goto(p, "write", k, o)
    <3>1. k.journal # "none"
      BY <1>7, <2>3, <2>8 DEF writeDue, pendingLocked, Kept
    <3>2. LabelOK(p, "write", k, o)' /\ "write" \in Labels
      BY <1>5, <2>3, <3>1 DEF LabelOK, Labels, Kept
    <3>3. RunsOK'
      BY <1>1, <2>4, <2>6, <2>8, <3>2, StepKeeps DEF CacheInv
    <3>4. SameCore(k, k)
      BY DEF SameCore
    <3>5. WriteOK => secret' \in {k.stored, k.doc, NoDoc}
      BY <1>6, <1>7, <2>3, <2>5 DEF Kept
    <3>6. WriteOK /\ HeadOK => WriteOK' /\ HeadOK'
      BY <1>1, <2>4, <2>8, <3>4, <3>5, HeadStep DEF CacheInv
    <3> QED BY <2>4, <3>3, <3>6 DEF CacheInv
  <2> QED BY <1>10, <2>7, <2>8
<1>11. CASE k = writeFailed(journalAt(x, st)) /\ FlushDone(p, k, o)
            /\ (UNCHANGED <<secret, journal>> \/ (Landed(p, st) /\ writable(st)))
  <2>1. /\ Kept(x, k) /\ k.stored = x.stored /\ k.journal = st
        /\ st = "started" => k.from = x.from
    BY <1>11 DEF writeFailed, journalAt, EntrySet, Kept
  <2>2. /\ EntryOK(p, k)' /\ JournalOK' /\ BoundsOK'
        /\ sent'[p] # {} => journal'.owner \in {p, Nobody}
        /\ journal'.owner \in {journal.owner, p, Nobody}
        /\ HeadOK /\ WriteOK => HeadAt(k)'
    <3>1. CASE st = "started"
      <4>1. /\ secret' = secret
            /\ journal' = journal \/ journal' = Journal("renewed", p, x.from, x.doc)
        BY <1>2, <1>11, <3>1 DEF Landed
      <4> QED BY <1>1, <1>2, <1>7, <2>1, <3>1, <4>1, WriteRenewed
    <3>2. CASE st = "clear"
      <4>1. secret' = secret /\ journal' \in {journal, NoJournal}
        BY <1>11, <3>2 DEF Landed
      <4> QED BY <1>1, <1>2, <1>5, <1>7, <2>1, <3>2, <4>1, WriteClear
    <3>3. CASE st = "renewed"
      <4>1. journal' = journal /\ (secret' = secret \/ (secret' = x.doc /\ secret # NoDoc))
        BY <1>2, <1>11, <3>3 DEF Landed, writable
      <4> QED BY <1>1, <1>2, <1>6, <1>7, <2>1, <3>3, <4>1, WriteSecret
    <3> QED BY <3>1, <3>2, <3>3
  <2>3. /\ rotated'[p] \subseteq sent'[p] /\ sent'[p] \subseteq 1..issued'
        /\ \A q \in Procs \ {p} : sent'[q] = sent[q] /\ rotated'[q] = rotated[q]
    BY <1>1 DEF CacheInv, RunsOK
  <2>4. Ctl(p, k)
    BY <1>11, FlushDoneCtl
  <2>5. RunsOK'
    BY <1>1, <2>2, <2>3, <2>4, CtlKeeps DEF CacheInv
  <2>6. WriteOK /\ HeadOK => WriteOK' /\ HeadOK'
    BY <1>1, <2>2, <2>4, CtlHead DEF CacheInv
  <2> QED BY <2>2, <2>5, <2>6 DEF CacheInv
<1>12. FlushWriteOk(p) => Landed(p, st) /\ writable(st)
  BY <1>2, <1>7 DEF FlushWriteOk
<1> QED BY <1>8, <1>9, <1>10, <1>11, <1>12

(* A renewing journal is created only where there is none, for the         *)
(* document that is stored.                                                *)
LEMMA CreateKeeps ==
    ASSUME TypeOK, CacheInv, NEW p \in Procs, CreateJournal(p)
    PROVE  CacheInv' /\ (WriteOK /\ HeadOK => WriteOK' /\ HeadOK')
<1>1. /\ Running(p) /\ pc[p] = "create"
      /\ UNCHANGED <<secret, live, issued, lost, sent, rotated, up, head>>
  BY DEF CreateJournal, At, provider
<1>2. PICK x \in EntrySet : x = e[p]
  BY <1>1, RunningOK
<1>3. PICK o \in OpSet : o = op[p]
  BY <1>1, RunningOK
<1>4. EntryOK(p, x) /\ LabelOK(p, "create", x, o)
  BY <1>1, <1>2, <1>3, RunningOK
<1>5. /\ ~x.spent /\ x.journal = "none" /\ ~x.blocked /\ x.doc # NoDoc /\ x.doc = x.stored
      /\ o.at # "exists"
  BY <1>4 DEF LabelOK, EntryOK, DocsOK
<1>6. PICK k \in EntrySet, y \in EntrySet, f \in EntrySet :
        /\ k = [x EXCEPT !.journal = "started", !.from = x.doc]
        /\ y = [x EXCEPT !.recovered = FALSE, !.cooling = @ \ {"recover"}]
        /\ f = failed(x, "renewal")
  <2>1. [x EXCEPT !.journal = "started", !.from = x.doc] \in EntrySet
    BY DEF EntrySet
  <2>2. [x EXCEPT !.recovered = FALSE, !.cooling = @ \ {"recover"}] \in EntrySet
    BY DEF EntrySet, Timers
  <2> QED BY <2>1, <2>2, MarksType
<1>7. SameCore(x, f)
  <2>1. ~x.spent /\ f = failed(x, "renewal")
    BY <1>5, <1>6
  <2> QED BY <2>1 DEF SameCore, failed, EntrySet
<1>8. /\ k.doc = x.doc /\ k.stored = x.stored /\ k.spent = x.spent /\ k.journal = "started"
      /\ k.from = x.doc /\ k.recovered = x.recovered /\ k.blocked = x.blocked
  BY <1>6 DEF EntrySet
<1>9. /\ y.doc = x.doc /\ y.stored = x.stored /\ y.spent = x.spent /\ y.journal = x.journal
      /\ y.from = x.from /\ y.recovered = FALSE /\ y.blocked = x.blocked
  BY <1>6 DEF EntrySet
<1>10. /\ NoJournal.owner = Nobody /\ NoJournal.phase = "none" /\ Nobody # p
       /\ BadJournal.owner = Nobody /\ BadJournal.phase = "bad"
       /\ BadJournal.from = NoDoc /\ BadJournal.doc = NoDoc
       /\ NoDoc <= issued
       /\ Renewing(p, x.doc).owner = p /\ Renewing(p, x.doc).phase = "renewing"
       /\ Renewing(p, x.doc).from = x.doc /\ Renewing(p, x.doc).doc = NoDoc
  BY ProcsAssumption DEF NoJournal, BadJournal, Renewing, Journal, TypeOK, Docs, NoDoc
<1>11. /\ rotated'[p] \subseteq sent'[p] /\ sent'[p] \subseteq 1..issued'
       /\ \A q \in Procs \ {p} : sent'[q] = sent[q] /\ rotated'[q] = rotated[q]
       /\ BoundsOK'
  BY <1>1 DEF CacheInv, RunsOK, BoundsOK
<1>12. CASE journal' = journal /\ Goto(p, "recover", y, [NoOp EXCEPT !.at = "exists"])
  <2>1. EntryOK(p, y)
    BY <1>4, <1>5, <1>9 DEF EntryOK, DocsOK, StepOK, OwnOK, SentOK
  <2>2. PICK n \in OpSet : n = [NoOp EXCEPT !.at = "exists"]
    BY NoOpType
  <2>3. LabelOK(p, "recover", y, n) /\ "recover" \in Labels
    BY <1>5, <1>9 DEF LabelOK, Labels
  <2>4. Keeps(e[p], y)
    BY <1>2, <1>9 DEF Keeps
  <2>5. Moves(p)
    BY <1>1, <1>12, <2>1, <2>2, <2>3, <2>4 DEF Moves, store, provider
  <2> QED BY <1>1, <2>5, MovesKeep, MovesHead DEF RenewInv
<1>13. CASE /\ journal = NoJournal /\ journal' = Renewing(p, x.doc)
            /\ Goto(p, "call", k, o)
  <2>1. ~Promotable'
    BY <1>10, <1>13 DEF Promotable
  <2>2. DocsOK(k)' /\ SentOK(p, k)'
    BY <1>1, <1>4, <1>5, <1>8 DEF EntryOK, DocsOK, SentOK
  <2>3. StepOK(p, k)'
    BY <1>5, <1>8, <2>1 DEF StepOK
  <2>4. OwnOK(p, k)'
    BY <1>5, <1>8, <1>10, <1>13 DEF OwnOK
  <2>5. EntryOK(p, k)'
    BY <2>2, <2>3, <2>4 DEF EntryOK
  <2>6. LabelOK(p, "call", k, o)' /\ "call" \in Labels
    BY <1>5, <1>8, <1>13 DEF LabelOK, Labels, Renewing
  <2>7. journal'.owner = p
    BY <1>10, <1>13
  <2>8. RunsOK'
    BY <1>1, <1>11, <1>13, <2>5, <2>6, <2>7, StepKeeps DEF CacheInv
  <2>9. JournalOK'
    <3>1. x.doc <= issued
      BY <1>4 DEF EntryOK, DocsOK
    <3> QED BY <1>1, <1>10, <1>13, <3>1 DEF JournalOK
  <2>10. ASSUME HeadOK PROVE WriteOK' /\ HeadOK'
    <3>1. HeadAt(x)
      BY <1>1, <1>2, <2>10, HeadBefore DEF CacheInv
    <3>2. ~Promotable
      BY <1>10, <1>13 DEF Promotable
    <3>3. HeadAt(k)'
      BY <1>1, <1>5, <1>8, <2>1, <3>1, <3>2 DEF HeadAt, Succeeds, Holds
    <3>4. SameCore(k, k)
      BY DEF SameCore
    <3> QED BY <1>1, <1>13, <3>3, <3>4, HeadStep DEF CacheInv
  <2> QED BY <1>11, <2>8, <2>9, <2>10 DEF CacheInv
<1>14. CASE /\ Return(p, f)
            /\ \/ journal' = journal
               \/ journal = NoJournal /\ journal' = BadJournal
               \/ journal = NoJournal /\ journal' = Renewing(p, x.doc)
  <2>1. Promotable' <=> Promotable
    BY <1>1, <1>10, <1>14 DEF Promotable
  <2>2. DocsOK(x)' /\ SentOK(p, x)'
    BY <1>1, <1>4, <1>5 DEF EntryOK, DocsOK, SentOK
  <2>3. StepOK(p, x)'
    BY <1>5 DEF StepOK
  <2>4. OwnOK(p, x)'
    BY <1>4, <1>5, <1>10, <1>14 DEF OwnOK, EntryOK
  <2>5. EntryOK(p, f)'
    BY <1>7, <2>2, <2>3, <2>4, SameEntry DEF EntryOK
  <2>6. Ctl(p, f)
    BY <1>14, ReturnCtl
  <2>7. /\ sent'[p] # {} => journal'.owner \in {p, Nobody}
        /\ journal'.owner \in {journal.owner, p, Nobody}
    BY <1>1, <1>10, <1>14 DEF CacheInv, RunsOK, RunOK
  <2>8. RunsOK'
    BY <1>1, <1>11, <2>5, <2>6, <2>7, CtlKeeps DEF CacheInv
  <2>9. JournalOK'
    <3>1. x.doc <= issued
      BY <1>4 DEF EntryOK, DocsOK
    <3> QED BY <1>1, <1>10, <1>14, <3>1 DEF CacheInv, JournalOK
  <2>10. ASSUME HeadOK PROVE WriteOK' /\ HeadOK'
    <3>1. HeadAt(x)
      BY <1>1, <1>2, <2>10, HeadBefore DEF CacheInv
    <3>2. Promotable' => journal' = journal
      BY <1>10, <1>14 DEF Promotable
    <3>3. HeadAt(f)'
      BY <1>1, <1>5, <1>7, <2>1, <3>1, <3>2 DEF HeadAt, Succeeds, Holds, SameCore
    <3> QED BY <1>1, <2>6, <3>3, CtlHead DEF CacheInv
  <2> QED BY <1>11, <2>8, <2>9, <2>10 DEF CacheInv
<1> QED BY <1>2, <1>3, <1>6, <1>12, <1>13, <1>14 DEF CreateJournal, Renewing

(* The provider takes the document for the last time, and answers with no  *)
(* pair: it is spent here, and lost when it was rotated all the same.      *)
LEMMA SpentKeeps ==
    ASSUME TypeOK, CacheInv, NEW p \in Procs, RenewSpent(p)
    PROVE  CacheInv' /\ (WriteOK /\ HeadOK => WriteOK' /\ HeadOK')
<1>1. /\ Running(p) /\ pc[p] = "call"
      /\ UNCHANGED <<secret, journal, issued, rotated, up>>
  BY DEF RenewSpent, At, store
<1>2. PICK x \in EntrySet : x = e[p]
  BY <1>1, RunningOK
<1>3. PICK o \in OpSet : o = op[p]
  BY <1>1, RunningOK
<1>4. EntryOK(p, x) /\ LabelOK(p, "call", x, o)
  BY <1>1, <1>2, <1>3, RunningOK
<1>5. /\ sent' = [sent EXCEPT ![p] = @ \cup {x.doc}]
      /\ \/ UNCHANGED <<live, lost, head>>
         \/ /\ x.doc \in live /\ live' = live \ {x.doc} /\ lost' = lost \cup {x.doc}
            /\ head' = IF head = x.doc THEN NoDoc ELSE head
      /\ Flush(p, [journalAt(failed(x, "renewal"), "clear")
                        EXCEPT !.spent = TRUE, !.suspect = FALSE],
                [NoOp EXCEPT !.at = "renew"])
  BY <1>2 DEF RenewSpent
<1>6. /\ x.journal = "started" /\ x.doc = x.stored /\ x.doc # NoDoc
      /\ journal = Renewing(p, x.doc) \/ journal = NoJournal
      /\ x.doc \in 1..issued /\ NoDoc <= issued /\ issued \in Nat
  <2>1. /\ x.journal = "started" /\ x.doc = x.stored /\ x.doc # NoDoc
        /\ journal = Renewing(p, x.doc) \/ journal = NoJournal
    BY <1>4 DEF LabelOK
  <2>2. x.doc \in 0..MaxDocs /\ x.doc <= issued /\ issued \in Nat
    BY <1>4 DEF EntrySet, EntryOK, DocsOK, TypeOK, Docs
  <2> QED BY <2>1, <2>2, MaxDocsAssumption DEF NoDoc
<1>7. PICK f \in EntrySet : f = failed(x, "renewal")
  BY MarksType
<1>8. PICK c \in EntrySet : c = journalAt(f, "clear")
  BY MarksType DEF Steps
<1>9. PICK k \in EntrySet : k = [c EXCEPT !.spent = TRUE, !.suspect = FALSE]
  BY DEF EntrySet
<1>10. /\ k.doc = x.doc /\ k.stored = x.stored /\ k.journal = "clear" /\ k.spent = TRUE
       /\ k.recovered = x.recovered /\ k.blocked = x.blocked
  <2>1. /\ c.doc = x.doc /\ c.stored = x.stored /\ c.journal = "clear"
        /\ c.recovered = x.recovered /\ c.blocked = x.blocked
    BY <1>7, <1>8 DEF journalAt, failed, EntrySet
  <2> QED BY <1>9, <2>1 DEF EntrySet
<1>11. ~Promotable /\ ~Promotable'
  BY <1>1, <1>6 DEF Promotable, Renewing, Journal, NoJournal
<1>12. sent'[p] = sent[p] \cup {x.doc} /\ \A q \in Procs \ {p} : sent'[q] = sent[q]
  BY <1>5 DEF TypeOK
<1>13. live' \subseteq live
  BY <1>5
<1>14. DocsOK(k)'
  BY <1>1, <1>4, <1>6, <1>10 DEF EntryOK, DocsOK
<1>15. SentOK(p, k)'
  BY <1>1, <1>4, <1>6, <1>10, <1>12 DEF EntryOK, SentOK
<1>16. StepOK(p, k)'
  BY <1>10, <1>11 DEF StepOK
<1>17. OwnOK(p, k)'
  BY <1>1, <1>4, <1>6, <1>10 DEF EntryOK, OwnOK
<1>18. EntryOK(p, k)'
  BY <1>14, <1>15, <1>16, <1>17 DEF EntryOK
<1>19. PICK n \in OpSet : n = [NoOp EXCEPT !.at = "renew"]
  BY NoOpType
<1>20. n.at # "exists" /\ Flush(p, k, n)
  BY <1>5, <1>7, <1>8, <1>9, <1>19 DEF NoOp
<1>21. Ctl(p, k)
  BY <1>10, <1>20, FlushCtl DEF Owed
<1>22. /\ sent'[p] # {} => journal'.owner \in {p, Nobody}
       /\ journal'.owner \in {journal.owner, p, Nobody}
       /\ rotated'[p] \subseteq sent'[p] /\ sent'[p] \subseteq 1..issued'
       /\ \A q \in Procs \ {p} : sent'[q] = sent[q] /\ rotated'[q] = rotated[q]
  BY <1>1, <1>6, <1>12 DEF CacheInv, RunsOK, Renewing, Journal, NoJournal
<1>23. RunsOK'
  BY <1>1, <1>18, <1>21, <1>22, CtlKeeps DEF CacheInv
<1>24. JournalOK'
  BY <1>1, <1>13 DEF CacheInv, JournalOK
<1>25. BoundsOK'
  BY <1>1, <1>5, <1>6 DEF CacheInv, BoundsOK
<1>26. ASSUME HeadOK PROVE WriteOK' /\ HeadOK'
  <2>1. HeadAt(x)
    BY <1>1, <1>2, <1>26, HeadBefore DEF CacheInv
  <2>2. head # NoDoc => secret = head
    BY <1>6, <1>11, <2>1 DEF HeadAt, Holds
  <2>3. head' # NoDoc => head' = head
    BY <1>5
  <2>4. head' = NoDoc => secret' \in {NoDoc, Junk} \cup lost'
    BY <1>1, <1>5, <2>1, <2>2 DEF HeadAt
  <2>5. head' # NoDoc => head' \in live'
    BY <1>5, <2>1 DEF HeadAt
  <2>6. lost' \cap live' = {}
    BY <1>5, <2>1 DEF HeadAt
  <2>7. Succeeds(k)'
    BY <1>6, <1>10 DEF Succeeds
  <2>8. HeadAt(k)'
    BY <1>1, <1>11, <2>2, <2>3, <2>4, <2>5, <2>6, <2>7 DEF HeadAt
  <2> QED BY <1>1, <1>21, <2>8, CtlHead DEF CacheInv
<1> QED BY <1>23, <1>24, <1>25, <1>26 DEF CacheInv

(* The provider answers with a new pair: the entry holds the only copy,    *)
(* and its journal says so.                                                *)
LEMMA RenewOkKeeps ==
    ASSUME TypeOK, CacheInv, NEW p \in Procs, RenewOk(p)
    PROVE  CacheInv' /\ (WriteOK /\ HeadOK => WriteOK' /\ HeadOK')
<1>1. /\ Running(p) /\ pc[p] = "call"
      /\ UNCHANGED <<secret, journal, lost, up>>
  BY DEF RenewOk, At, store
<1>2. PICK x \in EntrySet : x = e[p]
  BY <1>1, RunningOK
<1>3. PICK o \in OpSet : o = op[p]
  BY <1>1, RunningOK
<1>4. EntryOK(p, x) /\ LabelOK(p, "call", x, o)
  BY <1>1, <1>2, <1>3, RunningOK
<1>5. PICK next : next = issued + 1
  OBVIOUS
<1>6. /\ x.doc \in live /\ issued < MaxDocs /\ issued' = next
      /\ live' = (live \ {x.doc}) \cup {next}
      /\ head' = IF head = x.doc THEN next ELSE head
      /\ sent' = [sent EXCEPT ![p] = @ \cup {x.doc}]
      /\ rotated' = [rotated EXCEPT ![p] = @ \cup {x.doc}]
      /\ Flush(p, [x EXCEPT !.doc = next, !.life = "fresh", !.failure = "none",
                            !.spent = FALSE, !.suspect = FALSE,
                            !.cooling = @ \ {"fail", "write"}],
                [NoOp EXCEPT !.at = "renew"])
  BY <1>2, <1>5 DEF RenewOk
<1>7. /\ x.journal = "started" /\ x.doc = x.stored /\ x.from = x.doc /\ x.doc # NoDoc
      /\ journal = Renewing(p, x.doc) \/ (journal = NoJournal /\ secret # x.doc)
      /\ x.doc \in 1..issued /\ issued \in Nat
  <2>1. /\ x.journal = "started" /\ x.doc = x.stored /\ x.from = x.doc /\ x.doc # NoDoc
        /\ journal = Renewing(p, x.doc) \/ (journal = NoJournal /\ secret # x.doc)
    BY <1>4 DEF LabelOK
  <2>2. x.doc \in 0..MaxDocs /\ x.doc <= issued /\ issued \in Nat
    BY <1>4 DEF EntrySet, EntryOK, DocsOK, TypeOK, Docs
  <2> QED BY <2>1, <2>2, MaxDocsAssumption DEF NoDoc
<1>8. /\ next \in 0..MaxDocs /\ next # NoDoc /\ next \in 1..next /\ 1..issued \subseteq 1..next
      /\ next \notin 1..issued /\ next # x.doc
      /\ \A d \in Int : d <= issued => d <= next /\ d # next
  BY <1>5, <1>6, <1>7, MaxDocsAssumption DEF NoDoc
<1>9. PICK k \in EntrySet : k = [x EXCEPT !.doc = next, !.life = "fresh", !.failure = "none",
                            !.spent = FALSE, !.suspect = FALSE,
                            !.cooling = @ \ {"fail", "write"}]
  BY <1>8 DEF EntrySet, Lives, Timers
<1>10. /\ k.doc = next /\ k.stored = x.stored /\ k.journal = "started" /\ ~k.spent
       /\ k.from = x.doc /\ k.recovered = x.recovered /\ k.blocked = x.blocked
  <2>1. /\ k.doc = next /\ k.stored = x.stored /\ k.journal = x.journal /\ ~k.spent
        /\ k.from = x.from /\ k.recovered = x.recovered /\ k.blocked = x.blocked
    BY <1>9 DEF EntrySet
  <2> QED BY <1>7, <2>1
<1>11. ~Promotable /\ ~Promotable'
  BY <1>1, <1>7 DEF Promotable, Renewing, Journal, NoJournal
<1>12. /\ sent'[p] = sent[p] \cup {x.doc} /\ rotated'[p] = rotated[p] \cup {x.doc}
       /\ \A q \in Procs \ {p} : sent'[q] = sent[q] /\ rotated'[q] = rotated[q]
  BY <1>6 DEF TypeOK
<1>13. sent[p] \subseteq 1..issued /\ rotated[p] \subseteq sent[p]
  BY DEF CacheInv, RunsOK
<1>14. next \notin sent'[p] /\ next \notin rotated'[p]
  BY <1>8, <1>12, <1>13
<1>15. DocsOK(k)'
  <2>1. k.doc <= issued' /\ k.stored <= issued'
    BY <1>6, <1>7, <1>8, <1>10
  <2>2. k.stored \notin live'
    BY <1>6, <1>7, <1>8, <1>10
  <2> QED BY <1>7, <1>8, <1>10, <2>1, <2>2 DEF DocsOK
<1>16. SentOK(p, k)'
  <2>1. secret \in sent[p] => secret = x.doc
    BY <1>4, <1>7 DEF EntryOK, SentOK
  <2> QED BY <1>1, <1>7, <1>8, <1>10, <1>12, <1>14, <2>1 DEF SentOK
<1>17. StepOK(p, k)'
  BY <1>1, <1>7, <1>8, <1>10, <1>11 DEF StepOK, Renewing
<1>18. OwnOK(p, k)'
  BY <1>1, <1>4, <1>7, <1>10 DEF EntryOK, OwnOK
<1>19. EntryOK(p, k)'
  BY <1>15, <1>16, <1>17, <1>18 DEF EntryOK
<1>20. PICK n \in OpSet : n = [NoOp EXCEPT !.at = "renew"]
  BY NoOpType
<1>21. n.at # "exists" /\ Flush(p, k, n)
  BY <1>6, <1>9, <1>20 DEF NoOp
<1>22. Ctl(p, k)
  BY <1>10, <1>21, FlushCtl DEF Owed
<1>23. /\ sent'[p] # {} => journal'.owner \in {p, Nobody}
       /\ journal'.owner \in {journal.owner, p, Nobody}
       /\ rotated'[p] \subseteq sent'[p] /\ sent'[p] \subseteq 1..issued'
  <2>1. journal'.owner \in {p, Nobody} /\ journal' = journal
    BY <1>1, <1>7 DEF Renewing, Journal, NoJournal
  <2>2. sent'[p] \subseteq 1..issued'
    BY <1>6, <1>7, <1>8, <1>12, <1>13
  <2> QED BY <1>12, <1>13, <2>1, <2>2
<1>24. RunsOK'
  BY <1>1, <1>12, <1>19, <1>22, <1>23, CtlKeeps DEF CacheInv
<1>25. JournalOK'
  <2>1. journal.from \in Int /\ journal.doc \in Int /\ journal.from <= issued /\ journal.doc <= issued
    BY DEF TypeOK, JournalSet, CacheInv, JournalOK
  <2>2. journal.from <= next /\ journal.doc <= next
    BY <1>8, <2>1
  <2>3. journal.phase # "renewed"
    BY <1>7 DEF Renewing, Journal, NoJournal
  <2> QED BY <1>1, <1>6, <2>2, <2>3 DEF CacheInv, JournalOK
<1>26. BoundsOK'
  <2>1. secret \in Int /\ head \in Int /\ secret <= issued /\ head <= issued
    BY DEF TypeOK, Junk, CacheInv, BoundsOK
  <2>2. secret' <= issued' /\ head' <= issued'
    BY <1>1, <1>5, <1>6, <1>7, <1>8, <2>1
  <2>3. live' \subseteq 1..issued' /\ lost' \subseteq 1..issued'
    BY <1>1, <1>6, <1>8 DEF CacheInv, BoundsOK
  <2> QED BY <2>2, <2>3 DEF BoundsOK
<1>27. ASSUME HeadOK PROVE WriteOK' /\ HeadOK'
  <2>1. HeadAt(x)
    BY <1>1, <1>2, <1>27, HeadBefore DEF CacheInv
  <2>2. head # NoDoc => secret = head
    BY <1>7, <1>11, <2>1 DEF HeadAt, Holds
  <2>3. secret = x.doc => head = x.doc
    BY <1>6, <1>7, <2>1, <2>2, MaxDocsAssumption DEF HeadAt, NoDoc, Junk
  <2>4. Succeeds(k)'
    BY <1>1, <1>6, <1>7, <1>10, <2>3 DEF Succeeds
  <2>5. CASE head = x.doc
    <3>1. head' = next /\ secret' = x.doc
      BY <1>1, <1>6, <1>7, <2>2, <2>5
    <3>2. Holds(k)'
      BY <1>7, <1>8, <1>10, <3>1 DEF Holds
    <3>3. lost' \cap live' = {}
      <4>1. next \notin lost
        BY <1>8 DEF CacheInv, BoundsOK
      <4> QED BY <1>1, <1>6, <2>1, <4>1 DEF HeadAt
    <3> QED BY <1>6, <1>8, <1>11, <2>4, <3>1, <3>2, <3>3, <1>1, <1>22, CtlHead DEF HeadAt, CacheInv
  <2>6. CASE head # x.doc
    <3>1. head' = head
      BY <1>6, <2>6
    <3>2. head' # NoDoc => head' \in live'
      BY <1>6, <2>1, <2>6, <3>1 DEF HeadAt
    <3>3. lost' \cap live' = {}
      <4>1. next \notin lost
        BY <1>8 DEF CacheInv, BoundsOK
      <4> QED BY <1>1, <1>6, <2>1, <4>1 DEF HeadAt
    <3>4. HeadAt(k)'
      BY <1>1, <1>11, <2>1, <2>2, <2>4, <3>1, <3>2, <3>3 DEF HeadAt
    <3> QED BY <1>1, <1>22, <3>4, CtlHead DEF CacheInv
  <2> QED BY <2>5, <2>6
<1> QED BY <1>24, <1>25, <1>26, <1>27 DEF CacheInv

-----------------------------------------------------------------------------
(* Processes that start and end, the user and the clock *)

LEMMA NewEntryFields ==
    /\ NewEntry.doc = NoDoc /\ NewEntry.stored = NoDoc /\ NewEntry.journal = "none"
    /\ NewEntry.spent = FALSE /\ NewEntry.recovered = FALSE /\ NewEntry.blocked = FALSE
  BY DEF NewEntry

LEMMA NewCacheKeeps ==
    ASSUME TypeOK, CacheInv, NEW p \in Procs, NewCache(p)
    PROVE  CacheInv' /\ (WriteOK /\ HeadOK => WriteOK' /\ HeadOK')
<1>1. /\ up[p] = "new" /\ \A q \in Procs : ~Running(q)
      /\ UNCHANGED <<secret, journal, live, issued, lost, sent, rotated, e, pc, op, jr, head>>
  BY DEF NewCache, Running, store, provider
<1>2. Running(p)' /\ \A q \in Procs \ {p} : ~Running(q)' /\ up'[q] = up[q]
  BY <1>1 DEF NewCache, Running, TypeOK
<1>3. \A q \in Procs : OffOK(q) /\ OffOK(q)' /\ (up[q] = "new" => journal.owner # q)
         /\ rotated[q] \subseteq sent[q] /\ sent[q] \subseteq 1..issued
  BY <1>1 DEF CacheInv, RunsOK, OffOK
<1>4. e'[p] = NewEntry /\ pc'[p] = "idle" /\ op'[p] = NoOp /\ sent'[p] = {} /\ rotated'[p] = {}
  BY <1>3 DEF OffOK
<1>5. EntryOK(p, NewEntry)'
  <2>1. NoDoc <= issued
    BY DEF TypeOK, Docs, NoDoc
  <2>2. journal.owner # p
    BY <1>1, <1>3
  <2>3. DocsOK(NewEntry)' /\ SentOK(p, NewEntry)'
    BY <1>1, <1>4, <2>1, NewEntryFields DEF DocsOK, SentOK
  <2>4. StepOK(p, NewEntry)' /\ OwnOK(p, NewEntry)'
    BY <1>1, <2>2, NewEntryFields DEF StepOK, OwnOK
  <2> QED BY <2>3, <2>4 DEF EntryOK
<1>6. LabelOK(p, "idle", NewEntry, NoOp)'
  BY DEF LabelOK, NoOp
<1>7. RunOK(p)'
  BY <1>4, <1>5, <1>6 DEF RunOK
<1>8. ASSUME NEW q \in Procs
      PROVE  /\ Running(q)' => RunOK(q)'
             /\ ~Running(q)' => OffOK(q)'
             /\ up'[q] = "new" => journal'.owner # q
             /\ rotated'[q] \subseteq sent'[q] /\ sent'[q] \subseteq 1..issued'
  <2>1. CASE q = p
    BY <1>1, <1>2, <1>3, <1>7, <2>1 DEF Running
  <2>2. CASE q # p
    BY <1>1, <1>2, <1>3, <2>2
  <2> QED BY <2>1, <2>2
<1>9. RunsOK'
  BY <1>2, <1>8 DEF RunsOK
<1>10. JournalOK' /\ BoundsOK'
  BY <1>1 DEF CacheInv, JournalOK, BoundsOK
<1>11. ASSUME HeadOK PROVE WriteOK' /\ HeadOK'
  <2>1. WriteOK'
    BY <1>2, <1>4 DEF WriteOK, At
  <2>2. \A q \in Procs : Running(q)' => Succeeds(e[q])'
    BY <1>2, <1>4, NewEntryFields DEF Succeeds
  <2>3. head # NoDoc => secret = head \/ Promotable
    BY <1>1, <1>11 DEF HeadOK
  <2> QED BY <1>1, <1>11, <2>1, <2>2, <2>3 DEF HeadOK, Promotable
<1> QED BY <1>9, <1>10, <1>11 DEF CacheInv

(* A process that ends takes the valid document with it only when the      *)
(* journal cannot bring it back, and then the stored one is lost.          *)
LEMMA CrashKeeps ==
    ASSUME TypeOK, CacheInv, NEW p \in Procs, Crash(p)
    PROVE  CacheInv' /\ (WriteOK /\ HeadOK => WriteOK' /\ HeadOK')
<1>1. /\ Running(p) /\ UNCHANGED <<secret, journal, live, issued>>
      /\ \/ onlyCopy(p) /\ head' = NoDoc /\ lost' = lost \cup {e[p].stored}
         \/ ~onlyCopy(p) /\ head' = head /\ lost' = lost
  BY DEF Crash, store
<1>2. /\ ~Running(p)' /\ up'[p] # "new"
      /\ \A q \in Procs \ {p} : Running(q)' = Running(q) /\ up'[q] = up[q]
  BY DEF Crash, Running, TypeOK
<1>3. \A q \in Procs : Running(q) => q = p
  BY <1>1 DEF CacheInv, RunsOK
<1>4. e'[p] = NewEntry /\ pc'[p] = "idle" /\ op'[p] = NoOp /\ sent'[p] = {} /\ rotated'[p] = {}
  BY DEF Crash, TypeOK
<1>5. \A q \in Procs \ {p} : /\ e'[q] = e[q] /\ pc'[q] = pc[q] /\ op'[q] = op[q]
                             /\ sent'[q] = sent[q] /\ rotated'[q] = rotated[q]
  BY DEF Crash, TypeOK
<1>6. \A q \in Procs \ {p} : OffOK(q)
  BY <1>3 DEF CacheInv, RunsOK
<1>7. \A q \in Procs : ~Running(q)' /\ OffOK(q)'
  BY <1>2, <1>3, <1>4, <1>5, <1>6 DEF OffOK
<1>8. ASSUME NEW q \in Procs
      PROVE  /\ up'[q] = "new" => journal'.owner # q
             /\ rotated'[q] \subseteq sent'[q] /\ sent'[q] \subseteq 1..issued'
  BY <1>1, <1>2, <1>7 DEF CacheInv, RunsOK, OffOK
<1>9. RunsOK'
  BY <1>7, <1>8 DEF RunsOK
<1>10. e[p] \in EntrySet /\ EntryOK(p, e[p])
  BY <1>1, RunningOK
<1>11. BoundsOK'
  <2>1. onlyCopy(p) => e[p].stored \in 1..issued
    <3>1. onlyCopy(p) => e[p].stored # NoDoc
      BY <1>10 DEF onlyCopy, EntryOK, DocsOK
    <3>2. e[p].stored \in 0..MaxDocs /\ e[p].stored <= issued /\ issued \in Nat
      BY <1>10 DEF EntrySet, EntryOK, DocsOK, TypeOK, Docs
    <3> QED BY <3>1, <3>2, MaxDocsAssumption DEF NoDoc
  <2>2. NoDoc <= issued
    BY DEF TypeOK, Docs, NoDoc
  <2> QED BY <1>1, <2>1, <2>2 DEF CacheInv, BoundsOK
<1>12. JournalOK'
  BY <1>1 DEF CacheInv, JournalOK
<1>13. ASSUME HeadOK PROVE WriteOK' /\ HeadOK'
  <2>1. HeadAt(e[p])
    BY <1>1, <1>13, HeadBefore DEF CacheInv
  <2>2. WriteOK'
    BY <1>7 DEF WriteOK, At
  <2>3. Promotable' <=> Promotable
    BY <1>1 DEF Promotable
  <2>4. CASE onlyCopy(p)
    <3>1. /\ head # NoDoc /\ secret # head /\ journal.doc # head /\ head' = NoDoc
          /\ lost' = lost \cup {e[p].stored}
      BY <1>1, <2>4 DEF onlyCopy
    <3>2. ~Promotable
      BY <2>1, <3>1 DEF HeadAt
    <3>3. Holds(e[p])
      BY <2>1, <3>1, <3>2 DEF HeadAt
    <3>4. e[p].stored = secret /\ e[p].stored \notin live
      BY <1>10, <3>3 DEF Holds, EntryOK, DocsOK
    <3>5. lost' \cap live' = {}
      BY <1>1, <2>1, <3>1, <3>4 DEF HeadAt
    <3> QED BY <1>1, <1>7, <2>2, <2>3, <3>1, <3>2, <3>4, <3>5 DEF HeadOK
  <2>5. CASE ~onlyCopy(p)
    <3>1. Holds(e[p]) => Promotable
      <4> SUFFICES ASSUME Holds(e[p]), ~Promotable PROVE FALSE
        OBVIOUS
      <4>1. head = e[p].doc /\ head # NoDoc /\ secret = e[p].stored /\ secret # head
        BY <1>10, <2>1 DEF HeadAt, Succeeds, Holds, EntryOK, DocsOK
      <4>2. journal = Renewing(p, e[p].stored)
        BY <1>10, <4>1 DEF Holds, EntryOK, StepOK, Promotable, Journal
      <4>3. journal.doc # head
        BY <4>1, <4>2 DEF Renewing, Journal
      <4>4. \A q \in Procs \ {p} : e[q].doc # head
        BY <1>6, <4>1, NewEntryFields DEF OffOK
      <4> QED BY <2>5, <4>1, <4>3, <4>4 DEF onlyCopy
    <3>2. head' = head /\ lost' = lost
      BY <1>1, <2>5
    <3> QED BY <1>1, <1>7, <2>1, <2>2, <2>3, <3>1, <3>2 DEF HeadOK, HeadAt
  <2> QED BY <2>4, <2>5
<1> QED BY <1>9, <1>11, <1>12, <1>13 DEF CacheInv

(* An import or a removal puts a value in the store that no cache knows,   *)
(* and may take the journal.                                               *)
LEMMA OutsideKeeps ==
    ASSUME TypeOK, CacheInv, UNCHANGED <<lost, sent, rotated, up, e, pc, op, jr>>,
           journal' \in {journal, NoJournal}, issued <= issued', issued' \in Nat,
           \A d \in 1..issued : secret' # d /\ (d \notin live => d \notin live')
    PROVE  /\ RunsOK' /\ JournalOK' /\ ~Promotable'
           /\ \A p \in Procs : ~Running(p)' \/ (Running(p) /\ (e[p].doc # e[p].stored =>
                                                     secret' # e[p].stored))
<1>1. issued \in Nat /\ 1..issued \subseteq 1..issued'
  BY DEF TypeOK, Docs
<1>2. /\ NoJournal.owner = Nobody /\ NoJournal.phase = "none" /\ NoDoc = 0 /\ NoDoc <= issued'
      /\ NoJournal.from = NoDoc /\ NoJournal.doc = NoDoc
  BY <1>1 DEF NoJournal, NoDoc
<1>3. JournalOK'
  <2>1. /\ journal.from \in 0..MaxDocs /\ journal.doc \in 0..MaxDocs
        /\ journal.from <= issued /\ journal.doc <= issued
    BY DEF TypeOK, JournalSet, CacheInv, JournalOK
  <2>2. /\ journal.from <= issued' /\ journal.doc <= issued'
        /\ journal.from # NoDoc => journal.from \in 1..issued
    BY <1>1, <2>1, MaxDocsAssumption DEF NoDoc
  <2> QED BY <1>2, <2>2 DEF CacheInv, JournalOK
<1>4. ~Promotable'
  <2>1. journal.phase = "renewed" => journal.from \in 1..issued
    BY <1>1, MaxDocsAssumption DEF CacheInv, JournalOK, TypeOK, JournalSet, NoDoc
  <2> QED BY <1>2, <2>1 DEF Promotable
<1>5. \A q \in Procs : Running(q)' = Running(q)
  BY DEF Running
<1>6. ASSUME NEW p \in Procs, Running(p)
      PROVE  RunOK(p)' /\ (e[p].doc # e[p].stored => secret' # e[p].stored)
  <2>1. PICK x \in EntrySet : x = e[p]
    BY <1>6, RunningOK
  <2>2. PICK o \in OpSet : o = op[p]
    BY <1>6, RunningOK
  <2>3. EntryOK(p, x) /\ LabelOK(p, pc[p], x, o)
    BY <1>6, <2>1, <2>2, RunningOK
  <2>4. /\ x.doc \in 0..MaxDocs /\ x.stored \in 0..MaxDocs
        /\ x.doc <= issued /\ x.stored <= issued
    BY <2>3 DEF EntrySet, EntryOK, DocsOK
  <2>5. /\ x.doc # NoDoc => x.doc \in 1..issued
        /\ x.stored # NoDoc => x.stored \in 1..issued
        /\ x.doc <= issued' /\ x.stored <= issued'
    BY <1>1, <2>4, MaxDocsAssumption DEF NoDoc
  <2>6. x.doc # x.stored => secret' # x.stored
    BY <2>3, <2>5 DEF EntryOK, DocsOK
  <2>7. DocsOK(x)'
    BY <2>3, <2>5 DEF EntryOK, DocsOK
  <2>8. StepOK(p, x)'
    BY <1>4, <2>3, <2>6 DEF EntryOK, StepOK, Renewing
  <2>9. OwnOK(p, x)'
    <3>1. Nobody # p
      BY ProcsAssumption
    <3> QED BY <1>2, <2>3, <3>1 DEF EntryOK, OwnOK
  <2>10. SentOK(p, x)'
    <3>1. sent[p] \subseteq 1..issued
      BY DEF CacheInv, RunsOK
    <3> QED BY <2>3, <3>1 DEF EntryOK, SentOK
  <2>11. LabelOK(p, pc[p], x, o)'
    BY <2>3, <2>5 DEF LabelOK, Renewing
  <2>12. pc[p] = "settle" => SettleOK(p)'
    <3>1. PICK j \in JournalSet : j = jr[p]
      BY DEF TypeOK
    <3>2. pc[p] = "settle" => SettleOK(p)
      BY <1>6 DEF CacheInv, RunsOK, RunOK
    <3>3. /\ j.from \in 0..MaxDocs /\ j.doc \in 0..MaxDocs
          /\ j.from <= issued => j.from <= issued' /\ (j.from # NoDoc => j.from \in 1..issued)
          /\ j.doc <= issued => j.doc <= issued'
      BY <1>1, MaxDocsAssumption DEF JournalSet, NoDoc
    <3>4. jr'[p] = j
      BY <3>1
    <3> QED BY <3>1, <3>2, <3>3, <3>4 DEF SettleOK
  <2>13. sent'[p] # {} => journal'.owner \in {p, Nobody}
    BY <1>2, <1>6 DEF CacheInv, RunsOK, RunOK
  <2>14. e'[p] = x /\ op'[p] = o /\ pc'[p] = pc[p]
    BY <2>1, <2>2
  <2>15. EntryOK(p, e[p])'
    BY <2>7, <2>8, <2>9, <2>10, <2>14 DEF EntryOK
  <2>16. LabelOK(p, pc[p], e[p], op[p])'
    BY <2>11, <2>14
  <2> QED BY <2>1, <2>6, <2>12, <2>13, <2>15, <2>16 DEF RunOK
<1>7. ASSUME NEW q \in Procs
      PROVE  /\ Running(q)' => RunOK(q)'
             /\ ~Running(q)' => OffOK(q)'
             /\ up'[q] = "new" => journal'.owner # q
             /\ rotated'[q] \subseteq sent'[q] /\ sent'[q] \subseteq 1..issued'
  <2>1. up'[q] = "new" => journal'.owner # q
    BY <1>2, ProcsAssumption DEF CacheInv, RunsOK
  <2>2. ~Running(q)' => OffOK(q)'
    BY <1>5 DEF CacheInv, RunsOK, OffOK
  <2>3. rotated'[q] \subseteq sent'[q] /\ sent'[q] \subseteq 1..issued'
    BY <1>1 DEF CacheInv, RunsOK
  <2> QED BY <1>5, <1>6, <2>1, <2>2, <2>3
<1>8. RunsOK'
  BY <1>5, <1>7 DEF CacheInv, RunsOK
<1> QED BY <1>3, <1>4, <1>5, <1>6, <1>8

LEMMA ImportKeeps ==
    ASSUME TypeOK, CacheInv, Import
    PROVE  CacheInv' /\ (~ImportRaces /\ HeadOK => WriteOK' /\ HeadOK')
<1>1. /\ UNCHANGED <<journal, lost, sent, rotated, up, e, pc, op, jr>>
      /\ ImportRaces \/ ~Flushing
      /\ \/ /\ issued < MaxDocs /\ issued' = issued + 1 /\ secret' = issued + 1
            /\ live' = live \cup {issued + 1} /\ head' = issued + 1
         \/ secret' = Junk /\ head' = NoDoc /\ UNCHANGED <<live, issued>>
  BY DEF Import
<1>2. issued \in Nat /\ issued # 0 /\ Junk = -1 /\ NoDoc = 0
  BY DEF TypeOK, Docs, Junk, NoDoc
<1>3. /\ issued <= issued' /\ issued' \in Nat
      /\ \A d \in 1..issued : secret' # d /\ (d \notin live => d \notin live')
  BY <1>1, <1>2
<1>4. /\ RunsOK' /\ JournalOK' /\ ~Promotable'
      /\ \A p \in Procs : ~Running(p)' \/ (Running(p) /\ (e[p].doc # e[p].stored =>
                                                   secret' # e[p].stored))
  BY <1>1, <1>3, OutsideKeeps
<1>5. BoundsOK'
  <2>1. secret' <= issued' /\ head' <= issued'
    BY <1>1, <1>2
  <2>2. 1..issued \subseteq 1..issued' /\ (issued' = issued + 1 => issued + 1 \in 1..issued')
    BY <1>2, <1>3
  <2>3. live' \subseteq 1..issued' /\ lost' \subseteq 1..issued'
    BY <1>1, <2>2 DEF CacheInv, BoundsOK
  <2> QED BY <2>1, <2>3 DEF BoundsOK
<1>6. ASSUME ~ImportRaces, HeadOK PROVE WriteOK' /\ HeadOK'
  <2>1. WriteOK'
    BY <1>1, <1>6 DEF WriteOK, Flushing, At, Running
  <2>2. \A p \in Procs : Running(p)' => Succeeds(e[p])'
    BY <1>1, <1>4 DEF Succeeds
  <2>3. lost' \cap live' = {}
    <3>1. issued + 1 \notin lost
      BY <1>2 DEF CacheInv, BoundsOK
    <3> QED BY <1>1, <1>6, <3>1 DEF HeadOK
  <2>4. /\ head' # NoDoc => secret' = head' /\ head' \in live'
        /\ head' = NoDoc => secret' = Junk
    BY <1>1, <1>2
  <2> QED BY <1>4, <2>1, <2>2, <2>3, <2>4 DEF HeadOK
<1> QED BY <1>4, <1>5, <1>6 DEF CacheInv

LEMMA DeleteKeeps ==
    ASSUME TypeOK, CacheInv, deleteSecret
    PROVE  CacheInv' /\ (WriteOK /\ HeadOK => WriteOK' /\ HeadOK')
<1>1. /\ UNCHANGED <<live, issued, lost, sent, rotated, up, e, pc, op, jr>>
      /\ journal' \in {journal, NoJournal} /\ secret' = NoDoc /\ head' = NoDoc
  BY DEF deleteSecret, provider
<1>2. issued \in Nat /\ NoDoc = 0
  BY DEF TypeOK, Docs, NoDoc
<1>3. /\ issued <= issued' /\ issued' \in Nat
      /\ \A d \in 1..issued : secret' # d /\ (d \notin live => d \notin live')
  BY <1>1, <1>2
<1>4. /\ RunsOK' /\ JournalOK' /\ ~Promotable'
      /\ \A p \in Procs : ~Running(p)' \/ (Running(p) /\ (e[p].doc # e[p].stored =>
                                                   secret' # e[p].stored))
  BY <1>1, <1>3, OutsideKeeps
<1>5. BoundsOK'
  BY <1>1, <1>2 DEF CacheInv, BoundsOK
<1>6. ASSUME HeadOK PROVE WriteOK' /\ HeadOK'
  <2>1. WriteOK'
    BY <1>1 DEF WriteOK
  <2>2. \A p \in Procs : Running(p)' => Succeeds(e[p])'
    BY <1>1, <1>4 DEF Succeeds
  <2> QED BY <1>1, <1>4, <1>6, <2>1, <2>2 DEF HeadOK
<1> QED BY <1>4, <1>5, <1>6 DEF CacheInv

(* The clock, and a step of something else, change nothing of this. *)
LEMMA SameKeepsAll ==
    ASSUME CacheInv,
           UNCHANGED <<secret, journal, live, issued, up, e, pc, op, jr, head, lost, sent, rotated>>
    PROVE  CacheInv' /\ (WriteOK /\ HeadOK => WriteOK' /\ HeadOK')
<1>1. \A p \in Procs : (Running(p)' <=> Running(p)) /\ (RunOK(p)' <=> RunOK(p))
                        /\ (OffOK(p)' <=> OffOK(p))
  BY DEF Running, RunOK, OffOK, EntryOK, DocsOK, StepOK, OwnOK, SentOK, LabelOK, SettleOK,
         Promotable, Renewing, Journal
<1>2. CacheInv'
  BY <1>1 DEF CacheInv, RunsOK, JournalOK, BoundsOK
<1>3. WriteOK /\ HeadOK => WriteOK' /\ HeadOK'
  BY <1>1 DEF WriteOK, HeadOK, At, Succeeds, Holds, Promotable
<1> QED BY <1>2, <1>3

-----------------------------------------------------------------------------
(* The theorems *)

LEMMA InitInv == Init => RenewInv
<1> SUFFICES ASSUME Init PROVE RenewInv
  OBVIOUS
<1>1. /\ secret = 1 /\ journal = NoJournal /\ live = {1} /\ issued = 1 /\ head = 1 /\ lost = {}
      /\ \A p \in Procs : ~Running(p) /\ OffOK(p)
  BY DEF Init, Running, OffOK
<1>2. /\ NoJournal.owner = Nobody /\ NoJournal.phase = "none"
      /\ NoJournal.from = 0 /\ NoJournal.doc = 0
  BY DEF NoJournal, NoDoc
<1>3. RunsOK
  BY <1>1, <1>2, ProcsAssumption DEF RunsOK, OffOK
<1>4. JournalOK /\ BoundsOK
  BY <1>1, <1>2 DEF JournalOK, BoundsOK
<1>5. WriteOK /\ HeadOK
  BY <1>1, <1>2 DEF WriteOK, HeadOK, At, Promotable, NoDoc
<1> QED BY <1>3, <1>4, <1>5 DEF RenewInv, CacheInv

LEMMA NextInv ==
    ASSUME TypeOK, CacheInv, [Next]_vars
    PROVE  CacheInv' /\ (~ImportRaces /\ WriteOK /\ HeadOK => WriteOK' /\ HeadOK')
<1>1. ASSUME NEW p \in Procs, Running(p), Moves(p)
      PROVE  CacheInv' /\ (WriteOK /\ HeadOK => WriteOK' /\ HeadOK')
  BY <1>1, MovesKeep, MovesHead DEF RenewInv
<1>2. ASSUME NEW p \in Procs, Request(p) \/ Canceled(p) \/ Read(p) \/ RenewNotSent(p)
      PROVE  CacheInv' /\ (WriteOK /\ HeadOK => WriteOK' /\ HeadOK')
  BY <1>1, <1>2, RequestMoves, CanceledMoves, ReadMoves, NotSentMoves
<1>3. ASSUME NEW p \in Procs, NewCache(p) \/ Crash(p) \/ Write(p)
      PROVE  CacheInv' /\ (WriteOK /\ HeadOK => WriteOK' /\ HeadOK')
  BY <1>3, NewCacheKeeps, CrashKeeps, FlushWriteKeeps, DropKeeps DEF Write
<1>4. ASSUME NEW p \in Procs, CreateJournal(p) \/ RenewSpent(p) \/ RenewOk(p)
      PROVE  CacheInv' /\ (WriteOK /\ HeadOK => WriteOK' /\ HeadOK')
  BY <1>4, CreateKeeps, SpentKeeps, RenewOkKeeps
<1>5. ASSUME NEW p \in Procs, Broker(p)
      PROVE  CacheInv' /\ (WriteOK /\ HeadOK => WriteOK' /\ HeadOK')
  BY <1>2, <1>3, <1>4, <1>5 DEF Broker, Renewal
<1>6. CASE AgeJournal \/ UNCHANGED vars
  <2>1. UNCHANGED <<secret, journal, live, issued, up, e, pc, op, jr, head, lost, sent, rotated>>
    BY <1>6 DEF AgeJournal, vars, store, provider
  <2> QED BY <2>1, SameKeepsAll
<1>7. CASE Import
  BY <1>7, ImportKeeps
<1>8. CASE deleteSecret
  BY <1>8, DeleteKeeps
<1> QED BY <1>5, <1>6, <1>7, <1>8 DEF Next

LEMMA CacheReuse ==
    ASSUME TypeOK, CacheInv
    PROVE  NoReuse
<1>1. ASSUME NEW p \in Procs, Running(p)
      PROVE  (pc[p] = "call" => e[p].doc \notin sent[p]) /\ e[p].doc \notin rotated[p]
  <2>1. EntryOK(p, e[p]) /\ LabelOK(p, pc[p], e[p], op[p])
    BY <1>1, RunningOK
  <2> QED BY <2>1 DEF EntryOK, SentOK, LabelOK
<1>2. ASSUME NEW p \in Procs, ~Running(p)
      PROVE  (pc[p] = "call" => e[p].doc \notin sent[p]) /\ e[p].doc \notin rotated[p]
  BY <1>2 DEF CacheInv, RunsOK, OffOK
<1> QED BY <1>1, <1>2 DEF NoReuse, NoResend, ServesNoRotated, serve

LEMMA RenewSafe ==
    ASSUME TypeOK, RenewInv
    PROVE  HeadSafe /\ SendsNoSuperseded
<1>1. HeadSafe
  <2> SUFFICES ASSUME head # NoDoc, secret # head, ~Promotable
               PROVE  \E p \in Procs : /\ Running(p) /\ e[p].doc = head
                                       /\ e[p].journal = "started"
                                       /\ journal = Journal("renewing", p, secret, NoDoc)
    BY DEF RenewInv, HeadOK, HeadSafe, Promotable
  <2>1. PICK p \in Procs : Running(p) /\ Holds(e[p]) /\ Succeeds(e[p])
    BY DEF RenewInv, HeadOK
  <2>2. EntryOK(p, e[p])
    BY <2>1, RunningOK DEF RenewInv
  <2>3. journal = Journal("renewing", p, secret, NoDoc)
    BY <2>1, <2>2 DEF Holds, EntryOK, StepOK, Promotable, Journal, Renewing
  <2> QED BY <2>1, <2>3 DEF Holds, Succeeds
<1>2. ASSUME NEW p \in Procs, pc[p] = "call", secret = e[p].doc
      PROVE  secret \in live \cup lost
  <2>1. Running(p)
    BY <1>2 DEF RenewInv, CacheInv, RunsOK, OffOK
  <2>2. e[p] \in EntrySet /\ LabelOK(p, "call", e[p], op[p])
    BY <1>2, <2>1, RunningOK DEF RenewInv
  <2>3. HeadAt(e[p])
    BY <2>1, HeadBefore DEF RenewInv, CacheInv
  <2>4. /\ e[p].stored = e[p].doc /\ e[p].doc # NoDoc /\ e[p].doc # Junk
        /\ journal = Renewing(p, e[p].doc)
    BY <1>2, <2>2, MaxDocsAssumption DEF LabelOK, EntrySet, Junk
  <2>5. ~Promotable /\ ~Holds(e[p])
    BY <2>4 DEF Promotable, Holds, Renewing, Journal
  <2> QED BY <1>2, <2>3, <2>4, <2>5 DEF HeadAt
<1> QED BY <1>1, <1>2 DEF SendsNoSuperseded

(* Only the write of flush changes the secret and its process's entry. *)
LEMMA WriteReplaces ==
    ASSUME TypeOK, RenewInv, [Next]_vars, NEW p \in Procs,
           pc[p] = "write", secret' # secret, e'[p] # e[p]
    PROVE  secret = e[p].stored
<1>1. PICK q \in Procs : FlushWriteOk(q) \/ FlushWriteFails(q)
  <2>1. ~(Import \/ deleteSecret \/ AgeJournal \/ UNCHANGED vars)
    BY DEF Import, deleteSecret, AgeJournal, vars
  <2>2. PICK q \in Procs : Broker(q)
    BY <2>1 DEF Next
  <2>3. ~(NewCache(q) \/ Crash(q) \/ Request(q) \/ Canceled(q) \/ Renewal(q))
    BY DEF NewCache, Crash, Request, Resolve, ForceRenew, Recover, Canceled, Renewal,
           CreateJournal, RenewNotSent, RenewSpent, RenewOk, store
  <2>4. ~Read(q)
    BY DEF Read, readJournalOk, readJournalFails, SettleJournalOk, SettleJournalFails,
           SyncReadOk, SyncReadFails, SyncReadDue, FlushReadOk, FlushReadFails, store
  <2>5. ~dropJournal(q)
    BY DEF dropJournal
  <2> QED BY <2>2, <2>3, <2>4, <2>5 DEF Broker, Write
<1>2. At(q, "write") /\ secret # NoDoc /\ secret' = e[q].doc
  BY <1>1 DEF FlushWriteOk, FlushWriteFails, Landed, writable, store
<1>3. Running(p)
  BY DEF RenewInv, CacheInv, RunsOK, OffOK
<1>4. q = p
  BY <1>2, <1>3 DEF RenewInv, CacheInv, RunsOK, At
<1>5. secret \in {e[p].stored, e[p].doc, NoDoc}
  BY <1>2, <1>4 DEF RenewInv, WriteOK
<1> QED BY <1>2, <1>4, <1>5

(* No cache sends a document to the provider twice, or serves one that it  *)
(* has replaced there, for any number of broker processes and documents,   *)
(* with crashes, failed writes, and imports at any moment.                 *)
THEOREM NothingReused == Spec => []NoReuse
<1>1. Init => TypeOK /\ CacheInv
  BY InitType, InitInv DEF RenewInv
<1>2. TypeOK /\ CacheInv /\ [Next]_vars => (TypeOK /\ CacheInv)'
  BY NextType, NextInv
<1>3. TypeOK /\ CacheInv => NoReuse
  BY CacheReuse
<1> QED BY <1>1, <1>2, <1>3, PTL DEF Spec

LEMMA RenewStays ==
    ASSUME ~ImportRaces
    PROVE  Spec => [](TypeOK /\ RenewInv)
<1>1. Init => TypeOK /\ RenewInv
  BY InitType, InitInv
<1>2. TypeOK /\ RenewInv /\ [Next]_vars => (TypeOK /\ RenewInv)'
  BY NextType, NextInv DEF RenewInv
<1> QED BY <1>1, <1>2, PTL DEF Spec

(* The one valid pair of the stored login stays in the secret, in a        *)
(* journal that the next process promotes, or with a running cache whose   *)
(* journal is in the store, unless an import lands between flush's read    *)
(* and its writes.                                                         *)
THEOREM HeadIsKept ==
    ASSUME ~ImportRaces
    PROVE  Spec => []HeadSafe
<1>1. TypeOK /\ RenewInv => HeadSafe
  BY RenewSafe
<1>2. Spec => [](TypeOK /\ RenewInv)
  BY RenewStays
<1> QED BY <1>1, <1>2, PTL

(* No refresh goes out with a stored refresh token that a renewal has      *)
(* replaced, unless the replacement was lost: no crash, failed write or    *)
(* settled journal leads back to it.                                       *)
THEOREM NoneSuperseded ==
    ASSUME ~ImportRaces
    PROVE  Spec => []SendsNoSuperseded
<1>1. TypeOK /\ RenewInv => SendsNoSuperseded
  BY RenewSafe
<1>2. Spec => [](TypeOK /\ RenewInv)
  BY RenewStays
<1> QED BY <1>1, <1>2, PTL

(* A write-back replaces only what the cache last knew to be stored.       *)
THEOREM ImportsStay ==
    ASSUME ~ImportRaces
    PROVE  Spec => ImportKept
<1>1. TypeOK /\ RenewInv /\ [Next]_vars =>
        [\A p \in Procs : pc[p] = "write" /\ secret' # secret /\ e'[p] # e[p] =>
            secret = e[p].stored]_vars
  BY WriteReplaces
<1>2. Spec => [](TypeOK /\ RenewInv)
  BY RenewStays
<1> QED BY <1>1, <1>2, PTL DEF Spec, ImportKept
=============================================================================
