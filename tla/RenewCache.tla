------------------------------ MODULE RenewCache ------------------------------
(***************************************************************************)
(* The refresher of internal/renew: one Cache per broker process, which    *)
(* owns a renewable secret, renews it against a provider that rotates the  *)
(* refresh token single-use, and journals every renewal in the store.      *)
(*                                                                         *)
(* One secret is modelled (entries of different names share no state).     *)
(* The callers of one cache wait on the entry's turn, so a process runs    *)
(* one operation at a time; op[p] is that operation and pc[p] the store or *)
(* provider call it makes next.  Everything between two such calls works   *)
(* on the entry only, under the turn, and is one step.                     *)
(*                                                                         *)
(* A document is an integer: the provider issues 1, 2, 3...  A SHA-256 is  *)
(* modelled by the document it is of (no collisions).                      *)
(***************************************************************************)
EXTENDS Integers

CONSTANTS
    Procs,        \* the cache incarnations; a crashed one never returns
    Nobody,       \* the owner of no journal
    MaxDocs,      \* bound: the documents the provider and imports issue
    ImportRaces   \* TRUE: an import may land between flush's read and writes

ASSUME ProcsAssumption == Nobody \notin Procs
ASSUME MaxDocsAssumption == MaxDocs \in Nat \ {0}
ASSUME RacesAssumption == ImportRaces \in BOOLEAN

NoDoc == 0         \* nil, and a secret that is not in the store
Junk == -1         \* a stored value the renewer's Expiry cannot read
Docs == 1..MaxDocs

VARIABLES
    secret,    \* what the store holds under the secret's name
    journal,   \* what the store holds under secret.JournalName
    live,      \* the documents whose refresh token the provider accepts
    issued,    \* how many documents exist
    up,        \* [Procs -> "new", "up" or "down"]
    e,         \* [Procs -> the cache's entry of the secret]
    pc, op,    \* the operation that holds the turn and its next call
    jr,        \* the journal recover read before it reads the secret
    young,     \* the journal in the store started within journalLife
    head,      \* ghost: the one valid document of the stored login, or NoDoc
    lost,      \* ghost: documents whose successor nobody has any more
    sent,      \* ghost: [Procs -> documents a refresh reached the provider with]
    rotated    \* ghost: [Procs -> documents an answered refresh replaced]

store == <<secret, journal>>
provider == <<live, issued, lost, sent, rotated>>
vars == <<secret, journal, live, issued, up, e, pc, op, jr, young,
          head, lost, sent, rotated>>

-----------------------------------------------------------------------------
(* The journal document and the entry *)

NoJournal == [phase |-> "none", owner |-> Nobody, from |-> NoDoc, doc |-> NoDoc]
BadJournal == [NoJournal EXCEPT !.phase = "bad"]
Journal(phase, p, from, doc) ==
    [phase |-> phase, owner |-> p, from |-> from, doc |-> doc]

Timers == {"fail", "write", "recover", "blocked"}   \* retryAfter has not passed
Lives == {"fresh", "due"}                           \* due: renewAt has passed

NewEntry == [doc |-> NoDoc, stored |-> NoDoc, life |-> "fresh", checked |-> FALSE,
             failure |-> "none", spent |-> FALSE, journal |-> "none",
             from |-> NoDoc, recovered |-> FALSE, blocked |-> FALSE,
             suspect |-> FALSE, cooling |-> {}]

NoOp == [kind |-> "none", stale |-> NoDoc, read |-> FALSE, at |-> "begin"]

pendingLocked(r) == r.journal # "none" \/ (r.doc # NoDoc /\ r.doc # r.stored)
(* Mutant: a journal left to delete does not count as a pending write. *)
writeDueDocOnly(r) == r.doc # NoDoc /\ r.doc # r.stored /\ "write" \notin r.cooling
writeDue(r) == pendingLocked(r) /\ "write" \notin r.cooling
backingOff(r) == r.failure # "none" /\ "fail" \in r.cooling
stale(r) == r.doc = NoDoc \/ ~r.checked
(* Mutant: a journal found held by another process is never read again. *)
unsettledOnce(r) == ~r.recovered /\ "recover" \notin r.cooling
unsettled(r) == IF r.recovered THEN r.blocked /\ "blocked" \notin r.cooling
                               ELSE "recover" \notin r.cooling

(* Mutant: a spent entry is renewed again. *)
dueSpent(r) ==
    /\ r.doc # NoDoc /\ ~backingOff(r) /\ ~pendingLocked(r) /\ ~r.blocked
    /\ r.suspect \/ r.life = "due"
due(r) ==
    /\ r.doc # NoDoc /\ ~r.spent /\ ~backingOff(r)
    /\ ~pendingLocked(r) /\ ~r.blocked
    /\ r.suspect \/ r.life = "due"

(* An expired document is due as well.  That it is not ready either only   *)
(* matters when nothing is left to do, and then Resolve changes nothing.   *)
ready(r) == ~stale(r) /\ ~unsettled(r) /\ ~writeDue(r) /\ ~due(r)

(* What Resolve answers at most: once the document has expired it is an    *)
(* error, as NoDoc is.                                                     *)
serve(r) == r.doc

(* from is read while the step is journalStarted only, and kept no longer. *)
journalAt(r, step) ==
    [r EXCEPT !.journal = step, !.from = IF step = "started" THEN @ ELSE NoDoc]

(* reset: doc becomes both served and stored; the journal step stays. *)
reset(r, doc, life) ==
    [r EXCEPT !.doc = doc, !.stored = doc, !.life = life, !.checked = doc # NoDoc,
              !.failure = "none", !.spent = FALSE, !.suspect = FALSE,
              !.cooling = @ \ {"fail", "write"}]

(* reconcileLocked takes v, just read, into the entry.  life is how old a  *)
(* document read for the first time turns out to be.                       *)
reconcileLocked(r, v, life) ==
    IF r.doc # NoDoc /\ v \in {r.stored, r.doc}
    THEN [r EXCEPT !.stored = v, !.checked = TRUE]
    ELSE reset(r, IF v = Junk THEN NoDoc ELSE v, IF v = Junk THEN "fresh" ELSE life)

failed(r, why) ==
    [r EXCEPT !.failure = why, !.spent = FALSE, !.cooling = @ \cup {"fail"}]
writeFailed(r) == [r EXCEPT !.cooling = @ \cup {"write"}]
settled(r, blocked) ==
    [r EXCEPT !.recovered = TRUE, !.blocked = blocked,
              !.cooling = (@ \ {"recover", "blocked"})
                             \cup (IF blocked THEN {"blocked"} ELSE {})]

(* The entries time alone can lead to, before an operation starts: timers  *)
(* run out, recheck passes, the document ages.  Time that passes later in  *)
(* the operation changes no comparison that the same time passing before   *)
(* it would not, and ForceRenew and Recover look at the timers only.       *)
cooled(r) == {[r EXCEPT !.cooling = c] : c \in SUBSET r.cooling}
aged(r, recheck, l) ==
    [r EXCEPT !.checked = @ /\ ~recheck, !.life = IF r.doc = NoDoc THEN @ ELSE l]

-----------------------------------------------------------------------------
(* Control: where an operation goes next *)

Goto(p, label, r, o) ==
    /\ pc' = [pc EXCEPT ![p] = label]
    /\ e' = [e EXCEPT ![p] = r]
    /\ op' = [op EXCEPT ![p] = o]

Return(p, r) == Goto(p, "idle", r, NoOp)

(* ForceRenew's switch: the cases that answer without a renewal. *)
mayForce(r, o) ==
    /\ r.doc # NoDoc /\ r.doc = o.stale /\ o.read /\ ~r.spent
    /\ ~pendingLocked(r) /\ ~r.blocked /\ ~backingOff(r)

(* A read that succeeded in ForceRenew lifts the hold of one that failed. *)
lifted(r, o) ==
    IF o.read /\ r.failure = "unread"
    THEN [r EXCEPT !.failure = "none", !.cooling = @ \ {"fail"}] ELSE r

(* flush returned without an error. *)
FlushDone(p, r, o) ==
    LET own == o.at # "renew"
        r1 == lifted(r, o) IN
    \/ ~own /\ Return(p, r)
    \/ own /\ o.kind = "recover" /\ Return(p, r)
    \/ own /\ o.kind = "resolve" /\ ~due(r) /\ Return(p, r)
    \/ own /\ o.kind = "resolve" /\ due(r) /\ o.read /\ Goto(p, "create", r, NoOp)
    \/ own /\ o.kind = "resolve" /\ due(r) /\ ~o.read /\ Goto(p, "reread", r, NoOp)
    \/ own /\ o.kind = "force" /\ mayForce(r1, o) /\ Goto(p, "create", r1, NoOp)
    \/ own /\ o.kind = "force" /\ ~mayForce(r1, o) /\ Return(p, r1)

(* Mutant: flush writes what it holds without reading the store first. *)
FlushUnread(p, r, o) ==
    IF writeDue(r) THEN Goto(p, "write", r, o) ELSE FlushDone(p, r, o)

(* flush: nothing to write returns at once, otherwise the store is read. *)
Flush(p, r, o) ==
    IF writeDue(r) THEN Goto(p, "flush", r, o) ELSE FlushDone(p, r, o)

(* recover returned without an error, to its caller or to renew. *)
RecoverDone(p, r, o) ==
    LET read == o.kind = "force" \/ (o.kind = "resolve" /\ stale(r)) IN
    \/ o.at = "exists" /\ Return(p, failed(r, "renewal"))
    \/ o.at # "exists" /\ read /\ Goto(p, "sync", r, o)
    \/ o.at # "exists" /\ ~read /\ Flush(p, r, o)

Running(p) == up[p] = "up"
At(p, label) == Running(p) /\ pc[p] = label

-----------------------------------------------------------------------------
Init ==
    /\ secret = 1 /\ journal = NoJournal
    /\ live = {1} /\ issued = 1
    /\ up = [p \in Procs |-> "new"]
    /\ e = [p \in Procs |-> NewEntry]
    /\ pc = [p \in Procs |-> "idle"]
    /\ op = [p \in Procs |-> NoOp]
    /\ jr = [p \in Procs |-> NoJournal]
    /\ young = FALSE
    /\ head = 1 /\ lost = {}
    /\ sent = [p \in Procs |-> {}] /\ rotated = [p \in Procs |-> {}]

(* A broker starts with an empty cache: NewCache does not touch the store. *)
(* The broker lock keeps one at a time (BrokerLifecycle, ServingOwnsDir).  *)
NewCache(p) ==
    /\ up[p] = "new"
    /\ \A q \in Procs : up[q] # "up"
    /\ up' = [up EXCEPT ![p] = "up"]
    /\ UNCHANGED <<store, provider, e, pc, op, jr, young, head>>

(* Only p's memory holds the one valid document. *)
onlyCopy(p) ==
    /\ head # NoDoc /\ e[p].doc = head
    /\ secret # head /\ journal.doc # head
    /\ \A q \in Procs \ {p} : e[q].doc # head

Crash(p) ==
    /\ Running(p)
    /\ up' = [up EXCEPT ![p] = "down"]
    /\ e' = [e EXCEPT ![p] = NewEntry]
    /\ pc' = [pc EXCEPT ![p] = "idle"]
    /\ op' = [op EXCEPT ![p] = NoOp]
    /\ jr' = [jr EXCEPT ![p] = NoJournal]
    /\ sent' = [sent EXCEPT ![p] = {}]
    /\ rotated' = [rotated EXCEPT ![p] = {}]
    /\ IF onlyCopy(p) THEN head' = NoDoc /\ lost' = lost \cup {e[p].stored}
                      ELSE UNCHANGED <<head, lost>>
    /\ UNCHANGED <<store, live, issued, young>>

-----------------------------------------------------------------------------
(* The operations, up to the call that comes first *)

Resolve(p) ==
    /\ At(p, "idle")
    /\ \E w \in cooled(e[p]), recheck \in BOOLEAN, l \in {e[p].life, "due"} :
        LET r == aged(w, recheck, l)
            o == [NoOp EXCEPT !.kind = "resolve"] IN
        /\ ~ready(r)
        /\ IF unsettled(r) THEN Goto(p, "recover", r, o) ELSE RecoverDone(p, r, o)
    /\ UNCHANGED <<store, provider, up, jr, young, head>>

(* refused is the document the upstream answered 401 to: the one held, or  *)
(* NoDoc for an older one.  The store never goes back to an older document *)
(* (an import is a new login), so an older one stays different.            *)
ForceRenew(p) ==
    /\ At(p, "idle")
    /\ \E r \in cooled(e[p]), refused \in {e[p].doc, NoDoc} :
        LET o == [NoOp EXCEPT !.kind = "force", !.stale = refused] IN
        IF unsettled(r) THEN Goto(p, "recover", r, o) ELSE RecoverDone(p, r, o)
    /\ UNCHANGED <<store, provider, up, jr, young, head>>

Recover(p) ==
    /\ At(p, "idle")
    /\ \E r \in cooled(e[p]) :
        /\ unsettled(r)
        /\ Goto(p, "recover", r, [NoOp EXCEPT !.kind = "recover"])
    /\ UNCHANGED <<store, provider, up, jr, young, head>>

(* The caller's context ends a read: nothing is recorded.  flush's read    *)
(* and every write run on a context the caller cannot cancel.              *)
Canceled(p) ==
    /\ Running(p) /\ pc[p] \in {"recover", "settle", "sync", "reread"}
    /\ Return(p, e[p])
    /\ jr' = [jr EXCEPT ![p] = NoJournal]
    /\ UNCHANGED <<store, provider, up, young, head>>

-----------------------------------------------------------------------------
(* recover *)

(* A stopped owner counts as alive when its pid was reused and the start   *)
(* time cannot be compared.                                                *)
ownerAlive(q) == IF up[q] = "up" THEN {TRUE} ELSE {TRUE, FALSE}

readJournalOk(p) ==
    /\ At(p, "recover")
    /\ \/ /\ journal = NoJournal
          /\ RecoverDone(p, settled(e[p], FALSE), op[p])
          /\ UNCHANGED jr
       \/ /\ journal.owner = p
          /\ LET r == settled(e[p], FALSE) IN
             RecoverDone(p, journalAt(r, IF r.journal = "none" THEN "clear" ELSE r.journal),
                         op[p])
          /\ UNCHANGED jr
       \/ /\ young /\ journal.owner \in Procs \ {p} /\ TRUE \in ownerAlive(journal.owner)
          /\ RecoverDone(p, settled(e[p], TRUE), op[p])
          /\ UNCHANGED jr
       \/ /\ journal # NoJournal /\ journal.owner # p
          /\ young => FALSE \in ownerAlive(journal.owner)
          /\ jr' = [jr EXCEPT ![p] = journal]
          /\ Goto(p, "settle", e[p], op[p])
    /\ UNCHANGED <<store, provider, up, young, head>>

(* Serving goes on; the journal is read again after retryAfter. *)
readJournalFails(p) ==
    /\ At(p, "recover")
    /\ RecoverDone(p, [e[p] EXCEPT !.cooling = @ \cup {"recover"}], op[p])
    /\ UNCHANGED <<store, provider, up, jr, young, head>>

(* Mutant: a renewed journal is treated like a renewing one. *)
settleDrops(r, j, v) ==
    IF j.from = v THEN [journalAt(r, "clear") EXCEPT !.suspect = TRUE]
                  ELSE journalAt(r, "clear")

(* What the journal j of a stopped process means, with v in the secret.    *)
settle(r, j, v) ==
    CASE j.phase = "renewed" /\ j.from = v ->
            [journalAt(r, "renewed") EXCEPT
                !.doc = j.doc, !.life = "fresh", !.failure = "none", !.spent = FALSE,
                !.cooling = @ \ {"fail"}]
      [] j.phase = "bad" \/ (j.phase = "renewing" /\ j.from = v) ->
            [journalAt(r, "clear") EXCEPT !.suspect = TRUE]
      [] OTHER -> journalAt(r, "clear")

(* recover's read of the secret, which decides what the journal means.     *)
SettleJournalOk(p) ==
    /\ At(p, "settle")
    /\ IF secret = NoDoc
       THEN Goto(p, "drop", journalAt(settled(reset(e[p], NoDoc, "fresh"), FALSE), "clear"),
                 NoOp)
       ELSE \E life \in Lives :
              LET r == reconcileLocked(settled(e[p], FALSE), secret, life) IN
              IF r.doc = NoDoc THEN Return(p, r)
              ELSE RecoverDone(p, settle(r, jr[p], secret), op[p])
    /\ jr' = [jr EXCEPT ![p] = NoJournal]
    /\ UNCHANGED <<store, provider, up, young, head>>

SettleJournalFails(p) ==
    /\ At(p, "settle")
    /\ LET r == [e[p] EXCEPT !.cooling = @ \cup {"recover"}] IN
       IF r.doc = NoDoc THEN Return(p, r) ELSE RecoverDone(p, r, op[p])
    /\ jr' = [jr EXCEPT ![p] = NoJournal]
    /\ UNCHANGED <<store, provider, up, young, head>>

(* dropJournal deletes the journal of a secret that is gone. *)
dropJournal(p) ==
    /\ At(p, "drop")
    /\ \/ journal' = NoJournal /\ Return(p, journalAt(e[p], "none"))
       \/ journal' \in {journal, NoJournal} /\ Return(p, writeFailed(e[p]))
    /\ young' = (young /\ journal' # NoJournal)
    /\ UNCHANGED <<secret, provider, up, jr, head>>

-----------------------------------------------------------------------------
(* syncRead, from each of the three places that call it.  A secret that is *)
(* gone is dropped; a read that failed keeps the document in memory and is *)
(* an error when there is none.                                            *)

(* At the start of an operation. *)
SyncReadOk(p) ==
    /\ At(p, "sync")
    /\ IF secret = NoDoc THEN Return(p, reset(e[p], NoDoc, "fresh"))
       ELSE \E life \in Lives :
              LET r == reconcileLocked(e[p], secret, life) IN
              IF r.doc = NoDoc THEN Return(p, r)
              ELSE Flush(p, r, [op[p] EXCEPT !.read = TRUE])
    /\ UNCHANGED <<store, provider, up, jr, young, head>>

SyncReadFails(p) ==
    /\ At(p, "sync")
    /\ IF e[p].doc = NoDoc THEN Return(p, e[p])
       ELSE Flush(p, [e[p] EXCEPT !.checked = TRUE], op[p])
    /\ UNCHANGED <<store, provider, up, jr, young, head>>

(* In Resolve, before a renewal: a re-import needs none, and a read that   *)
(* failed holds the renewal (holdRenewal).                                 *)
SyncReadDue(p) ==
    /\ At(p, "reread")
    /\ \/ secret = NoDoc /\ Return(p, reset(e[p], NoDoc, "fresh"))
       \/ Return(p, failed([e[p] EXCEPT !.checked = TRUE], "unread"))
       \/ /\ secret # NoDoc
          /\ \E life \in Lives :
               LET r == reconcileLocked(e[p], secret, life) IN
               IF due(r) THEN Goto(p, "create", r, NoOp) ELSE Return(p, r)
    /\ UNCHANGED <<store, provider, up, jr, young, head>>

(* In flush, before its writes. *)
FlushReadOk(p) ==
    /\ At(p, "flush")
    /\ IF secret = NoDoc THEN Goto(p, "drop", reset(e[p], NoDoc, "fresh"), NoOp)
       ELSE \E life \in Lives :
              LET r == reconcileLocked(e[p], secret, life) IN
              \/ r.doc = NoDoc /\ Return(p, r)
              \/ r.doc # NoDoc /\ writeDue(r) /\ Goto(p, "write", r, op[p])
              \/ r.doc # NoDoc /\ ~writeDue(r) /\ FlushDone(p, r, op[p])
    /\ UNCHANGED <<store, provider, up, jr, young, head>>

FlushReadFails(p) ==
    /\ At(p, "flush")
    /\ IF e[p].doc = NoDoc THEN Return(p, e[p])
       ELSE FlushDone(p, writeFailed([e[p] EXCEPT !.checked = TRUE]), op[p])
    /\ UNCHANGED <<store, provider, up, jr, young, head>>

-----------------------------------------------------------------------------
(* flush's loop: one durable step per write *)

(* The secret holds the document: only the journal is left. *)
stepOf(r) ==
    IF r.journal # "none" /\ r.doc = r.stored THEN "clear" ELSE r.journal

(* The store after the step's write has landed.  A journal and a secret    *)
(* are written with the secret's provenance, which List must name.         *)
Landed(p, step) ==
    \/ /\ step = "started"
       /\ journal' = Journal("renewed", p, e[p].from, e[p].doc)
       /\ young' \in IF journal.owner = p THEN {young} ELSE BOOLEAN
       /\ UNCHANGED secret
    \/ /\ step = "clear"
       /\ journal' = NoJournal /\ young' = FALSE /\ UNCHANGED secret
    \/ /\ step \notin {"started", "clear"}
       /\ secret' = e[p].doc /\ UNCHANGED <<journal, young>>

writable(step) == step = "clear" \/ secret # NoDoc

(* Mutant: the journal is cleared as soon as it has the document. *)
steppedSkips(r, step) ==
    LET w == [r EXCEPT !.cooling = @ \ {"write"}] IN
    CASE step = "started" -> journalAt(w, "clear")
      [] step = "clear" -> journalAt(w, "none")
      [] OTHER -> [journalAt(w, "clear") EXCEPT !.stored = r.doc]
stepped(r, step) ==
    LET w == [r EXCEPT !.cooling = @ \ {"write"}] IN
    CASE step = "started" -> journalAt(w, "renewed")
      [] step = "clear" -> journalAt(w, "none")
      [] OTHER -> [journalAt(w, IF step = "renewed" THEN "clear" ELSE step)
                        EXCEPT !.stored = r.doc]

FlushWriteOk(p) ==
    /\ At(p, "write")
    /\ LET step == stepOf(e[p])
           r == stepped(e[p], step) IN
       /\ writable(step)
       /\ Landed(p, step)
       /\ IF writeDue(r) THEN Goto(p, "write", r, op[p]) ELSE FlushDone(p, r, op[p])
    /\ UNCHANGED <<provider, up, jr, head>>

(* A write that reported a failure may have landed all the same. *)
FlushWriteFails(p) ==
    /\ At(p, "write")
    /\ LET step == stepOf(e[p]) IN
       /\ UNCHANGED <<store, young>> \/ (writable(step) /\ Landed(p, step))
       /\ FlushDone(p, writeFailed(journalAt(e[p], step)), op[p])
    /\ UNCHANGED <<provider, up, jr, head>>

-----------------------------------------------------------------------------
(* renew *)

(* Step 1: the renewing journal is created, or the refresh is not sent.    *)
CreateJournal(p) ==
    /\ At(p, "create")
    /\ LET mine == Journal("renewing", p, e[p].doc, NoDoc) IN
       \/ /\ secret # NoDoc /\ journal = NoJournal
          /\ journal' = mine
          /\ young' = TRUE
          /\ Goto(p, "call", [e[p] EXCEPT !.journal = "started", !.from = e[p].doc], op[p])
       \/ /\ secret # NoDoc /\ journal # NoJournal
          /\ Goto(p, "recover", [e[p] EXCEPT !.recovered = FALSE,
                                             !.cooling = @ \ {"recover"}],
                  [NoOp EXCEPT !.at = "exists"])
          /\ UNCHANGED <<journal, young>>
       \/ /\ \/ UNCHANGED <<journal, young>>
             \/ /\ secret # NoDoc /\ journal = NoJournal
                /\ journal' = BadJournal /\ UNCHANGED young
             \/ /\ secret # NoDoc /\ journal = NoJournal
                /\ journal' = mine /\ young' = TRUE
          /\ Return(p, failed(e[p], "renewal"))
    /\ UNCHANGED <<secret, provider, up, jr, head>>

(* The refresh never reached the provider: its journal only has to go.     *)
RenewNotSent(p) ==
    /\ At(p, "call")
    /\ Flush(p, journalAt(failed(e[p], "renewal"), "clear"),
             [NoOp EXCEPT !.at = "renew"])
    /\ UNCHANGED <<store, provider, up, jr, young, head>>

(* ErrSpent: the provider refused, or its answer was lost or not a token   *)
(* pair, in which case the refresh token may have been rotated.            *)
RenewSpent(p) ==
    /\ At(p, "call")
    /\ LET d == e[p].doc IN
       /\ sent' = [sent EXCEPT ![p] = @ \cup {d}]
       /\ \/ UNCHANGED <<live, lost, head>>
          \/ /\ d \in live
             /\ live' = live \ {d}
             /\ lost' = lost \cup {d}
             /\ head' = IF head = d THEN NoDoc ELSE head
       /\ Flush(p, [journalAt(failed(e[p], "renewal"), "clear")
                        EXCEPT !.spent = TRUE, !.suspect = FALSE],
                [NoOp EXCEPT !.at = "renew"])
    /\ UNCHANGED <<store, issued, rotated, up, jr, young>>

(* The provider answered with a new pair: the one sent is dead from now on *)
(* and the new one is in this process's memory only.                       *)
RenewOk(p) ==
    /\ At(p, "call")
    /\ LET d == e[p].doc
           next == issued + 1 IN
       /\ d \in live /\ issued < MaxDocs
       /\ issued' = next
       /\ live' = (live \ {d}) \cup {next}
       /\ head' = IF head = d THEN next ELSE head
       /\ sent' = [sent EXCEPT ![p] = @ \cup {d}]
       /\ rotated' = [rotated EXCEPT ![p] = @ \cup {d}]
       /\ Flush(p, [e[p] EXCEPT !.doc = next, !.life = "fresh", !.failure = "none",
                                !.spent = FALSE, !.suspect = FALSE,
                                !.cooling = @ \ {"fail", "write"}],
                [NoOp EXCEPT !.at = "renew"])
    /\ UNCHANGED <<store, lost, up, jr, young>>

-----------------------------------------------------------------------------
(* The user and the clock *)

Flushing == \E p \in Procs : At(p, "write")

(* brig secret import of a new login, or of a value no renewer can read. *)
Import ==
    /\ ImportRaces \/ ~Flushing
    /\ \/ /\ issued < MaxDocs
          /\ issued' = issued + 1
          /\ secret' = issued + 1
          /\ live' = live \cup {issued + 1}
          /\ head' = issued + 1
       \/ /\ secret # Junk /\ secret' = Junk /\ head' = NoDoc
          /\ UNCHANGED <<live, issued>>
    /\ UNCHANGED <<journal, lost, sent, rotated, up, e, pc, op, jr, young>>

(* deleteSecret: the secret goes first, then its journal, which may fail.  *)
(* One step: no journal is created while the secret is gone, so the second *)
(* delete finds what the first one left.                                   *)
deleteSecret ==
    /\ secret # NoDoc
    /\ secret' = NoDoc /\ head' = NoDoc
    /\ journal' \in {NoJournal, journal}
    /\ young' = (young /\ journal' # NoJournal)
    /\ UNCHANGED <<provider, up, e, pc, op, jr>>

(* journalLife passes since the journal's renewal started. *)
AgeJournal ==
    /\ young /\ young' = FALSE
    /\ UNCHANGED <<store, provider, up, e, pc, op, jr, head>>

Renewal(p) == CreateJournal(p) \/ RenewNotSent(p) \/ RenewSpent(p) \/ RenewOk(p)
Read(p) == \/ readJournalOk(p) \/ readJournalFails(p)
           \/ SettleJournalOk(p) \/ SettleJournalFails(p)
           \/ SyncReadOk(p) \/ SyncReadFails(p) \/ SyncReadDue(p)
           \/ FlushReadOk(p) \/ FlushReadFails(p)
Write(p) == FlushWriteOk(p) \/ FlushWriteFails(p) \/ dropJournal(p)
Request(p) == Resolve(p) \/ ForceRenew(p) \/ Recover(p)

Broker(p) == \/ NewCache(p) \/ Crash(p) \/ Request(p) \/ Canceled(p)
             \/ Read(p) \/ Write(p) \/ Renewal(p)

Next == (\E p \in Procs : Broker(p)) \/ Import \/ deleteSecret \/ AgeJournal

Spec == Init /\ [][Next]_vars

(* A request for the secret, long enough after the last one: every timer   *)
(* has run out and the store is read again.                                *)
LateResolve(p) ==
    /\ At(p, "idle")
    /\ LET r == [e[p] EXCEPT !.cooling = {}, !.checked = FALSE]
           o == [NoOp EXCEPT !.kind = "resolve"] IN
       IF unsettled(r) THEN Goto(p, "recover", r, o) ELSE RecoverDone(p, r, o)
    /\ UNCHANGED <<store, provider, up, jr, young, head>>

(* Sandboxes go on using the secret, some of the time with retryAfter and  *)
(* recheck behind them, calls end (storeTimeout and tokenTimeout bound     *)
(* them), time passes, and a store call that is made again and again       *)
(* succeeds at some point.                                                 *)
Fairness(p) ==
    /\ WF_vars(AgeJournal)
    /\ WF_vars(Read(p) \/ Write(p) \/ Renewal(p))
    /\ SF_vars(LateResolve(p))
    /\ SF_vars(readJournalOk(p)) /\ SF_vars(SettleJournalOk(p))
    /\ SF_vars(SyncReadOk(p)) /\ SF_vars(FlushReadOk(p))
    /\ SF_vars(FlushWriteOk(p))

-----------------------------------------------------------------------------
(* Properties *)

JournalSet == [phase : {"none", "bad", "renewing", "renewed"},
               owner : Procs \cup {Nobody}, from : 0..MaxDocs, doc : 0..MaxDocs]
EntrySet == [doc : 0..MaxDocs, stored : 0..MaxDocs, life : Lives, checked : BOOLEAN,
             failure : {"none", "unread", "renewal"}, spent : BOOLEAN,
             journal : {"none", "started", "renewed", "clear"}, from : 0..MaxDocs,
             recovered : BOOLEAN, blocked : BOOLEAN, suspect : BOOLEAN,
             cooling : SUBSET Timers]
OpSet == [kind : {"none", "resolve", "force", "recover"}, stale : 0..MaxDocs,
          read : BOOLEAN, at : {"begin", "exists", "renew"}]
Labels == {"idle", "recover", "settle", "drop", "sync", "reread", "flush",
           "write", "create", "call"}

(* Every variable of the store, the provider and the caches (Cache, entry  *)
(* and journal of internal/renew) stays in its type.                       *)
TypeOK ==
    /\ secret \in (0..MaxDocs) \cup {Junk} /\ journal \in JournalSet
    /\ issued \in Docs /\ live \subseteq Docs
    /\ up \in [Procs -> {"new", "up", "down"}]
    /\ e \in [Procs -> EntrySet] /\ pc \in [Procs -> Labels]
    /\ op \in [Procs -> OpSet] /\ jr \in [Procs -> JournalSet]
    /\ young \in BOOLEAN
    /\ head \in 0..MaxDocs /\ lost \subseteq 0..MaxDocs
    /\ sent \in [Procs -> SUBSET (0..MaxDocs)] /\ rotated \in [Procs -> SUBSET Docs]

(* The one valid pair of the stored login is never dropped: it is in the   *)
(* secret, or in a journal that the next process will promote, or (after   *)
(* the provider's answer and before the first write of flush lands) in the *)
(* memory of a running cache, whose journal is in the store.               *)
HeadSafe ==
    head # NoDoc =>
        \/ secret = head
        \/ journal.phase = "renewed" /\ journal.from = secret /\ journal.doc = head
        \/ \E p \in Procs : /\ Running(p) /\ e[p].doc = head /\ e[p].journal = "started"
                             /\ journal = Journal("renewing", p, secret, NoDoc)

(* A refresh that reached the provider is never sent again with the same   *)
(* document: an entry with spent set is not renewed, by Resolve, by a 401  *)
(* (ForceRenew) or by a settled journal.                                   *)
NoResend == \A p \in Procs : pc[p] = "call" => e[p].doc \notin sent[p]

(* A stored refresh token that a renewal has replaced is never sent,       *)
(* unless the replacement was lost: no crash, failed write or settled      *)
(* journal makes a cache renew from a superseded document.                 *)
SendsNoSuperseded ==
    \A p \in Procs : pc[p] = "call" /\ secret = e[p].doc => secret \in live \cup lost

(* A pending write-back never overwrites a document someone else stored    *)
(* (Cache): what it replaces is what the cache last knew to be there.      *)
ImportKept ==
    [][\A p \in Procs : pc[p] = "write" /\ secret' # secret /\ e'[p] # e[p] =>
        secret = e[p].stored]_vars

(* No cache serves a document that it has itself replaced at the provider, *)
(* whatever a later read of the store returned.                            *)
ServesNoRotated == \A p \in Procs : serve(e[p]) \notin rotated[p]

(* A document that was sent to the provider or replaced there is used      *)
(* again in no way: whatever a later read of the store, a 401 or a settled *)
(* journal brings, no cache sends it twice or serves what it has rotated.  *)
NoReuse == NoResend /\ ServesNoRotated
=============================================================================
