------------------------------ MODULE BodyScan ------------------------------
(***************************************************************************)
(* The two passes of the broker over bodies that arrive in pieces: the     *)
(* scan of a request for the spellings of the live session tokens          *)
(* (internal/broker/placeholder.go) and the redaction of the credential    *)
(* from a response (internal/broker/redact.go).                            *)
(*                                                                         *)
(* A body is a word over a few letters: "backslash", "n" for the letters   *)
(* whose escape the scan drops, "slash", "space" for white space, and any  *)
(* other.  A spelling is a word; the encodings that make the spellings of  *)
(* one token are computed by spelling.at and are not distinguished here.   *)
(* What a secret is replaced by is one letter of its own.                  *)
(***************************************************************************)
EXTENDS Naturals, Sequences, FiniteSetsExt

CONSTANTS
    Spellings,  \* the spellings of the live tokens
    AnchorLen,  \* anchorLen: a shorter spelling is not looked for
    Secrets,    \* the strings the broker put on the upstream request, none empty
    ScanLetters, RedactLetters, \* the letters of the bodies
    MaxPiece,   \* bound: the letters of a piece
    MaxBody     \* bound: the length of a body

Redacted == "redacted"
Letters == ScanLetters \cup RedactLetters \cup {"backslash", "slash", Redacted}

ASSUME BodyAssumption ==
    /\ AnchorLen \in Nat \ {0} /\ MaxPiece \in Nat /\ MaxBody \in Nat
    /\ IsFiniteSet(Spellings) /\ Spellings \subseteq Seq(Letters)
    /\ IsFiniteSet(Secrets) /\ Secrets \subseteq Seq(Letters \ {Redacted}) /\ <<>> \notin Secrets

VARIABLES
    scn,  \* scan: what was fed, work, slashes, the hit
    red   \* redactor: what was fed, held, what was sent, the end of the body

HoldsAt(t, s, i) == \A j \in 1..Len(s) : t[i + j] = s[j]
Holds(t, s) == \E i \in 0..(Len(t) - Len(s)) : HoldsAt(t, s, i)
EndsIn(t, s) == Len(s) <= Len(t) /\ HoldsAt(t, s, Len(t) - Len(s))
Beginning(t, n) == SubSeq(t, 1, n)
Ending(t, n) == SubSeq(t, Len(t) - n + 1, Len(t))

-----------------------------------------------------------------------------
\* The scan.

\* spelling.length, over the spellings that newMatcher anchors.
Anchored == {s \in Spellings : Len(s) >= AnchorLen}
Longest == Max({0} \cup {Len(s) : s \in Anchored})

\* matcher.find with matcher.endsWith: a window is compared with a spelling
\* where its last AnchorLen letters are the spelling's.
Find(b) == \E s \in Anchored : Holds(b, s)

\* scan.squeeze, one letter: what it adds to work, and the backslashes it leaves.
Adds(slashes, c) ==
    IF c = "backslash" \/ (slashes > 0 /\ c = "n") THEN <<>>
    ELSE IF slashes > 0 /\ c = "slash" THEN <<"slash">>
    ELSE [i \in 1..slashes |-> "backslash"] \o (IF c = "space" THEN <<>> ELSE <<c>>)
Squeezed(st, c) ==
    [work |-> st.work \o Adds(st.slashes, c), slashes |-> IF c = "backslash" THEN st.slashes + 1 ELSE 0]

\* scan.squeeze.
Squeeze(st, chunk) ==
    LET after[n \in 0..Len(chunk)] == IF n = 0 THEN st ELSE Squeezed(after[n - 1], chunk[n])
    IN  after[Len(chunk)]

\* Changed form of Kept: one letter too few stays.
KeptShort(work) ==
    LET keep == IF Longest < 2 THEN 0 ELSE Longest - 2
    IN  IF Len(work) > keep THEN Ending(work, keep) ELSE work

\* What scan.write keeps of what it read: the longest spelling less one letter.
Kept(work) ==
    LET keep == IF Longest = 0 THEN 0 ELSE Longest - 1
    IN  IF Len(work) > keep THEN Ending(work, keep) ELSE work

\* scan.write, one chunk: squeeze, find, keep the end.
ScanWrite(chunk) ==
    LET st == Squeeze([work |-> scn.work, slashes |-> scn.slashes], chunk)
    IN  /\ ~scn.hit
        /\ Len(scn.fed) + Len(chunk) <= MaxBody
        /\ scn' = [fed |-> scn.fed \o chunk, hit |-> Find(st.work),
                   work |-> IF Find(st.work) THEN <<>> ELSE Kept(st.work),
                   slashes |-> IF Find(st.work) THEN 0 ELSE st.slashes]

-----------------------------------------------------------------------------
\* The redactor.

\* newRedactor: the longest of what is left first.
LongestOf(todo) == CHOOSE s \in todo : \A t \in todo : Len(t) <= Len(s)

\* bytes.ReplaceAll: leftmost, not overlapping.
ReplaceOne(acc, c, s) ==
    LET d == Append(acc, c)
    IN  IF EndsIn(d, s) THEN Append(Beginning(d, Len(d) - Len(s)), Redacted) ELSE d
Replaced(t, s) ==
    LET after[n \in 0..Len(t)] == IF n = 0 THEN <<>> ELSE ReplaceOne(after[n - 1], t[n], s)
    IN  after[Len(t)]

\* redactor.Read: every secret replaced, the longest first.
RedactAll(t) ==
    LET after[n \in 0..Cardinality(Secrets)] ==
          IF n = 0 THEN [data |-> t, todo |-> Secrets]
          ELSE LET s == LongestOf(after[n - 1].todo)
               IN  [data |-> Replaced(after[n - 1].data, s), todo |-> after[n - 1].todo \ {s}]
    IN  after[Cardinality(Secrets)].data

\* The last k letters of data begin a secret and are not all of it.
BeginsSecret(data, k) == \E s \in Secrets : k < Len(s) /\ \A j \in 1..k : s[j] = data[Len(data) - k + j]

\* Changed form of StartOfSecret: the shortest end is held back.
StartOfFirst(data) ==
    LET ends == {k \in 1..Len(data) : BeginsSecret(data, k)}
    IN  IF ends = {} THEN 0 ELSE Min(ends)

\* startOfSecret: the longest end of data that is a proper prefix of a secret.
StartOfSecret(data) == Max({0} \cup {k \in 1..Len(data) : BeginsSecret(data, k)})

\* redactor.Read of one piece; the last one sends all that is left.
RedactorRead(chunk, last) ==
    LET data == RedactAll(red.held \o chunk)
        keep == IF last THEN 0 ELSE StartOfSecret(data)
    IN  /\ ~red.end
        /\ Len(red.fed) + Len(chunk) <= MaxBody
        /\ red' = [fed |-> red.fed \o chunk, end |-> last,
                   out |-> red.out \o Beginning(data, Len(data) - keep), held |-> Ending(data, keep)]

-----------------------------------------------------------------------------
ScanStart == [fed |-> <<>>, work |-> <<>>, slashes |-> 0, hit |-> FALSE]
RedactStart == [fed |-> <<>>, held |-> <<>>, out |-> <<>>, end |-> FALSE]

ScanInit == scn = ScanStart /\ red = RedactStart

ScanBody ==
    /\ red = RedactStart
    /\ \E k \in 1..MaxPiece : \E chunk \in [1..k -> ScanLetters] : ScanWrite(chunk)
    /\ UNCHANGED red

RedactBody ==
    /\ scn = ScanStart
    /\ \E k \in 0..MaxPiece : \E chunk \in [1..k -> RedactLetters], last \in BOOLEAN :
         RedactorRead(chunk, last)
    /\ UNCHANGED scn

-----------------------------------------------------------------------------
\* What the scan looks for, over the whole body: the text without white space
\* and without the escapes, found or not.
Plain(body) == Squeeze([work |-> <<>>, slashes |-> 0], body).work

\* The scan finds a spelling exactly when the whole body, read at once, holds
\* one: a spelling or an escape that spans two chunks is not missed, and the
\* buffer that is cut after each chunk drops nothing that matters
\* (placeholder.go:362-378).
ScanFindsAll == scn.hit <=> Find(Plain(scn.fed))

\* Whatever the pieces the upstream's body arrives in, what was sent to the
\* guest never holds a secret, and the end of it is not held back
\* (redact.go:102-139).
SendsNoSecret ==
    /\ \A s \in Secrets : ~Holds(red.out, s)
    /\ red.end => red.held = <<>>

\* Bodies are clean in both directions, however they are cut into pieces: no
\* token of the guest goes up unseen, no secret comes down.
BodiesClean == ScanFindsAll /\ SendsNoSecret
=============================================================================
