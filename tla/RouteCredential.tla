-------------------------- MODULE RouteCredential --------------------------
(***************************************************************************)
(* What a route injects from the document of its secret (internal/broker   *)
(* inject.go, mint.go, vend.go): the field of a JSON document, the whole   *)
(* of it, the token that a gcp pointer is turned into, or keys that the    *)
(* broker answers with itself.                                             *)
(*                                                                         *)
(* A document is a function from paths of keys to the values at its        *)
(* leaves, and the empty function for one that is not JSON.  credential    *)
(* .field is the dotted name "a.b".                                        *)
(***************************************************************************)
EXTENDS Naturals, Sequences, SequencesExt, FiniteSets

CONSTANTS
    DocPaths,   \* bound: the paths of the documents that are tried
    MaxLeaves   \* bound: their leaves

VARIABLE crd  \* the document and the route that were tried, and what came out

Bad == "errCredentialShape"
\* Values of a leaf: strings, two of them with a line end or a control
\* character, the empty string, and a number.
LeafValues == {"x", "y", "x+lf", "ctl", "", "number"}

Whole == <<"a.b">>
Dotted == <<"a", "b">>

Exists(doc, path) == \E p \in DOMAIN doc : IsPrefix(path, p)

\* asString of what walkPath found: the string of a leaf, not a number or a map.
asString(doc, path) ==
    IF path \in DOMAIN doc /\ doc[path] # "number" THEN doc[path] ELSE Bad

\* collect: the positions below the root, at any depth, of a key that holds the
\* whole name, and of the dotted path below its first segment.
collect(doc) ==
    LET prefixes == UNION {{SubSeq(p, 1, k) : k \in 0..Len(p)} : p \in DOMAIN doc}
    IN  {p \in {q \o Whole : q \in prefixes} \cup {q \o Dotted : q \in prefixes} : Exists(doc, p)}

\* Changed form of found: the first value is taken.
foundFirst(doc, first) == asString(doc, first)

\* What a search at depth makes of the values in the order the map gave, first
\* at the front: they must be one string.
found(doc, first) ==
    IF \A p \in collect(doc) : asString(doc, p) = asString(doc, first)
    THEN asString(doc, first) ELSE Bad

\* field: a path from the root, then a key at the root, then the search.
field(doc, first) ==
    IF Exists(doc, Dotted) THEN asString(doc, Dotted)
    ELSE IF Exists(doc, Whole) THEN asString(doc, Whole)
    ELSE IF collect(doc) = {} THEN Bad
    ELSE found(doc, first)

\* credentialValue: without one line end at the end, and nothing that would
\* break the header.
credentialValue(value) ==
    IF value = "x+lf" THEN "x" ELSE IF value \in {"", "ctl"} THEN Bad ELSE value

\* credential: a pointer is minted on a gcp route alone; the outcome is the
\* value, or the check that the audit line and the 502 name.
credential(doc, pointer, gcp, minted, first) ==
    IF ~pointer
    THEN LET v == credentialValue(field(doc, first)) IN
         IF v = Bad THEN [check |-> "credential", sent |-> ""] ELSE [check |-> "", sent |-> v]
    ELSE IF ~gcp THEN [check |-> "credential.gcponly", sent |-> ""]
    ELSE IF minted THEN [check |-> "", sent |-> "token"] ELSE [check |-> "credential", sent |-> ""]

\* vend: without a vendor, or when it fails, 502; the keys go to the guest and
\* nothing goes upstream.
vend(vendor, fetched) ==
    [check |-> IF vendor /\ fetched THEN "" ELSE "vend", sent |-> ""]

Docs == UNION {[S -> LeafValues] : S \in
           {T \in SUBSET DocPaths : /\ Cardinality(T) <= MaxLeaves
                                    /\ \A p, q \in T : IsPrefix(p, q) => p = q}}

CredentialInit == crd = <<>>

CredentialTry ==
    /\ crd = <<>>
    /\ \/ \E doc \in Docs : \E first \in (IF collect(doc) = {} THEN {Whole} ELSE collect(doc)) :
            crd' = <<"document", doc, credential(doc, FALSE, FALSE, FALSE, first)>>
       \/ \E gcp, minted \in BOOLEAN :
            crd' = <<"pointer", gcp, credential(<<>>, TRUE, gcp, minted, Whole)>>
       \/ \E vendor, fetched \in BOOLEAN : crd' = <<"vends", FALSE, vend(vendor, fetched)>>

-----------------------------------------------------------------------------
\* What goes upstream does not depend on the order in which a map gives its
\* keys: whichever match the search meets first, the same value or the same
\* refusal comes out; and a pointer at the host's login never goes upstream as
\* a header, only the token minted from it on a gcp route (inject.go:57-82,
\* mint.go:29-46).
CredentialUnambiguous ==
    crd # <<>> =>
        IF crd[1] = "document"
        THEN \A first \in collect(crd[2]) :
               credential(crd[2], FALSE, FALSE, FALSE, first) = crd[3]
        ELSE crd[3].sent = (IF crd[1] = "pointer" /\ crd[2] /\ crd[3].check = "" THEN "token" ELSE "")
=============================================================================
