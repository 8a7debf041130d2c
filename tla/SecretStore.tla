---------------------------- MODULE SecretStore ----------------------------
(***************************************************************************)
(* One secret in the two stores that brig has (internal/secret): the macOS *)
(* keychain, where a secret is a key item and an item sealed under that    *)
(* key, and the Secret Service of Linux, where it is one item with a value *)
(* and attributes; and the commands that create, update, import and delete *)
(* it (cmd/brig/secret.go, secretimport.go), several at once, each call of *)
(* the store failing or its process killed.                                *)
(*                                                                         *)
(* Values are numbered in the order in which their writes begin.           *)
(***************************************************************************)
EXTENDS Naturals, FiniteSets

CONSTANTS
    Writers,     \* brig processes
    MaxWrites    \* bound on the values

VARIABLES
    kind,    \* keychain or keyring
    item,    \* the items under the secret's name: [id, key, v, by, prov]
    seal,    \* the sealed item: [key, v, by], at most one
    wr,      \* a process
    begun,   \* the values so far
    told,    \* since the store was last known whole, a command failed or was killed
    crossed, \* what overlapped meanwhile: no two commands, updates only, or others too
    seized   \* an import without -y replaced what a user supplied

secretVars == <<kind, item, seal, wr, begun, told, crossed, seized>>

Resting == [pc |-> "idle", op |-> "none", upd |-> FALSE, n |-> 0, key |-> 0, id |-> 0, imported |-> FALSE, yes |-> FALSE,
            solo |-> FALSE]

\* A store is empty, or it has an item of a brig from before the sealed ones.
SecretInit ==
    /\ kind \in {"keychain", "keyring"}
    /\ item \in {{}, {[id |-> 0, key |-> 0, v |-> 0, by |-> "hand", prov |-> 0]}}
    /\ seal = {}
    /\ wr = [p \in Writers |-> Resting]
    /\ begun = 0 /\ told = FALSE /\ crossed = "no" /\ seized = FALSE

Quiet == \A p \in Writers : wr[p] = Resting
By(p) == IF wr[p].op = "import" THEN "import" ELSE "hand"
Prov(p) == IF wr[p].op = "import" THEN wr[p].n ELSE 0
Goes(p, pc) == wr' = [wr EXCEPT ![p].pc = pc]
\* The end of a command, with success or with an error that its user sees.
Ends(p, failed) == wr' = [wr EXCEPT ![p] = Resting] /\ told' = (told \/ failed)
Same == <<kind, begun, crossed>>

\* keyFromItem: an item from before the sealed ones holds the value itself.
HoldsKey(i) == i.key # 0
\* unseal: the sealed item opens with the key under which it was sealed.
Unsealed(i) == {<<"value", s.v, s.by>> : s \in {t \in seal : t.key = i.key}}

\* keychain.Read: what is under the name, damaged when the two do not match.
Reads ==
    IF item = {} THEN {<<"none", 0, "none">>}
    ELSE UNION {IF ~HoldsKey(i) THEN {<<"value", i.v, i.by>>}
                ELSE IF Unsealed(i) # {} THEN Unsealed(i)
                ELSE {<<"damaged", 0, "none">>} : i \in item}

-----------------------------------------------------------------------------
\* The commands.

Updating(w) == w.op = "import" => w.upd \/ w.pc \in {"list", "compare"}
Overlaps(op) ==
    IF Quiet THEN crossed
    ELSE IF /\ crossed # "other" /\ item # {}
            /\ ({op} \cup {wr[p].op : p \in Writers}) \subseteq {"update", "import", "none"}
            /\ \A p \in Writers : Updating(wr[p])
         THEN "updates" ELSE "other"

Begin(p, w) ==
    /\ wr[p] = Resting
    /\ wr' = [q \in Writers |-> IF q = p THEN [w EXCEPT !.solo = Quiet] ELSE [wr[q] EXCEPT !.solo = FALSE]]
    /\ crossed' = Overlaps(w.op)
    /\ UNCHANGED <<kind, item, seal, told, seized>>

\* brig secret create and update, the value read and checked.
WriteSecret(p, op) ==
    /\ begun < MaxWrites /\ begun' = begun + 1
    /\ Begin(p, [Resting EXCEPT !.op = op, !.pc = "find", !.upd = op = "update", !.n = begun'])

DeleteSecret(p) == Begin(p, [Resting EXCEPT !.op = "delete", !.pc = "find"]) /\ UNCHANGED begun

ImportSecrets(p, yes) ==
    /\ begun < MaxWrites /\ begun' = begun + 1
    /\ Begin(p, [Resting EXCEPT !.op = "import", !.pc = "list", !.n = begun', !.yes = yes])

\* storedByName: the provenance that the list shows.
ImportList(p) ==
    /\ wr[p].pc = "list"
    /\ \E had \in IF item = {} THEN {FALSE} ELSE {i.prov # 0 : i \in item} :
         wr' = [wr EXCEPT ![p].pc = "compare", ![p].imported = had]
    /\ UNCHANGED <<item, seal, told, seized>> /\ UNCHANGED Same

\* importOne: a damaged secret counts as there; without -y what brig did not
\* import is left alone.
ImportCompare(p) ==
    /\ wr[p].pc = "compare"
    /\ \E r \in Reads :
         LET there == r[1] # "none" IN
         \/ /\ there => wr[p].imported \/ wr[p].yes
            /\ wr' = [wr EXCEPT ![p].pc = "find", ![p].upd = there]
            /\ seized' = (seized \/ (crossed = "no" /\ ~told /\ r[3] = "hand" /\ ~wr[p].yes))
         \/ /\ there /\ ~wr[p].imported /\ ~wr[p].yes
            /\ wr' = [wr EXCEPT ![p] = Resting] /\ UNCHANGED seized
    /\ UNCHANGED <<item, seal, told>> /\ UNCHANGED Same

\* A call of the store that fails, a prompt that is dismissed; and SIGKILL.
Fails(p) ==
    /\ wr[p].pc \notin {"idle", "undo"}
    /\ Ends(p, TRUE)
    /\ UNCHANGED <<item, seal, seized>> /\ UNCHANGED Same

-----------------------------------------------------------------------------
\* The keychain.  A create draws a key and writes the key item first; an update
\* keeps the key, writes the sealed item first and then the item's provenance.

KeyFor(p) ==
    /\ kind = "keychain" /\ wr[p].pc = "find" /\ wr[p].op # "delete"
    /\ \/ ~wr[p].upd /\ wr' = [wr EXCEPT ![p].pc = "item", ![p].key = wr[p].n] /\ UNCHANGED told
       \/ wr[p].upd /\ item = {} /\ Ends(p, TRUE)
       \/ \E i \in item : /\ wr[p].upd
                          /\ wr' = [wr EXCEPT ![p].pc = "seal", ![p].key = IF HoldsKey(i) THEN i.key ELSE wr[p].n]
                          /\ UNCHANGED told
    /\ UNCHANGED <<item, seal, seized>> /\ UNCHANGED Same

\* putItem: security refuses a duplicate on a create.
PutItem(p) ==
    /\ kind = "keychain" /\ wr[p].pc = "item"
    /\ IF ~wr[p].upd /\ item # {} THEN Ends(p, TRUE) /\ UNCHANGED item
       ELSE /\ item' = {[id |-> 0, key |-> wr[p].key, v |-> 0, by |-> "none", prov |-> Prov(p)]}
            /\ Goes(p, IF wr[p].upd THEN "verify" ELSE "seal") /\ UNCHANGED told
    /\ UNCHANGED <<seal, seized>> /\ UNCHANGED Same

\* putSealed; a create that fails here takes its key item back.
PutSealed(p) ==
    /\ kind = "keychain" /\ wr[p].pc = "seal"
    /\ \/ /\ seal' = {[key |-> wr[p].key, v |-> wr[p].n, by |-> By(p)]}
          /\ Goes(p, IF wr[p].upd THEN "item" ELSE "verify")
       \/ ~wr[p].upd /\ Goes(p, "undo") /\ UNCHANGED seal
    /\ UNCHANGED <<item, told, seized>> /\ UNCHANGED Same

Undo(p) ==
    /\ wr[p].pc = "undo"
    /\ item' \in {{}, item}
    /\ Ends(p, TRUE)
    /\ UNCHANGED <<seal, seized>> /\ UNCHANGED Same

\* Changed form of ReadsBack: the write is not read back.
ReadsBack_never(p) == TRUE

\* verify: what is read is what was given.
ReadsBack(p) == \E r \in Reads : r[1] = "value" /\ r[2] = wr[p].n

\* A write that ran alone and was read back makes the store whole.
Verify(p) ==
    /\ kind = "keychain" /\ wr[p].pc = "verify"
    /\ IF ReadsBack(p)
       THEN /\ wr' = [wr EXCEPT ![p] = Resting]
            /\ told' = (told /\ ~wr[p].solo) /\ crossed' = IF wr[p].solo THEN "no" ELSE crossed
            /\ UNCHANGED <<item, seal>>
       ELSE /\ IF wr[p].upd THEN UNCHANGED <<item, seal>> ELSE item' = {} /\ seal' = {}
            /\ Ends(p, TRUE) /\ UNCHANGED crossed
    /\ UNCHANGED <<kind, begun, seized>>

\* keychain.Delete: the key item, then the sealed one.
DeleteItem(p) ==
    /\ kind = "keychain" /\ wr[p].op = "delete" /\ wr[p].pc = "find"
    /\ item' = {} /\ Goes(p, "unseal")
    /\ UNCHANGED <<seal, told, seized>> /\ UNCHANGED Same

DeleteSeal(p) ==
    /\ wr[p].pc = "unseal"
    /\ seal' = {} /\ Ends(p, FALSE)
    /\ UNCHANGED <<item, seized>> /\ UNCHANGED Same

-----------------------------------------------------------------------------
\* The Secret Service: find gives the first item of those that match.

FindItem(p) ==
    /\ kind = "keyring" /\ wr[p].pc = "find"
    /\ \/ /\ item = {}
          /\ IF wr[p].op = "delete" \/ wr[p].upd THEN Ends(p, TRUE) ELSE Goes(p, "create") /\ UNCHANGED told
       \/ \E i \in item :
            IF wr[p].op # "delete" /\ ~wr[p].upd THEN Ends(p, TRUE)
            ELSE /\ wr' = [wr EXCEPT ![p].id = i.id, ![p].pc = IF wr[p].op = "delete" THEN "drop" ELSE "value"]
                 /\ UNCHANGED told
    /\ UNCHANGED <<item, seal, seized>> /\ UNCHANGED Same

\* CreateItem with replace off: two that found nothing make two items.
CreateItem(p) ==
    /\ wr[p].pc = "create"
    /\ item' = item \cup {[id |-> wr[p].n, key |-> 0, v |-> wr[p].n, by |-> By(p), prov |-> Prov(p)]}
    /\ Ends(p, FALSE)
    /\ UNCHANGED <<seal, seized>> /\ UNCHANGED Same

Mine(p) == {i \in item : i.id = wr[p].id}

\* replace: SetSecret, then the attributes, which hold the provenance.
SetSecret(p) ==
    /\ wr[p].pc = "value"
    /\ IF Mine(p) = {} THEN Ends(p, TRUE) /\ UNCHANGED item
       ELSE /\ item' = (item \ Mine(p)) \cup {[i EXCEPT !.v = wr[p].n, !.by = By(p)] : i \in Mine(p)}
            /\ Goes(p, "attributes") /\ UNCHANGED told
    /\ UNCHANGED <<seal, seized>> /\ UNCHANGED Same

SetAttributes(p) ==
    /\ wr[p].pc = "attributes"
    /\ item' = (item \ Mine(p)) \cup {[i EXCEPT !.prov = Prov(p)] : i \in Mine(p)}
    /\ Ends(p, Mine(p) = {})
    /\ UNCHANGED <<seal, seized>> /\ UNCHANGED Same

Drop(p) ==
    /\ wr[p].pc = "drop"
    /\ item' = item \ Mine(p) /\ Ends(p, FALSE)
    /\ UNCHANGED <<seal, seized>> /\ UNCHANGED Same

SecretNext ==
    \/ \E p \in Writers, op \in {"create", "update"} : WriteSecret(p, op)
    \/ \E p \in Writers, yes \in BOOLEAN : ImportSecrets(p, yes)
    \/ \E p \in Writers : \/ DeleteSecret(p) \/ ImportList(p) \/ ImportCompare(p) \/ Fails(p)
                          \/ KeyFor(p) \/ PutItem(p) \/ PutSealed(p) \/ Undo(p) \/ Verify(p)
                          \/ DeleteItem(p) \/ DeleteSeal(p)
                          \/ FindItem(p) \/ CreateItem(p) \/ SetSecret(p) \/ SetAttributes(p) \/ Drop(p)

-----------------------------------------------------------------------------
\* What the commands said of the secret is so.  When no command is at work and
\* none failed, the secret reads as one value and its provenance is that value's
\* or absent, though two updates landed crosswise: the read-back of one of them
\* failed (keychain_darwin.go:136-206; an overlapping create or delete is excepted,
\* and on a keyring every overlap).  Whatever failed or was killed, the provenance of a
\* newer value is never on an older one, which would keep the warning of a stale
\* credential quiet.  And an import without -y replaced no value that a user
\* supplied (secretimport.go:340-358).
SecretAsTold ==
    /\ Quiet /\ ~told /\ crossed \notin (IF kind = "keychain" THEN {"other"} ELSE {"updates", "other"}) =>
         /\ Cardinality(item) <= 1
         /\ \A r \in Reads : r[1] # "damaged" /\ \A i \in item : i.prov \in {0, r[2]}
    /\ crossed = "no" => \A r \in Reads, i \in item : r[1] = "value" => i.prov <= r[2]
    /\ ~seized
=============================================================================
