---------------------------- MODULE MCVendCache ----------------------------
(* Instances of VendCache for TLC. *)
EXTENDS VendCache, TLC

Symmetry ==
    Permutations(Ids) \cup Permutations(Ptrs) \cup Permutations(Callers)
        \cup Permutations(Entries)

\* The keys of an object nothing refers to are never read again,
\* and those of an object a fetch runs for are replaced first.
heldInView(e) == IF unused(e) \/ flight[e] # None THEN NoKeys ELSE held[e]

\* Whether the keys of an awaited flight are live is read by nothing.
callInView(c) ==
    IF call[c].seen # None THEN [call[c] EXCEPT !.res.live = TRUE] ELSE call[c]

View == <<secretPtr, registered, entries, flight, failing, pc, raced,
          [c \in Callers |-> callInView(c)], [e \in Entries |-> heldInView(e)]>>
=============================================================================
