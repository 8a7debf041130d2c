---------------------------- MODULE MCRenewCache ----------------------------
(* Instances of RenewCache for TLC. *)
EXTENDS RenewCache, TLC

ProcSymmetry == Permutations(Procs)

(* The documents somebody still has.  One that nobody has is never read,   *)
(* sent or served again, and what became of it does not matter.            *)
kept == {secret, journal.from, journal.doc, head}
    \cup UNION {{e[p].doc, e[p].stored, e[p].from, op[p].stale, jr[p].from, jr[p].doc} :
                 p \in Procs}
View == <<secret, journal, live \cap kept, issued, up, e, pc, op, jr, young, head,
          lost \cap kept, [p \in Procs |-> sent[p] \cap kept],
          [p \in Procs |-> rotated[p] \cap kept]>>

-----------------------------------------------------------------------------
(* Liveness of one process, Last, which runs after any of the others has   *)
(* stopped anywhere.  Only Resolve is called: ForceRenew and Recover make  *)
(* the same walks.                                                         *)
Last == CHOOSE p \in Procs : TRUE

LiveNext ==
    \/ \E p \in Procs : \/ NewCache(p) \/ Crash(p) \/ Resolve(p) \/ Canceled(p)
                         \/ Read(p) \/ Write(p) \/ Renewal(p)
    \/ AgeJournal
LiveSpec == Init /\ [][LiveNext]_vars /\ Fairness(Last)

(* A renewed document held in memory, and a journal left to write or to    *)
(* delete, reach the store (Cache.Pending empties), unless the process     *)
(* ends.                                                                   *)
PendingLands == pendingLocked(e[Last]) ~> (~pendingLocked(e[Last]) \/ ~Running(Last))

(* The journal a stopped process left is settled by the one that runs, and *)
(* does not hold the secret for good (recover, journalLife).               *)
OrphanSettled ==
    (journal.owner \in Procs \ {Last} /\ Running(Last)) ~>
        (journal.owner \notin Procs \ {Last} \/ ~Running(Last))
=============================================================================
