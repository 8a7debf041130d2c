--------------------------- MODULE SandboxService ---------------------------
(***************************************************************************)
(* What brigd promises of the sandboxes that it is asked for: one owner of *)
(* the boot and the teardown of each at any moment (cmd/brigd/main.go,     *)
(* lockFor), and an inventory that changes only by that owner's hand.      *)
(***************************************************************************)
CONSTANTS VMs, Requests

VARIABLES
    running,  \* the sandboxes that run
    busy,     \* which request boots or stops which sandbox
    stock     \* the inventory of the daemon that serves

serviceVars == <<running, busy, stock>>

ServiceInit == running = {} /\ busy = {} /\ stock = {}

Owned(v) == \E r \in Requests : <<r, v>> \in busy

\* A request becomes the one owner of v, and gives it up.
Enter(r, v) == ~Owned(v) /\ busy' = busy \cup {<<r, v>>} /\ UNCHANGED <<running, stock>>
Leave(r, v) == <<r, v>> \in busy /\ busy' = busy \ {<<r, v>>} /\ UNCHANGED <<running, stock>>

\* The owner of v boots it or stops it, and says so in the inventory.
Boots(v) == Owned(v) /\ running' = running \cup {v} /\ UNCHANGED <<busy, stock>>
Halts(v) == Owned(v) /\ running' = running \ {v} /\ UNCHANGED <<busy, stock>>
Records(v) ==
    /\ Owned(v)
    /\ stock' \in {stock \cup {v}, stock \ {v}}
    /\ UNCHANGED <<running, busy>>

\* A guest that ends, a boot that a daemon left behind, another brig.
Outside(v) == running' \in {running \cup {v}, running \ {v}} /\ UNCHANGED <<busy, stock>>

\* A daemon ends, with what it was doing and what it knew.
Restarts == busy' = {} /\ stock' = {} /\ UNCHANGED running

ServiceNext ==
    \/ \E v \in VMs, r \in Requests : Enter(r, v) \/ Leave(r, v)
    \/ \E v \in VMs : Boots(v) \/ Halts(v) \/ Records(v) \/ Outside(v)
    \/ Restarts

Service == ServiceInit /\ [][ServiceNext]_serviceVars
=============================================================================
