------------------------- MODULE MCBrokerLifecycle -------------------------
(* Instances of BrokerLifecycle for TLC. *)
EXTENDS BrokerLifecycle, TLC

\* Nothing but crashes of brokers, and everything.
MCEnvs == {{}, {"signals", "handStarts", "interrupts"}}

CalmEnvs == {{}}

Symmetry ==
    Permutations(Brokers) \cup Permutations(Clients) \cup Permutations(Ids)
=============================================================================
