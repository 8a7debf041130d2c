------------------------------ MODULE MCEgress ------------------------------
(* The egress filter: the resolver process and its table (EgressTable), and, *)
(* in behaviours of their own, the boots and stops around it (EgressBoot),   *)
(* one answer of the resolver (DnsAnswer) and the policies it is given       *)
(* (PolicyStore).                                                            *)
EXTENDS EgressTable, EgressBoot, DnsAnswer, PolicyStore, TLC

VARIABLE side  \* the module that this behaviour is about

Policy(default, allow, deny, literal, max) ==
    [default |-> default, allow |-> allow, deny |-> deny, literal |-> literal, max |-> max]
MCPolicies == {Policy("allow", {}, {"n"}, {"n"}, 2), Policy("allow", {}, {"n"}, {}, 1),
               Policy("deny", {"n", "d"}, {}, {"n"}, 2), Policy("none", {}, {}, {}, 2)}

\* Two names; a document that denies, one that allows but for a host, one without
\* egress, one that allows all.
Doc(n, def, deny) == [name |-> n, def |-> def, deny |-> deny]
MCDocs == {Doc(1, "deny", {}), Doc(1, "allow", {"h"}), Doc(2, "none", {}), Doc(2, "allow", {})}

MCSymmetry == Permutations(Addrs) \cup Permutations(Users)

Init ==
    /\ side \in {"table", "boots", "names", "policies"}
    /\ EgressInit /\ BootInit /\ DnsInit /\ PolicyInit
    /\ side # "table" => pol = Policy("none", {}, {}, {}, 2)

Next ==
    \/ side = "table" /\ EgressNext /\ UNCHANGED <<side, bootVars, dns, policyVars>>
    \/ side = "boots" /\ BootNext /\ UNCHANGED <<side, egressVars, dns, policyVars>>
    \/ side = "names" /\ DnsTry /\ UNCHANGED <<side, egressVars, bootVars, policyVars>>
    \/ side = "policies" /\ PolicyNext /\ UNCHANGED <<side, egressVars, bootVars, dns>>

Spec == Init /\ [][Next]_<<side, egressVars, bootVars, dns, policyVars>>
=============================================================================
