------------------------------- MODULE MCHost -------------------------------
(* The host side: brigd with its clients (Brigd), and, in behaviours of their *)
(* own, the commands on one sandbox that it runs (SandboxRun).                *)
EXTENDS Brigd, SandboxRun

VARIABLE side  \* which of the two runs
hostVars == <<side, brigdVars, runVars>>

\* Two publications of one host port: one takes the place of the other.
MCPorts == {[host |-> 1, guest |-> 1], [host |-> 1, guest |-> 2]}

Init == side \in {"daemon", "commands"} /\ BrigdInit /\ RunInit

Next ==
    \/ side = "daemon" /\ BrigdNext /\ UNCHANGED <<side, runVars>>
    \/ side = "commands" /\ RunNext /\ UNCHANGED <<side, brigdVars>>

Spec == Init /\ [][Next]_hostVars
=============================================================================
