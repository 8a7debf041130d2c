SPECIFICATION Spec
INVARIANTS TableSound RunningFiltered ResolverJudges RunFiltered
\* A resolver that failed to start or was killed ends the table's behaviour.
CHECK_DEADLOCK FALSE
SYMMETRY MCSymmetry
CONSTANTS
Addrs = {a1, a2}
Queries = {"q"}
Policies <- MCPolicies
PinTTL = 2
PinGrace = 0
Retention = 1
HeartbeatLapse = 1
Brigs = {b1, b2}
HostNames = {"d", "x", "y"}
MaxRecords = 3
Users = {u1, u2}
PNames = {1, 2}
Inline = {2}
Documents <- MCDocs
