SPECIFICATION Spec
INVARIANTS SocketNamesServer HomeKept ReuseFits
PROPERTY OneOwner
CONSTANTS
Daemons = {d1, d2}
Conns = {c1, c2}
VMs = {v1}
Projects = {p1}
Ports <- MCPorts
