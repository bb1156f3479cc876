\* Two agents and other programs, all at once.
CONSTANTS
    a1 = a1
    a2 = a2
    Agent = {a1, a2}
    MaxVersions = 3
SPECIFICATION Spec
SYMMETRY Agents
INVARIANTS
    AppliedToSeen
    EditsRegistered
\* The file may have had all the contents the bound allows.
CHECK_DEADLOCK FALSE
