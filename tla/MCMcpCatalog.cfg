SPECIFICATION Spec
CONSTANTS
    c1 = c1
    c2 = c2
    c3 = c3
    Callers = {c1, c2, c3}
    Servers = {"files"}
    Settings <- MCSettings
    Tools = {"read"}
    MaxClients = 3
    MaxChanges = 1
SYMMETRY Symmetry
INVARIANTS
    OneClientPerServer
    HandshakeComesFirst
