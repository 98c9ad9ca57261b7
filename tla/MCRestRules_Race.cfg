\* Two clients on one rule: requests interleaving between the handlers' calls.
CONSTANTS
    c1 = c1
    c2 = c2
    r1 = r1
    r2 = r2
    Clients = {c1, c2}
    Rules = {r1}
    MaxRequests = 4
SPECIFICATION Spec
INVARIANT RegistryMatchesStore
CHECK_DEADLOCK FALSE
