\* One client: the handlers' sequential contract.
CONSTANTS
    c1 = c1
    c2 = c2
    r1 = r1
    r2 = r2
    Clients = {c1}
    Rules = {r1, r2}
    MaxRequests = 6
SPECIFICATION Spec
INVARIANT TypeOK
INVARIANT RegistryMatchesStore
PROPERTY LifecycleRefined
CHECK_DEADLOCK FALSE
