CONSTANTS
    h1 = h1
    h2 = h2
    p1 = p1
    p2 = p2
    amd64 = amd64
    arm64 = arm64
    Hosts = {h1, h2}
    Names = {p1, p2}
    Archs = {amd64, arm64}
    Arch = amd64
    MaxHosts = 2
    MaxTags = 2
SPECIFICATION Spec

INVARIANT OkCarriesList
CHECK_DEADLOCK FALSE
