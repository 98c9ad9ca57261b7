CONSTANTS
    c1 = c1
    c2 = c2
    SRC = SRC
    SNK = SNK
    FUNC = FUNC
    none = none
    Clients = {c1}
    Names = {"mqtt", "prebuild", "echo"}
    Types = {SRC, SNK, FUNC}
    SOURCE = SRC
    SINK = SNK
    FUNCTION = FUNC
    NoPlugin = none
    MaxRequests = 5
    MaxFuncs = 1
SPECIFICATION Spec
INVARIANT RouteResolution
CHECK_DEADLOCK FALSE
