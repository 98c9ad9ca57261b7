\* One client: a function plugin whose list clashes with an exported symbol.
CONSTANTS
    c1 = c1
    c2 = c2
    SRC = SRC
    SNK = SNK
    FUNC = FUNC
    none = none
    Clients = {c1}
    Names = {"mqtt", "file2", "echo"}
    Types = {SRC, SNK, FUNC}
    SOURCE = SRC
    SINK = SNK
    FUNCTION = FUNC
    NoPlugin = none
    MaxRequests = 4
    MaxFuncs = 2
SPECIFICATION Spec
INVARIANT SymbolsOwnedByPlugins
CHECK_DEADLOCK FALSE
