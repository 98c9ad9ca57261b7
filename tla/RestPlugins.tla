---------------------------- MODULE RestPlugins ----------------------------
(***************************************************************************)
(* The plugin endpoints of internal/server/rest.go served concurrently,    *)
(* over the native plugin manager (internal/plugin/native, of which only   *)
(* manager_test.go is in the repository).                                  *)
(*                                                                         *)
(*   plugins[t]  the installed plugins of type t                           *)
(*   owner[s]    the function plugin that exports symbol s, or NoPlugin    *)
(*   pc, local   per client: the step of functionRegisterHandler and the   *)
(*               plugin name and function list it holds                    *)
(*                                                                         *)
(* Every manager call is one atomic step.  Function symbols and plugin     *)
(* names share one namespace: a function plugin registered without a list *)
(* exports the symbol of its own name.  Register stores a list in order,   *)
(* so its lists are sequences without repeats of at most MaxFuncs symbols. *)
(* Delete is immediate: rest.go:469 tells the client a restart is needed,  *)
(* which the model does not distinguish.                                   *)
(***************************************************************************)
EXTENDS Integers, FiniteSets, SequencesExt

CONSTANTS
    Clients,      \* concurrent HTTP clients
    Names,        \* plugin names, and the function symbols
    Types,        \* the plugin types served
    FUNCTION,     \* the function plugin type, a member of Types
    NoPlugin,     \* owner of a symbol no plugin exports
    MaxRequests,  \* requests served in one behaviour
    MaxFuncs      \* length of a function list given to Register

ASSUME FUNCTION \in Types /\ NoPlugin \notin Names

VARIABLES plugins, owner, pc, local, served

pvars == <<plugins, owner, pc, local, served>>

Init ==
    /\ plugins = [t \in Types |-> {}]
    /\ owner = [s \in Names |-> NoPlugin]
    /\ pc = [c \in Clients |-> "idle"]
    /\ local = [c \in Clients |-> [name |-> CHOOSE n \in Names : TRUE, funcs |-> {}]]
    /\ served = 0

(***************************************************************************)
(* Native plugin manager (not under src/; from manager_test.go)            *)
(***************************************************************************)
\* The function lists a request may carry.
FuncLists == {l \in BoundedSeq(Names, MaxFuncs) : IsInjective(l)}

\* Register: a duplicate name ("invalid name echo2: duplicate") or a failed
\* install is an error that leaves everything as it was.  A function
\* plugin's list, or its name, is stored symbol by symbol; the first
\* symbol already exported ("function name echo3 already exists") ends it
\* with an error, the plugin not installed and the symbols stored before
\* it kept (misc in TestManager_Register and TestManager_Symbols).
Register(t, n, fs, installed) ==
    LET syms     == IF fs = <<>> THEN <<n>> ELSE fs
        conflict == SelectInSeq(syms, LAMBDA s : owner[s] # NoPlugin)
        stored   == IF conflict = 0 THEN Range(syms)
                    ELSE Range(SubSeq(syms, 1, conflict - 1))
    IN  IF n \in plugins[t] \/ ~installed
        THEN UNCHANGED <<plugins, owner>>
        ELSE /\ plugins' = IF t = FUNCTION /\ conflict # 0 THEN plugins
                           ELSE [plugins EXCEPT ![t] = @ \cup {n}]
             /\ owner' = IF t = FUNCTION
                         THEN [s \in Names |-> IF s \in stored THEN n ELSE owner[s]]
                         ELSE owner

\* Delete: an installed plugin is removed, with the symbols it exports.
Delete(t, n) ==
    /\ n \in plugins[t]
    /\ plugins' = [plugins EXCEPT ![t] = @ \ {n}]
    /\ owner' = IF t = FUNCTION
                THEN [s \in Names |-> IF owner[s] = n THEN NoPlugin ELSE owner[s]]
                ELSE owner

\* RegisterFuncs: the plugin's symbols become the list.  An empty list, or
\* a symbol another plugin exports, is an error.  The call itself does not
\* look the plugin up: functionRegisterHandler checks it first.
RegisterFuncs(n, fs) ==
    IF fs = {} \/ \E s \in fs : owner[s] \notin {NoPlugin, n}
    THEN UNCHANGED owner
    ELSE owner' = [s \in Names |-> IF s \in fs THEN n
                                   ELSE IF owner[s] = n THEN NoPlugin ELSE owner[s]]

(***************************************************************************)
(* The handlers                                                            *)
(***************************************************************************)
\* POST /plugins/{type} (pluginsHandler): the decoded plugin is registered.
PostPlugin(t, n) ==
    \E fs \in FuncLists, installed \in BOOLEAN :
        Register(t, n, IF t = FUNCTION THEN fs ELSE <<>>, installed)

\* DELETE /plugins/{type}/{name} (pluginHandler): an unknown name is an
\* error that leaves the manager as it was.
DeletePlugin(t, n) ==
    \/ Delete(t, n)
    \/ n \notin plugins[t] /\ UNCHANGED <<plugins, owner>>

\* POST /plugins/functions/{name}/register (functionRegisterHandler), first
\* step: GetPluginInfo answers 404 for an unknown function plugin;
\* otherwise the list is decoded and held for the next call.
RegisterCheck(c, n) ==
    \/ /\ n \in plugins[FUNCTION]
       /\ \E fs \in SUBSET Names :
            local' = [local EXCEPT ![c] = [name |-> n, funcs |-> fs]]
       /\ pc' = [pc EXCEPT ![c] = "register.funcs"]
    \/ /\ n \notin plugins[FUNCTION]
       /\ UNCHANGED <<pc, local>>

\* A client sends a request and its handler's first call runs with it.
Request(c) ==
    /\ pc[c] = "idle"
    /\ served < MaxRequests
    /\ served' = served + 1
    /\ \E t \in Types, n \in Names :
        \/ PostPlugin(t, n) /\ UNCHANGED <<pc, local>>
        \/ DeletePlugin(t, n) /\ UNCHANGED <<pc, local>>
        \/ t = FUNCTION /\ RegisterCheck(c, n) /\ UNCHANGED <<plugins, owner>>

\* functionRegisterHandler, after the check: RegisterFuncs(name, list).
RegisterStep(c) ==
    /\ pc[c] = "register.funcs"
    /\ RegisterFuncs(local[c].name, local[c].funcs)
    /\ pc' = [pc EXCEPT ![c] = "idle"]
    /\ UNCHANGED <<plugins, local, served>>

Next == \E c \in Clients : Request(c) \/ RegisterStep(c)

Spec == Init /\ [][Next]_pvars

-----------------------------------------------------------------------------
\* Every exported function symbol belongs to an installed function plugin:
\* GET /plugins/udfs/{name} (GetPluginBySymbol) never names a plugin that
\* was deleted or never installed, whatever order Register, Delete and the
\* function-list registration run in.  TestManager_Symbols expects the owner
\* of echo3 to be echo2, an installed plugin.
SymbolsOwnedByPlugins ==
    \A s \in Names : owner[s] # NoPlugin => owner[s] \in plugins[FUNCTION]
=============================================================================
