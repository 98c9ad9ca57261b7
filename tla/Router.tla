------------------------------- MODULE Router -------------------------------
(***************************************************************************)
(* The route table of createRestServer (internal/server/rest.go) and the   *)
(* request dispatch of the gorilla/mux router it is registered with (not   *)
(* under src/).                                                            *)
(*                                                                         *)
(* A path is the sequence of its segments ("/" is <<>>); a pattern's       *)
(* variable segment ({name}, {confKey}) is Var and matches any one         *)
(* segment.  mux tries the routes in the order they were registered: the   *)
(* first whose pattern and method match handles the request; a path that   *)
(* some route matches with another method is a 405, any other a 404.      *)
(***************************************************************************)
EXTENDS Sequences, SequencesExt, FiniteSets

\* A variable segment of a route pattern, {name} in rest.go.
Var == "{}"

HttpMethods == {"GET", "POST", "PUT", "DELETE"}

\* One r.HandleFunc(pattern, handler).Methods(...) registration.
Route(p, ms, h) == [pattern |-> p, methods |-> ms, handler |-> h]

RootRoutes == <<
    Route(<<>>, {"GET", "POST"}, "rootHandler"),
    Route(<<"ping">>, {"GET"}, "pingHandler"),
    Route(<<"streams">>, {"GET", "POST"}, "streamsHandler"),
    Route(<<"streams", Var>>, {"GET", "DELETE", "PUT"}, "streamHandler"),
    Route(<<"tables">>, {"GET", "POST"}, "tablesHandler"),
    Route(<<"tables", Var>>, {"GET", "DELETE", "PUT"}, "tableHandler")>>

RuleRoutes == <<
    Route(<<"rules">>, {"GET", "POST"}, "rulesHandler"),
    Route(<<"rules", Var>>, {"DELETE", "GET", "PUT"}, "ruleHandler"),
    Route(<<"rules", Var, "status">>, {"GET"}, "getStatusRuleHandler"),
    Route(<<"rules", Var, "start">>, {"POST"}, "startRuleHandler"),
    Route(<<"rules", Var, "stop">>, {"POST"}, "stopRuleHandler"),
    Route(<<"rules", Var, "restart">>, {"POST"}, "restartRuleHandler"),
    Route(<<"rules", Var, "topo">>, {"GET"}, "getTopoRuleHandler")>>

\* Mutant: a type's {name} route registered before its prebuild route.
PluginRoutesNameFirst == <<
    Route(<<"plugins", "sources">>, {"GET", "POST"}, "sourcesHandler"),
    Route(<<"plugins", "sources", Var>>, {"DELETE", "GET"}, "sourceHandler"),
    Route(<<"plugins", "sources", "prebuild">>, {"GET"}, "prebuildSourcePlugins"),
    Route(<<"plugins", "sinks">>, {"GET", "POST"}, "sinksHandler"),
    Route(<<"plugins", "sinks", "prebuild">>, {"GET"}, "prebuildSinkPlugins"),
    Route(<<"plugins", "sinks", Var>>, {"DELETE", "GET"}, "sinkHandler"),
    Route(<<"plugins", "functions">>, {"GET", "POST"}, "functionsHandler"),
    Route(<<"plugins", "functions", "prebuild">>, {"GET"}, "prebuildFuncsPlugins"),
    Route(<<"plugins", "functions", Var>>, {"DELETE", "GET"}, "functionHandler"),
    Route(<<"plugins", "functions", Var, "register">>, {"POST"}, "functionRegisterHandler"),
    Route(<<"plugins", "udfs">>, {"GET"}, "functionsListHandler"),
    Route(<<"plugins", "udfs", Var>>, {"GET"}, "functionsGetHandler")>>

PluginRoutes == <<
    Route(<<"plugins", "sources">>, {"GET", "POST"}, "sourcesHandler"),
    Route(<<"plugins", "sources", "prebuild">>, {"GET"}, "prebuildSourcePlugins"),
    Route(<<"plugins", "sources", Var>>, {"DELETE", "GET"}, "sourceHandler"),
    Route(<<"plugins", "sinks">>, {"GET", "POST"}, "sinksHandler"),
    Route(<<"plugins", "sinks", "prebuild">>, {"GET"}, "prebuildSinkPlugins"),
    Route(<<"plugins", "sinks", Var>>, {"DELETE", "GET"}, "sinkHandler"),
    Route(<<"plugins", "functions">>, {"GET", "POST"}, "functionsHandler"),
    Route(<<"plugins", "functions", "prebuild">>, {"GET"}, "prebuildFuncsPlugins"),
    Route(<<"plugins", "functions", Var>>, {"DELETE", "GET"}, "functionHandler"),
    Route(<<"plugins", "functions", Var, "register">>, {"POST"}, "functionRegisterHandler"),
    Route(<<"plugins", "udfs">>, {"GET"}, "functionsListHandler"),
    Route(<<"plugins", "udfs", Var>>, {"GET"}, "functionsGetHandler")>>

MetaRoutes == <<
    Route(<<"metadata", "functions">>, {"GET"}, "functionsMetaHandler"),
    Route(<<"metadata", "sinks">>, {"GET"}, "sinksMetaHandler"),
    Route(<<"metadata", "sinks", Var>>, {"GET"}, "newSinkMetaHandler"),
    Route(<<"metadata", "sources">>, {"GET"}, "sourcesMetaHandler"),
    Route(<<"metadata", "sources", "yaml", Var>>, {"GET"}, "sourceConfHandler"),
    Route(<<"metadata", "sources", Var>>, {"GET"}, "sourceMetaHandler"),
    Route(<<"metadata", "sources", Var, "confKeys">>, {"GET"}, "sourceConfKeysHandler"),
    Route(<<"metadata", "sources", Var, "confKeys", Var>>, {"DELETE", "POST"},
          "sourceConfKeyHandler"),
    Route(<<"metadata", "sources", Var, "confKeys", Var, "field">>, {"DELETE", "POST"},
          "sourceConfKeyFieldsHandler")>>

ServiceRoutes == <<
    Route(<<"services">>, {"GET", "POST"}, "servicesHandler"),
    Route(<<"services", "functions">>, {"GET"}, "serviceFunctionsHandler"),
    Route(<<"services", "functions", Var>>, {"GET"}, "serviceFunctionHandler"),
    Route(<<"services", Var>>, {"DELETE", "GET", "PUT"}, "serviceHandler")>>

\* The router, in registration order.
Routes == RootRoutes \o RuleRoutes \o PluginRoutes \o MetaRoutes \o ServiceRoutes

(***************************************************************************)
(* gorilla/mux dispatch (not under src/)                                   *)
(***************************************************************************)
PathMatches(pattern, path) ==
    /\ Len(pattern) = Len(path)
    /\ \A k \in 1..Len(path) : pattern[k] \in {Var, path[k]}

\* Router.Match: the first route matching path and method; a route that
\* matches only the path makes the answer 405 unless a later one matches
\* both.
Match(path, m) ==
    LET k == SelectInSeq(Routes, LAMBDA r : PathMatches(r.pattern, path)
                                           /\ m \in r.methods)
    IN  IF k # 0 THEN Routes[k].handler
        ELSE IF \E r \in Range(Routes) : PathMatches(r.pattern, path)
             THEN "405" ELSE "404"

-----------------------------------------------------------------------------
\* The requests checked: every registered pattern with each variable
\* segment given any literal segment of the table or an ordinary name.
Literals == UNION {{r.pattern[k] : k \in DOMAIN r.pattern} : r \in Range(Routes)} \ {Var}
Segments == Literals \cup {"x"}
Paths ==
    UNION {LET vars == {k \in DOMAIN r.pattern : r.pattern[k] = Var} IN
           {[k \in DOMAIN r.pattern |-> IF k \in vars THEN f[k] ELSE r.pattern[k]]
             : f \in [vars -> Segments]} : r \in Range(Routes)}

\* Pattern p is more specific than q: at the first position where one has
\* a variable and the other does not, p has the literal.
MoreSpecific(p, q) ==
    \E k \in 1..Len(p) :
        /\ p[k] # Var /\ q[k] = Var
        /\ \A j \in 1..k-1 : (p[j] = Var) = (q[j] = Var)

\* The dispatch the table is written for: the most specific route that
\* matches path and method.
MostSpecific(path, m) ==
    LET hits == {r \in Range(Routes) : PathMatches(r.pattern, path) /\ m \in r.methods}
    IN  IF hits # {}
        THEN (CHOOSE r \in hits : \A q \in hits : ~MoreSpecific(q.pattern, r.pattern)).handler
        ELSE IF \E r \in Range(Routes) : PathMatches(r.pattern, path)
             THEN "405" ELSE "404"

\* Every request on the table's paths reaches the handler of the most
\* specific route for its path and method: registration order never lets
\* a {name} route swallow a fixed path (prebuild, functions, yaml), and a
\* method one route lacks still reaches a later route that has it (DELETE
\* /services/functions deletes the service "functions").
TableResolves ==
    \A path \in Paths, m \in HttpMethods : Match(path, m) = MostSpecific(path, m)
=============================================================================
