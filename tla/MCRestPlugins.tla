--------------------------- MODULE MCRestPlugins ---------------------------
EXTENDS Binder, Router

CONSTANTS c1, c2, SRC, SNK, FUNC, none

\* The path segment of each plugin type in the plugin routes.
TypeSegment == (SRC :> "sources") @@ (SNK :> "sinks") @@ (FUNC :> "functions")

\* The requests on an installed plugin: GET and DELETE /plugins/{type}/{name}
\* and, for a function plugin, POST /plugins/functions/{name}/register.
PluginRequests ==
    UNION {{[path |-> <<"plugins", TypeSegment[t], n>>, method |-> m]
             : n \in plugins[t], m \in {"GET", "DELETE"}} : t \in Types}
    \cup {[path |-> <<"plugins", "functions", n, "register">>, method |-> "POST"]
          : n \in plugins[FUNC]}

\* Every request, on any path of the route table and on the plugins
\* installed in this state (whose names may be a fixed segment such as
\* prebuild), reaches the handler of the most specific route.
RouteResolution ==
    /\ TableResolves
    /\ \A q \in PluginRequests : Match(q.path, q.method) = MostSpecific(q.path, q.method)
=============================================================================
