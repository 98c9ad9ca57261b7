# TLA+ models of the eKuiper sources in this repository

These modules model the parts of the streaming SQL engine whose source is in
`src/`, and they are checked with TLC. The repository holds seven Go files:

| file | what it is |
|---|---|
| `internal/binder/function/funcs_agg.go` | the aggregate function library (`aggCall` and its helpers) |
| `internal/server/rest.go` | the HTTP control plane: rule, stream, table, plugin, metadata and service endpoints |
| `internal/binder/factory.go`, `internal/binder/io/builtin.go` | factory interfaces and the built-in source and sink tables |
| `internal/xsql/parser_test.go`, `internal/topo/operator/misc_func_test.go`, `internal/plugin/native/manager_test.go` | tests of the parser, the scalar functions and the native plugin manager (their code is not here) |

## Inventory

### Components, their state and their operations

**Aggregate function library** (`funcs_agg.go`). It keeps no state.
`aggCall(name, args)` gets, for each argument slot, the list of values that
argument took over the tuples of a group. It returns `(value, true)` or
`(error, false)`.
* `avg`, `sum`, `max` and `min` choose a branch from the first non-nil
  element. The branch can be int/int64, float64 or (for max and min) string.
  A helper loop (`sliceIntTotal` and the others) then walks the list. Nil is
  skipped, and any other element of the wrong type fails the call.
* `count` counts the non-nil elements. `collect` returns the list.
* `deduplicate(r, col, all)` keys each `col` value on its `%v` text.
* Hard parts: dynamic types, Go's wrapping `int`, integer division, and key
  collisions under `%v`. A unit test rarely reaches these.

**REST rule endpoints** (`rest.go`, `rulesHandler`, `ruleHandler`,
`start/stop/restartRuleHandler`). net/http serves every request on its own
goroutine. The handlers keep no state of their own. Each one calls two
collaborators that are not under `src/`:
* the **rule processor**: the persisted rule definitions (`ExecCreate`,
  `ExecDrop`, `ExecUpdate`, `GetRuleByName`);
* the **rule manager**: the registry of rule states and their topologies
  (`createRuleState`, `doStartRule`, `deleteRule`, `startRule`, `stopRule`,
  `restartRule`).

POST /rules makes three calls. DELETE makes two, and PUT makes three. No lock
is held between the calls. Requests for the same rule can therefore
interleave between them. This is the concurrency hazard of the code.

**Plugin endpoints** (`pluginsHandler`, `pluginHandler`,
`functionRegisterHandler`, `prebuildPluginsHandler`). They call the native
plugin manager, which is not under `src/`; only `manager_test.go` is.
* POST and DELETE make one manager call each.
* `functionRegisterHandler` makes two calls with no lock between them:
  `GetPluginInfo` to check that the plugin exists, then `RegisterFuncs`.
* `prebuildPluginsHandler` checks the environment. `fetchPluginList` then
  reads the HTML index of every configured host in turn and merges their
  lists, and the first host wins. One failing host fails the whole request.

**Metadata endpoints.** Only `sourceConfKeyHandler` and
`sourceConfKeyFieldsHandler` change state. Each makes one call into the
metadata store.

**Stream, table and service endpoints.** Each makes one collaborator call
and answers its result, so there is no handler-level interleaving.

**Router** (`createRestServer`). The route table is registered once at
startup, and gorilla/mux dispatches each request to the first route that
matches it. Fixed segments (`prebuild`, `functions`, `yaml`) sit beside
`{name}` variables, so the registration order decides which handler a
request reaches.

**Factories** (`factory.go`, `builtin.go`). The built-in tables never
change. An unknown name gives `(nil, nil)`, so the binder goes on to the
native plugin manager, whose contents the plugin endpoints change.

**Parser, evaluator and plugin manager.** Only their tests are in this
repository. The spec describes them, but their source is absent.

### Properties that make each component correct

* **Aggregates.** `min ≤ avg ≤ max` over the same group. A mixed-type group
  never succeeds. `min`/`max` bound every non-nil element. `deduplicate`
  returns the first occurrence of each key (spec 4.5). `deduplicate(r, r,
  true)` returns the distinct elements (spec 8).
* **Rule endpoints.** When no request is in flight, every running topology
  is the one the registry holds for its rule. It also runs that rule's
  current definition: nothing runs unreachable, deleted or stale.
* **Plugin endpoints.** Every exported function symbol belongs to an
  installed function plugin. A 200 prebuild list was built from every
  host, first host winning.
* **Router.** Every request reaches the most specific route that serves
  its method.
* **Configuration endpoints.** A 200 means the store made the change.

## Modules

### `AggFuncs` (funcs_agg.go)

This module has no variables. It defines one operator per Go function or
`aggCall` case, and each keeps the Go name (`getCount`, `getFirstValidArg`,
`sliceIntTotal` … `sliceStringMin`, `dedup`, `aggCall`). A dynamic value is a
record `[t, v, d]`:
* `t` is the Go dynamic type.
* `v` is an integer payload. For a string it is the string's rank in the
  sorted constant `StrOrder`, and for a bool it is 0 or 1.
* `d` is a denominator. It is 1 except for the float quotient that `avg`
  returns.

The model keeps these Go semantics:
* `int` wraps at `IntWidth` bits (`GoInt`).
* Division truncates toward zero (`GoQuo`).
* The `%v` key prints an integral float like an int (`Key`).

The `slice*` loops are written as what they compute. They fail if any
non-nil element has another type, and otherwise return the total or the
extreme. `sliceStringMin` keeps the larger string, as its `min < vs` test
does. `dedup` is written as the code's single pass with a keyset, so that it
can be compared against the declarative statement of spec 4.5.

### `AggWindow` (the group the runtime hands to aggCall)

`group` is the list `args[0]`. `Collect` appends the argument value of an
arriving tuple, and `Fire` emits the window and drops the group. The runtime
code that does this is not in the repository; it is modelled from spec 3.4
and 5, which say groups are ordered and dropped after projection.
Deduplicate's row argument is `Rows`, which holds each tuple's position.
Its `all` argument is `AllCol(b)`, a literal repeated over the group.

### `RestRules` (rest.go rule endpoints, concurrent clients)

The model's variables:
* `store[r]` is the version of rule r's persisted definition (0 means none).
* `registry[r]` is the rule state, given as the index of its topology.
* `topos` lists every topology that has been planned, with its rule, its
  definition version and its status: planned, running, stopped or failed.
* `pc[c]` and `local[c]` hold client c's position in its handler and what
  the handler holds: the rule id, the `*api.Rule` version and the
  `*RuleState`.

`Request(c)` is a client sending a request; the handler's first call runs at
the same time. The first calls are:
* `CreateExec` for POST;
* `DeleteRule` for DELETE;
* `UpdateGet` for PUT;
* a single manager call for start, stop and restart.

The later calls are each an action of their own: `CreateState`,
`CreateStart`, `DeleteDrop`, `UpdateExec` and `UpdateRestart`. Each action
has the guard and early return of the handler line it models.

The collaborator operations `StoppedTopos`, `startRule` and `Restarted` are
spec-modelled (see below). Each call is one atomic step.

Planning can fail at every `createRuleState`, `startRule` and
`restartRule` (the `ok` choice). A failed plan registers a rule state whose
topology is `"failed"`. POST then answers 201 with the error, and PUT answers
an error even though the new definition is stored.

**Refinement.** `RuleLifecycle` is the abstract promise. For each rule it
holds `defined`, the stored version, and `running`, the version its
topology runs. Its actions:
* `Define` stores a fresh version.
* `Drop` removes a definition, but only when nothing runs it.
* `Run` starts the current definition.
* `Halt` stops the rule.

`RestRules` maps `defined` to `store` and `running` to the version of the
registered running topology (`RunningVersion`). `LifecycleRefined` checks
`Lifecycle!Spec` as a property.

### `FetchPlugins` (prebuild plugin listing)

This module is one request, checked over every environment (MAINTAINER,
GOOS, /etc/os-release), every PluginHosts list of up to two hosts, and
every index page of up to two start tags.
* `Prebuild` is the handler up to the loop.
* `FetchHost` is one iteration of the loop. Either the host fails (GET
  error, non-200 status, or read error), or it returns a page.
  `client.Get` is one step; its timeout is one more way for it to fail.
* `Respond` is `jsonResponse`.

`extractFromHtml` and `mergeListing` are the Go loops, written as folds.
`FirstMerge` is the declarative reference that the answer is checked
against. An href is an abstract `(name, arch)` pair. Since no Go
architecture contains "_", the suffix test and `LastIndex("_")` reduce to
comparing the arch.

### `RestPlugins` (plugin endpoints, concurrent clients)

The model's variables:
* `plugins[t]` is the set of installed plugins of type t.
* `owner[s]` is the plugin that exports function symbol s.

The manager operations `Register`, `Delete` and `RegisterFuncs` are
spec-modelled from what `manager_test.go` expects:
* a duplicate name is an error ("invalid name echo2: duplicate");
* a plugin without a list exports its own name;
* a function list is stored symbol by symbol, in order. The first symbol
  that is already exported ends it with "function name echo3 already
  exists". The plugin is not installed (`TestManager_List` has no `misc`),
  and the symbols stored before the clash are kept (`TestManager_Symbols`
  has `misc`). Lists are sequences without repeats of at most `MaxFuncs`
  symbols;
* symbols map to their plugin.

`Delete` takes effect at once. rest.go:469 answers "Kuiper must restart
for the change to take effect", but the manager's state is not in the
repository. The model does not tell a deleted plugin that is still loaded
from a plugin that is gone.

`RegisterFuncs` replaces a plugin's symbols and refuses an empty list. It is
assumed not to look the plugin up itself, because the handler does that
check. The handlers are `PostPlugin`, `DeletePlugin`, `RegisterCheck` and
`RegisterStep`. The last one is the second call of
`functionRegisterHandler`, and it runs as a step of its own.

`SymbolsOwnedByPlugins` says that every exported symbol belongs to an
installed function plugin. Two runs break it in different ways. In
`plugins_failed_register`, one failed POST is enough. In `plugins_race`,
lists have one symbol, so a failed Register stores nothing, and the
violation needs two clients.

### `Binder` (source and sink lookup, composed with `RestPlugins`)

`Binder` EXTENDS `RestPlugins`, and `MCRestPlugins` EXTENDS `Binder`. It
adds no variables. No run states a property of it: the lookups are
stateless functions of the installed plugins.
* `sources`, `sinks`, `BuiltinSource` and `BuiltinSink` translate
  `builtin.go`.
* `Res` is the `(instance, error)` pair of the `SourceFactory` and
  `SinkFactory` interfaces.
* `NativeLookup` (the plugin manager as a factory) and `Chain` (the
  binder asking its factories in order, first instance wins, errors
  OR-ed) are spec-modelled, because that code is not under `src/`.

A plugin installed under a built-in name, such as `mqtt`, is shadowed by
the built-in one.

### `MetaConf` (source configuration endpoints)

`conf[k]` is whether configuration key k exists, and its fields. `resp` is
the last answer. The two handlers are translated case by case, including
the body-read error and the "nothing written means 200" ending. In the POST
case of `sourceConfKeyHandler`, the store's error goes to a shadowed `err`.

### `Router` (route table of `createRestServer`)

* `RootRoutes`, `RuleRoutes`, `PluginRoutes`, `MetaRoutes` and
  `ServiceRoutes` translate the `r.HandleFunc(...).Methods(...)` lines in
  registration order. `Routes` concatenates them.
* A path is its sequence of segments, and a variable segment is `Var`.
* `Match` is gorilla/mux's dispatch, spec-modelled because mux is not
  under `src/`. It takes the first route whose path and method match. A
  path that only matches with another method gets a 405. Any other path
  gets a 404.
* `MostSpecific` is the reference dispatch: at the first position where
  one route has a literal and the other a variable, the literal wins.

`TableResolves` compares `Match` with `MostSpecific` on every path of the
table, with each variable filled by any literal segment or an ordinary
name. `MCRestPlugins` adds the GET, DELETE and register requests for the
plugins installed in each state, as `RouteResolution`. The plugin name
`prebuild` is in that run, so the shadowed case happens: GET
/plugins/sources/prebuild reaches the prebuild listing, never the plugin.

### Fairness

No module assumes fairness. Clients may stop sending, and every property
checked is a safety property: an invariant, or the refinement of
`RuleLifecycle`, whose specification has no fairness either.

## Runs

| run | cfg | expect | what it shows |
|---|---|---|---|
| agg | `MCAggWindow.cfg` | pass | every group of ≤3 values drawn from 13 (nil, int and int64 in {-1,1,2}, float in {1,2}, strings "1" and "b", both bools): avg between min and max, no aggregate succeeds on mixed types, deduplicate matches spec 4.5 (2380 states) |
| agg_string_min | `MCAggWindow_MinIsLowerBound.cfg` | violation | `min("1","b")` returns "b" |
| agg_overflow | `MCAggWindow_Overflow.cfg` | violation | with a 3-bit int, avg(2,2) = -2 |
| rest_sequential | `MCRestRules.cfg` | pass | one client, two rules, any 6 requests, planning may fail at every start (94,519 states). Running topologies are exactly the registered ones and run the current definition. The handlers refine `RuleLifecycle` |
| rest_race | `MCRestRules_Race.cfg` | violation | two clients, one rule: POST /rules interleaved with a restart leaves one unregistered topology running, next to the failed plan the registry holds |
| fetch_plugins | `MCFetchPlugins.cfg` | pass | every environment, ≤2 hosts, every page of ≤2 tags (300,222 states). A 200 list was built from every host and names each plugin at the first host listing it |
| fetch_no_answer | `MCFetchPlugins_NoAnswer.cfg` | violation | an unreadable /etc/os-release gets an empty 200 |
| plugins_sequential | `MCRestPlugins.cfg` | pass | one client; names `mqtt`, `prebuild` and `echo`; source, sink and function types; one-symbol lists; any 5 requests (37,545 states). Every request on the route table, and on the plugins installed in each state, reaches the most specific route (`RouteResolution`) |
| plugins_race | `MCRestPlugins_Race.cfg` | violation | two clients, one-symbol lists: a DELETE between functionRegisterHandler's check and its RegisterFuncs leaves symbols of a deleted plugin |
| plugins_failed_register | `MCRestPlugins_FailedRegister.cfg` | violation | one client, two-symbol lists: a POST whose second symbol is taken fails, and its first symbol stays exported by a plugin never installed |
| meta_fields | `MCMetaConf.cfg` | pass | any 4 requests over two keys and two fields (4,317 states). A 200 from the field endpoint means the change is in the store |
| meta_swallowed_error | `MCMetaConf_SwallowedError.cfg` | violation | a POST the store refuses is answered 200 by the confKey endpoint |

**Bounds.**
* The aggregate run has groups of 3 values, which is enough for a repeated
  key after a different one, a nil between two values, and a mixed group
  whose bad element is not first.
* `IntWidth = 8` keeps every sum of three values in range, so the
  overflow-free properties are judged on the real arithmetic. The overflow
  run uses 3 bits, the smallest width at which two of the sample values
  overflow. This stands in for Go's 64-bit int.
* The sequential REST run allows 6 requests: enough for
  create, update, stop, restart, delete and re-create of one rule in one
  behaviour.
* The race run needs only 4 requests for its counterexample.
* FetchPlugins uses two hosts and two plugin names, so one plugin can be
  listed by both hosts, in either order, or by one only. Pages of two tags
  allow a matching link next to a non-anchor, a link for another arch or a
  repeated link. A failure can hit the second host after the first one
  succeeded.
* RestPlugins uses three names, so a function plugin can export a symbol
  named after another name, and that symbol can conflict. Two-symbol
  lists are the shortest in which a clash can follow a stored symbol.
* MetaConf uses two keys and two fields, so a field change can apply to a
  key that does not exist, and a partial overlap can occur.

## Findings

1. **string `min` returns the maximum.** `sliceStringMin` (funcs_agg.go:279)
   tests `min < vs`.
2. **int overflow in avg and sum.** The total wraps (funcs_agg.go:195).
3. **Rule endpoints are not atomic.** A restart or DELETE between the calls of
   POST /rules leaves an unregistered or definition-less topology running
   (rest.go:277). This depends on the collaborator semantics assumed below.
4. **Prebuild answers an empty 200 when /etc/os-release cannot be read**
   (rest.go:591). The handler logs and returns without writing.
5. **Function-list registration races plugin deletion** (rest.go:544–555).
   The existence check and `RegisterFuncs` are separate calls. This holds
   under the assumption that `RegisterFuncs` does not check again.
6. **A failed function-plugin POST leaves symbols behind** (rest.go:440).
   `pluginsHandler` only reports the error of `Register`, and
   manager_test.go shows that a clash at the second symbol keeps the first
   one exported (`misc`) while the plugin is not installed.
7. **A failed confKey POST is answered 200** (rest.go:801). The shadowed
   `err` hides the store's error.

`avg`/`sum` accept an int64 first element but then call `sliceIntTotal`,
which accepts only `int` (funcs_agg.go:194); `max`/`min` do the same at
line 216, although spec 9 treats int and int64 as one class. The agg run
covers int64 values through `MixedTypesRejected` only; this divergence is
not given a run of its own.

`deduplicate` keys values on their `%v` text (funcs_agg.go:293), so int 1,
int64 1, float 1.0 and "1" are one value. This is what spec 4.5
("stringified") says. `DedupMatchesSpec` checks it.

Spec §5 says the function registry is immutable after process init.
However, `functionRegisterHandler` and the plugin POST and DELETE handlers
add and remove function symbols while the server runs (`RestPlugins`).
This is recorded here and not given a run of its own.

## What is modelled from the spec, and what is not modelled

* The **rule manager and rule processor** are not under `src/`. They are
  modelled from their interface as named in rest.go (spec_modelled in
  PROJECT.json), with these assumptions:
  * Each call is atomic.
  * `createRuleState` registers a triggered state planned from the
    definition it is given.
  * `doStartRule` opens the topology of the state it is given.
  * `deleteRule` and `stopRule` cancel the registered topology.
  * `startRule` replans from the stored definition unless the registered
    state is triggered.
  * `restartRule` is stop followed by start.
  * Planning may fail, and a failed plan registers a state with no
    topology.
* The **native plugin manager** and the **metadata store** are modelled
  from their tests and their interface (spec_modelled). Each call is atomic.
  A failed call changes nothing, except a function-plugin Register that
  fails at a symbol clash, which keeps the symbols stored before it.
* **Not modelled:**
  * the read-only GET endpoints;
  * the stream, table and service endpoints. Each is a method switch onto
    one call of the stream processor or the service manager. Neither is
    under `src/`, and spec.md does not describe them, so a model of their
    state would be invented. Their dispatch is checked in `Router`;
  * the DELETE `stop=1` flag of plugins, which exits the process;
  * HTTP, JSON and HTML I/O;
  * the server's timeouts, keep-alive setting and CORS wrapper, and
    `rootHandler` and `pingHandler`, which change no state;
  * `FuncFactory` (`Function`, `HasFunctionSet`), which has no
    implementation under `src/`; function symbols are modelled in
    `RestPlugins`;
  * `GetManager`, which only returns a singleton;
  * the parser and evaluator, whose source is absent.

## Plan

Done:
* `AggFuncs` and `AggWindow`;
* `RestRules` with failures and its refinement;
* `FetchPlugins`;
* `RestPlugins`;
* `MetaConf`;
* `Binder`, composed with `RestPlugins` (no property checked);
* `Router`, checked in the plugins run;

Next:
* `WindowSpec`: the window-clause rules of spec 4.2, checked against the
  cases of `parser_test.go`.
* A composed model of rules and plugins: a rule using a function symbol
  whose plugin is deleted.
