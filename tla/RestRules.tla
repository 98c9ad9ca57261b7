----------------------------- MODULE RestRules -----------------------------
(***************************************************************************)
(* The rule endpoints of internal/server/rest.go served concurrently.      *)
(* net/http runs every request in its own goroutine, so the handlers of    *)
(* several clients interleave between the calls they make into the rule    *)
(* processor (persisted definitions) and the rule manager (the registry of *)
(* rule states and their running topologies).                              *)
(*                                                                         *)
(* Those collaborators are not under src/; they are modelled from their   *)
(* interface: every call rest.go makes into them is one atomic step (the   *)
(* registry and the store serialise their own operations).                 *)
(*                                                                         *)
(*   store[r]     version of the persisted definition of rule r, 0 = none  *)
(*   registry[r]  the RuleState of r: the index of its topology, 0 = none  *)
(*   topos        every topology ever planned: rule, definition version    *)
(*                it was planned from, and "planned"/"running"/"stopped",  *)
(*                or "failed" when planning it failed (no topology)        *)
(*   pc, local    per client: the handler step, the rule, the *api.Rule    *)
(*                version and the *RuleState the handler holds             *)
(***************************************************************************)
EXTENDS Integers, Sequences, FiniteSets

CONSTANTS
    Clients,      \* concurrent HTTP clients
    Rules,        \* rule ids
    MaxRequests   \* requests served in one behaviour

VARIABLES store, registry, topos, ver, pc, local, served

vars == <<store, registry, topos, ver, pc, local, served>>

PCs == {"idle", "create.state", "create.start", "delete.drop",
        "update.exec", "update.restart"}

Live == {"planned", "running"}

Topo(r, v, st) == [rule |-> r, ver |-> v, st |-> st]

TypeOK ==
    /\ store \in [Rules -> 0..MaxRequests]
    /\ ver \in 0..MaxRequests
    /\ topos \in Seq([rule : Rules, ver : 1..MaxRequests,
                      st : {"planned", "running", "stopped", "failed"}])
    /\ registry \in [Rules -> 0..Len(topos)]
    /\ pc \in [Clients -> PCs]
    /\ local \in [Clients -> [rule : Rules, ver : 0..MaxRequests, tp : 0..Len(topos)]]
    /\ served \in 0..MaxRequests

Init ==
    /\ store = [r \in Rules |-> 0]
    /\ registry = [r \in Rules |-> 0]
    /\ topos = <<>>
    /\ ver = 0
    /\ pc = [c \in Clients |-> "idle"]
    /\ local = [c \in Clients |-> [rule |-> CHOOSE r \in Rules : TRUE, ver |-> 0, tp |-> 0]]
    /\ served = 0

(***************************************************************************)
(* Rule manager operations (server/ruleManager.go, not under src/)         *)
(***************************************************************************)
\* stopRule: a registered rule state has its topology cancelled.
StoppedTopos(r) ==
    IF registry[r] # 0 THEN [topos EXCEPT ![registry[r]].st = "stopped"] ELSE topos

\* createRuleState + doStartRule on the stored definition: the new rule
\* state is registered, and its topology runs if planning succeeded (ok).
Replanned(tps, r, ok) ==
    [topos |-> Append(tps, Topo(r, store[r], IF ok THEN "running" ELSE "failed")),
     registry |-> [registry EXCEPT ![r] = Len(tps) + 1]]

\* startRule: a rule whose state is absent or not triggered is planned
\* afresh from its stored definition; a missing definition is an error.
startRule(r, ok) ==
    IF \/ registry[r] # 0 /\ topos[registry[r]].st \in Live
       \/ store[r] = 0
    THEN [topos |-> topos, registry |-> registry]
    ELSE Replanned(topos, r, ok)

\* restartRule: stopRule, then startRule.
Restarted(r, ok) ==
    IF store[r] = 0 THEN [topos |-> StoppedTopos(r), registry |-> registry]
    ELSE Replanned(StoppedTopos(r), r, ok)

\* Applies the outcome of a rule manager call.
Apply(res) == topos' = res.topos /\ registry' = res.registry

Finish(c) == pc' = [pc EXCEPT ![c] = "idle"]

Goto(c, l) == pc' = [pc EXCEPT ![c] = l]

(***************************************************************************)
(* A client sends a request; the handler's first step runs with it.        *)
(***************************************************************************)
\* POST /rules: ruleProcessor.ExecCreate persists a new rule; an existing
\* id is an error and the handler returns.
CreateExec(c, r) ==
    IF store[r] = 0
    THEN /\ store' = [store EXCEPT ![r] = ver + 1]
         /\ ver' = ver + 1
         /\ local' = [local EXCEPT ![c] = [rule |-> r, ver |-> ver + 1, tp |-> 0]]
         /\ Goto(c, "create.state")
    ELSE /\ local' = [local EXCEPT ![c].rule = r]
         /\ Finish(c)
         /\ UNCHANGED <<store, ver>>

\* Mutant: DELETE goes straight to ExecDrop without deleteRule.
DeleteRuleSkipped(c, r) ==
    /\ UNCHANGED <<topos, registry>>
    /\ local' = [local EXCEPT ![c].rule = r]
    /\ Goto(c, "delete.drop")

\* DELETE /rules/{name}: deleteRule(name) drops the rule state and cancels
\* its topology, whether or not the rule exists.
DeleteRule(c, r) ==
    /\ IF registry[r] # 0
       THEN /\ topos' = [topos EXCEPT ![registry[r]].st = "stopped"]
            /\ registry' = [registry EXCEPT ![r] = 0]
       ELSE UNCHANGED <<topos, registry>>
    /\ local' = [local EXCEPT ![c].rule = r]
    /\ Goto(c, "delete.drop")

\* PUT /rules/{name}: GetRuleByName; a missing rule ends the request.
UpdateGet(c, r) ==
    /\ local' = [local EXCEPT ![c].rule = r]
    /\ IF store[r] # 0 THEN Goto(c, "update.exec") ELSE Finish(c)

Request(c) ==
    /\ pc[c] = "idle"
    /\ served < MaxRequests
    /\ served' = served + 1
    /\ \E r \in Rules :
        \/ /\ CreateExec(c, r)
           /\ UNCHANGED <<registry, topos>>
        \/ /\ DeleteRule(c, r)
           /\ UNCHANGED <<store, ver>>
        \/ /\ UpdateGet(c, r)
           /\ UNCHANGED <<store, ver, registry, topos>>
        \* POST /rules/{name}/start, /stop, /restart: one manager call each.
        \/ /\ \E ok \in BOOLEAN : Apply(startRule(r, ok))
           /\ local' = [local EXCEPT ![c].rule = r]
           /\ UNCHANGED <<store, ver, pc>>
        \/ /\ topos' = StoppedTopos(r)
           /\ local' = [local EXCEPT ![c].rule = r]
           /\ UNCHANGED <<store, ver, registry, pc>>
        \/ /\ \E ok \in BOOLEAN : Apply(Restarted(r, ok))
           /\ local' = [local EXCEPT ![c].rule = r]
           /\ UNCHANGED <<store, ver, pc>>

(***************************************************************************)
(* The later steps of the multi-call handlers                              *)
(***************************************************************************)
\* Mutant: the rule state is registered under the wrong topology index.
CreateStateOffByOne(c) ==
    /\ pc[c] = "create.state"
    /\ topos' = Append(topos, Topo(local[c].rule, local[c].ver, "planned"))
    /\ registry' = [registry EXCEPT ![local[c].rule] = Len(topos) + 2]
    /\ local' = [local EXCEPT ![c].tp = Len(topos) + 1]
    /\ Goto(c, "create.start")
    /\ UNCHANGED <<store, ver, served>>

\* Mutant: the handler answers after createRuleState without doStartRule.
CreateStateNoStart(c) ==
    /\ pc[c] = "create.state"
    /\ registry' = [registry EXCEPT ![local[c].rule] = Len(topos) + 1]
    /\ local' = [local EXCEPT ![c].tp = Len(topos) + 1]
    /\ \E st \in {"planned", "failed"} :
         topos' = Append(topos, Topo(local[c].rule, local[c].ver, st))
    /\ Finish(c)
    /\ UNCHANGED <<store, ver, served>>

\* POST /rules, after ExecCreate: createRuleState registers a rule state
\* and plans it from the definition the handler holds.  If planning fails
\* the handler skips doStartRule and still answers 201 with the error: the
\* rule stays persisted, registered without a topology.
CreateState(c) ==
    /\ pc[c] = "create.state"
    /\ registry' = [registry EXCEPT ![local[c].rule] = Len(topos) + 1]
    /\ local' = [local EXCEPT ![c].tp = Len(topos) + 1]
    /\ \/ /\ topos' = Append(topos, Topo(local[c].rule, local[c].ver, "planned"))
          /\ Goto(c, "create.start")
       \/ /\ topos' = Append(topos, Topo(local[c].rule, local[c].ver, "failed"))
          /\ Finish(c)
    /\ UNCHANGED <<store, ver, served>>

\* POST /rules, last step: doStartRule opens the topology of the rule state
\* the handler holds, registered or not.
CreateStart(c) ==
    /\ pc[c] = "create.start"
    /\ topos' = [topos EXCEPT ![local[c].tp].st = "running"]
    /\ Finish(c)
    /\ UNCHANGED <<store, ver, registry, local, served>>

\* DELETE /rules/{name}, after deleteRule: ruleProcessor.ExecDrop removes
\* the definition (an error if there is none).
DeleteDrop(c) ==
    /\ pc[c] = "delete.drop"
    /\ store' = [store EXCEPT ![local[c].rule] = 0]
    /\ Finish(c)
    /\ UNCHANGED <<ver, registry, topos, local, served>>

\* Mutant: the handler answers after ExecUpdate without restarting.
UpdateExecNoRestart(c) ==
    /\ pc[c] = "update.exec"
    /\ IF store[local[c].rule] # 0
       THEN /\ store' = [store EXCEPT ![local[c].rule] = ver + 1]
            /\ ver' = ver + 1
       ELSE UNCHANGED <<store, ver>>
    /\ Finish(c)
    /\ UNCHANGED <<registry, topos, local, served>>

\* PUT /rules/{name}: ruleProcessor.ExecUpdate replaces the definition; it
\* fails if the rule was dropped since GetRuleByName.
UpdateExec(c) ==
    /\ pc[c] = "update.exec"
    /\ IF store[local[c].rule] # 0
       THEN /\ store' = [store EXCEPT ![local[c].rule] = ver + 1]
            /\ ver' = ver + 1
            /\ Goto(c, "update.restart")
       ELSE /\ Finish(c)
            /\ UNCHANGED <<store, ver>>
    /\ UNCHANGED <<registry, topos, local, served>>

\* PUT /rules/{name}, last step: restartRule(name).  If it fails the
\* handler answers an error, but the new definition is already stored.
UpdateRestart(c) ==
    /\ pc[c] = "update.restart"
    /\ \E ok \in BOOLEAN : Apply(Restarted(local[c].rule, ok))
    /\ Finish(c)
    /\ UNCHANGED <<store, ver, local, served>>

Next ==
    \E c \in Clients :
        \/ Request(c)
        \/ CreateState(c)
        \/ CreateStart(c)
        \/ DeleteDrop(c)
        \/ UpdateExec(c)
        \/ UpdateRestart(c)

Spec == Init /\ [][Next]_vars

-----------------------------------------------------------------------------
Quiescent == \A c \in Clients : pc[c] = "idle"

\* When no request is in flight, every running topology is the one the
\* registry holds for its rule, and it runs the rule's current stored
\* definition: DELETE stops what it drops, PUT restarts what it updates,
\* POST starts what it creates, and nothing keeps running unreachable.
RegistryMatchesStore ==
    Quiescent =>
        \A i \in DOMAIN topos :
            topos[i].st = "running" =>
                /\ registry[topos[i].rule] = i
                /\ store[topos[i].rule] = topos[i].ver

\* What the rule endpoints promise, seen through the registry: the stored
\* definition of each rule, and the version its registered topology runs.
RunningVersion(r) ==
    IF registry[r] # 0 /\ topos[registry[r]].st = "running"
    THEN topos[registry[r]].ver ELSE 0

Lifecycle == INSTANCE RuleLifecycle
                 WITH defined <- store,
                      running <- [r \in Rules |-> RunningVersion(r)],
                      MaxVersion <- MaxRequests

\* The handlers implement the abstract rule lifecycle: a rule runs only its
\* current definition, an update or create takes effect by a restart of
\* the new version, and a definition is dropped only once nothing runs it.
LifecycleRefined == Lifecycle!Spec
=============================================================================
