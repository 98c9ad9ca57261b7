--------------------------- MODULE RuleLifecycle ---------------------------
(***************************************************************************)
(* The abstract lifecycle a client of the rule endpoints relies on.  Each  *)
(* rule has a stored definition (a version, 0 when it does not exist) and  *)
(* the version its topology runs (0 when it runs nothing).                 *)
(***************************************************************************)
EXTENDS Naturals

CONSTANTS Rules, MaxVersion

VARIABLES defined, running, ver

lvars == <<defined, running, ver>>

Init ==
    /\ defined = [r \in Rules |-> 0]
    /\ running = [r \in Rules |-> 0]
    /\ ver = 0

\* A definition is created or replaced by a fresh version.
Define(r) ==
    /\ ver < MaxVersion
    /\ ver' = ver + 1
    /\ defined' = [defined EXCEPT ![r] = ver + 1]
    /\ UNCHANGED running

\* A definition is removed once nothing runs it.
Drop(r) ==
    /\ defined[r] # 0
    /\ running[r] = 0
    /\ defined' = [defined EXCEPT ![r] = 0]
    /\ UNCHANGED <<running, ver>>

\* The rule is (re)started on its current definition.
Run(r) ==
    /\ defined[r] # 0
    /\ running' = [running EXCEPT ![r] = defined[r]]
    /\ UNCHANGED <<defined, ver>>

\* The rule stops.
Halt(r) ==
    /\ running[r] # 0
    /\ running' = [running EXCEPT ![r] = 0]
    /\ UNCHANGED <<defined, ver>>

Next == \E r \in Rules : Define(r) \/ Drop(r) \/ Run(r) \/ Halt(r)

Spec == Init /\ [][Next]_lvars
=============================================================================
