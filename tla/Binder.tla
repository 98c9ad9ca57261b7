------------------------------- MODULE Binder -------------------------------
(***************************************************************************)
(* Source and sink lookup over the factories of internal/binder: the       *)
(* built-in table of internal/binder/io/builtin.go and the native plugin   *)
(* manager whose plugins RestPlugins installs and deletes.  The binder     *)
(* asks each factory (binder.SourceFactory / SinkFactory of factory.go) in *)
(* order: built-ins first, then native plugins.                            *)
(*                                                                         *)
(* A factory answers (instance, error) as the Go interface does; an        *)
(* instance is the factory it came from and the name it was made for.      *)
(***************************************************************************)
EXTENDS RestPlugins, Sequences, SequencesExt

CONSTANTS SOURCE, SINK   \* the source and sink plugin types, members of Types

NilInst == [from |-> "nil", name |-> "nil"]
Inst(f, n) == [from |-> f, name |-> n]

\* The (api.Source, error) or (api.Sink, error) pair of a factory call.
Res(inst, err) == [inst |-> inst, err |-> err]

(***************************************************************************)
(* internal/binder/io/builtin.go                                           *)
(***************************************************************************)
sources == {"mqtt", "httppull", "file"}
sinks == {"log", "logToMemory", "mqtt", "rest", "nop"}

\* Manager.Source: a known name makes a new instance, an unknown one
\* answers (nil, nil).
BuiltinSource(name) ==
    IF name \in sources THEN Res(Inst("builtin", name), FALSE)
    ELSE Res(NilInst, FALSE)

BuiltinSink(name) ==
    IF name \in sinks THEN Res(Inst("builtin", name), FALSE)
    ELSE Res(NilInst, FALSE)

(***************************************************************************)
(* The native plugin manager as a factory (not under src/): an installed   *)
(* plugin is loaded, any other name answers (nil, nil).                    *)
(***************************************************************************)
NativeLookup(t, name) ==
    IF name \in plugins[t] THEN Res(Inst("native", name), FALSE)
    ELSE Res(NilInst, FALSE)

\* The binder's chain (not under src/): the factories are asked in order,
\* their errors are collected, and the first instance is returned with
\* the errors collected so far.
Chain(answers) ==
    LET Step(acc, a) ==
            IF acc.inst # NilInst THEN acc
            ELSE Res(a.inst, acc.err \/ a.err)
    IN  FoldLeft(Step, Res(NilInst, FALSE), answers)

Source(name) == Chain(<<BuiltinSource(name), NativeLookup(SOURCE, name)>>)

Sink(name) == Chain(<<BuiltinSink(name), NativeLookup(SINK, name)>>)

=============================================================================
