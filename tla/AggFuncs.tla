------------------------------ MODULE AggFuncs ------------------------------
(***************************************************************************)
(* The aggregate function library of internal/binder/function/funcs_agg.go *)
(* as pure operators.  aggCall(name, args) receives, for every argument    *)
(* slot, the list of values that argument took over the tuples of a group, *)
(* exactly as the Go function does, and returns a result or an error.      *)
(*                                                                         *)
(* Data abstraction.  A dynamic Go value is a record [t, v, d]:            *)
(*   t  the dynamic type: "nil", "int", "int64", "float", "string", "bool"  *)
(*   v  an integer payload: the number; for a string its rank in the       *)
(*      lexicographic order StrOrder; for a bool 1 or 0                    *)
(*   d  a denominator, 1 except for the float64 quotient avg computes      *)
(* Go's int is IntWidth bits wide and wraps (two's complement).            *)
(***************************************************************************)
EXTENDS Integers, Sequences, SequencesExt, FiniteSets, TLC

CONSTANTS
    IntVals,    \* payloads of int and int64 inputs
    FloatVals,  \* payloads of float64 inputs (integral, so sums are exact)
    StrOrder,   \* the string inputs, sorted lexicographically
    IntWidth    \* bit width of Go's int

ASSUME IntWidth \in Nat \ {0}
ASSUME StrOrder \in Seq(STRING)

Val(ty, x) == [t |-> ty, v |-> x, d |-> 1]
Nil == Val("nil", 0)

Values ==
    {Nil}
    \cup {Val(ty, x) : ty \in {"int", "int64"}, x \in IntVals}
    \cup {Val("float", x) : x \in FloatVals}
    \cup {Val("string", x) : x \in DOMAIN StrOrder}
    \cup {Val("bool", x) : x \in {0, 1}}

\* Go's int arithmetic: the two's-complement wrap of an IntWidth-bit word.
GoInt(x) ==
    LET m == 2^IntWidth IN ((x + m \div 2) % m) - m \div 2

\* Go's integer division truncates toward zero (b > 0 here).
GoQuo(a, b) == IF a >= 0 THEN a \div b ELSE -((-a) \div b)

\* The result of aggCall: (value, true) or (error, false).  collect and
\* deduplicate(..., true) return a list, kept in the field list.
Ok(x) == [ok |-> TRUE, val |-> x, list |-> <<>>]
OkList(s) == [ok |-> TRUE, val |-> Nil, list |-> s]
Fail == [ok |-> FALSE, val |-> Nil, list |-> <<>>]

(***************************************************************************)
(* Helpers of funcs_agg.go                                                 *)
(***************************************************************************)
NonNil(s) == SelectSeq(s, LAMBDA e : e.t # "nil")

getCount(s) == Len(NonNil(s))

getFirstValidArg(s) == IF NonNil(s) = <<>> THEN Nil ELSE Head(NonNil(s))

\* Every slice* loop returns an error at the first non-nil element whose
\* dynamic type is not ty; nil elements are skipped.
OnlyOf(ty, s) == \A i \in DOMAIN s : s[i].t \in {ty, "nil"}

Payloads(ty, s) == {s[i].v : i \in {j \in DOMAIN s : s[j].t = ty}}

Total(ty, s) == FoldLeft(LAMBDA acc, e : IF e.t = ty THEN acc + e.v ELSE acc, 0, s)

SliceRes(ok, r) == [ok |-> ok, r |-> r]

\* Mutant: the loop adds the ints and skips every other element silently.
sliceIntTotalUnchecked(s) == SliceRes(TRUE, GoInt(Total("int", s)))

sliceIntTotal(s) ==
    IF OnlyOf("int", s) THEN SliceRes(TRUE, GoInt(Total("int", s)))
                        ELSE SliceRes(FALSE, 0)

sliceFloatTotal(s) ==
    IF OnlyOf("float", s) THEN SliceRes(TRUE, Total("float", s))
                          ELSE SliceRes(FALSE, 0)

sliceIntMax(s, max) ==
    IF OnlyOf("int", s) THEN SliceRes(TRUE, Max({max} \cup Payloads("int", s)))
                        ELSE SliceRes(FALSE, 0)

sliceFloatMax(s, max) ==
    IF OnlyOf("float", s) THEN SliceRes(TRUE, Max({max} \cup Payloads("float", s)))
                          ELSE SliceRes(FALSE, 0)

sliceStringMax(s, max) ==
    IF OnlyOf("string", s) THEN SliceRes(TRUE, Max({max} \cup Payloads("string", s)))
                           ELSE SliceRes(FALSE, 0)

sliceIntMin(s, min) ==
    IF OnlyOf("int", s) THEN SliceRes(TRUE, Min({min} \cup Payloads("int", s)))
                        ELSE SliceRes(FALSE, 0)

sliceFloatMin(s, min) ==
    IF OnlyOf("float", s) THEN SliceRes(TRUE, Min({min} \cup Payloads("float", s)))
                          ELSE SliceRes(FALSE, 0)

\* The loop replaces min when `min < vs`, so it keeps the larger string.
sliceStringMin(s, min) ==
    IF OnlyOf("string", s) THEN SliceRes(TRUE, Max({min} \cup Payloads("string", s)))
                           ELSE SliceRes(FALSE, 0)

\* The key of deduplicate: fmt.Sprintf("%v", m).  A float64 with an
\* integral value prints without a fraction, like an int.
Key(x) ==
    CASE x.t = "nil" -> "<nil>"
      [] x.t \in {"int", "int64", "float"} -> ToString(x.v)
      [] x.t = "string" -> StrOrder[x.v]
      [] x.t = "bool" -> IF x.v = 1 THEN "true" ELSE "false"

\* Mutant: the key is recorded only when all is true.
dedupMarkOnlyAll(r, col, all) ==
    LET Step(acc, i) ==
            IF Key(col[i]) \in acc.keyset THEN acc
            ELSE [keyset |-> IF all THEN acc.keyset \cup {Key(col[i])} ELSE acc.keyset,
                  result |-> IF all \/ i = Len(col)
                             THEN Append(acc.result, r[i]) ELSE acc.result]
        res == FoldLeft(Step, [keyset |-> {}, result |-> <<>>],
                        [i \in 1..Len(col) |-> i]).result
    IN  IF all THEN OkList(res)
        ELSE IF res = <<>> THEN Ok(Nil) ELSE Ok(res[1])

\* dedup: one pass over col with the keyset and the result list.
dedup(r, col, all) ==
    LET Step(acc, i) ==
            IF Key(col[i]) \in acc.keyset THEN acc
            ELSE [keyset |-> acc.keyset \cup {Key(col[i])},
                  result |-> IF all \/ i = Len(col)
                             THEN Append(acc.result, r[i]) ELSE acc.result]
        res == FoldLeft(Step, [keyset |-> {}, result |-> <<>>],
                        [i \in 1..Len(col) |-> i]).result
    IN  IF all THEN OkList(res)
        ELSE IF res = <<>> THEN Ok(Nil) ELSE Ok(res[1])

(***************************************************************************)
(* The cases of aggCall                                                    *)
(***************************************************************************)
FromSlice(ty, res) == IF res.ok THEN Ok(Val(ty, res.r)) ELSE Fail

\* Mutant: the total is divided by the length of the list, nils included.
AggAvgByLen(arg0) ==
    LET c == Len(arg0)
        v == getFirstValidArg(arg0)
        it == sliceIntTotal(arg0)
        ft == sliceFloatTotal(arg0)
    IN  IF getCount(arg0) = 0 THEN Ok(Val("int", 0))
        ELSE CASE v.t \in {"int", "int64"} ->
                    IF it.ok THEN Ok(Val("int", GoQuo(it.r, c))) ELSE Fail
               [] v.t = "float" ->
                    IF ft.ok THEN Ok([t |-> "float", v |-> ft.r, d |-> c]) ELSE Fail
               [] OTHER -> Fail

AggAvg(arg0) ==
    LET c == getCount(arg0)
        v == getFirstValidArg(arg0)
        it == sliceIntTotal(arg0)
        ft == sliceFloatTotal(arg0)
    IN  IF c = 0 THEN Ok(Val("int", 0))
        ELSE CASE v.t \in {"int", "int64"} ->
                    IF it.ok THEN Ok(Val("int", GoQuo(it.r, c))) ELSE Fail
               [] v.t = "float" ->
                    IF ft.ok THEN Ok([t |-> "float", v |-> ft.r, d |-> c]) ELSE Fail
               [] OTHER -> Fail

AggCount(arg0) == Ok(Val("int", getCount(arg0)))

AggMax(arg0) ==
    LET v == getFirstValidArg(arg0) IN
    IF Len(arg0) = 0 THEN Fail
    ELSE CASE v.t \in {"int", "int64"} -> FromSlice("int", sliceIntMax(arg0, v.v))
           [] v.t = "float" -> FromSlice("float", sliceFloatMax(arg0, v.v))
           [] v.t = "string" -> FromSlice("string", sliceStringMax(arg0, v.v))
           [] v.t = "nil" -> Ok(Nil)
           [] OTHER -> Fail

AggMin(arg0) ==
    LET v == getFirstValidArg(arg0) IN
    IF Len(arg0) = 0 THEN Fail
    ELSE CASE v.t \in {"int", "int64"} -> FromSlice("int", sliceIntMin(arg0, v.v))
           [] v.t = "float" -> FromSlice("float", sliceFloatMin(arg0, v.v))
           [] v.t = "string" -> FromSlice("string", sliceStringMin(arg0, v.v))
           [] v.t = "nil" -> Ok(Nil)
           [] OTHER -> Fail

AggSum(arg0) ==
    LET v == getFirstValidArg(arg0) IN
    IF Len(arg0) = 0 THEN Ok(Val("int", 0))
    ELSE CASE v.t \in {"int", "int64"} -> FromSlice("int", sliceIntTotal(arg0))
           [] v.t = "float" -> FromSlice("float", sliceFloatTotal(arg0))
           [] v.t = "nil" -> Ok(Nil)
           [] OTHER -> Fail

AggDeduplicate(v1, v2, v3a) ==
    IF Len(v3a) > 0 /\ getFirstValidArg(v3a).t = "bool"
    THEN dedup(v1, v2, getFirstValidArg(v3a).v = 1)
    ELSE Fail

aggCall(name, args) ==
    CASE name = "avg" -> AggAvg(args[1])
      [] name = "count" -> AggCount(args[1])
      [] name = "max" -> AggMax(args[1])
      [] name = "min" -> AggMin(args[1])
      [] name = "sum" -> AggSum(args[1])
      [] name = "collect" -> OkList(args[1])
      [] name = "deduplicate" -> AggDeduplicate(args[1], args[2], args[3])
      [] OTHER -> Fail
=============================================================================
