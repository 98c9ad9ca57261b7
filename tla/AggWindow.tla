----------------------------- MODULE AggWindow -----------------------------
(***************************************************************************)
(* A group of tuples, collected by the runtime, over which the aggregate    *)
(* functions of funcs_agg.go are evaluated.  The runtime (not in this      *)
(* repository's sources) appends the value the aggregate's argument took   *)
(* on each arriving tuple, in arrival order, and drops the group once the  *)
(* window has been emitted (spec sections 3.4 and 5).  Every reachable     *)
(* group is therefore a bounded sequence of dynamic values, and the         *)
(* properties below judge what aggCall returns for it.                     *)
(***************************************************************************)
EXTENDS AggFuncs

CONSTANT MaxGroup   \* the largest group a window collects in the model

VARIABLE group      \* the list args[0] aggCall receives

\* The row r[i] deduplicate returns: the i-th tuple of the group.
Rows == [i \in DOMAIN group |-> Val("int", i)]

\* The third argument of deduplicate, a boolean literal, per tuple.
AllCol(b) == [i \in DOMAIN group |-> Val("bool", b)]

Init == group = <<>>

\* Mutant: the group grows past the window's size.
CollectUnbounded(x) == group' = Append(group, x)

\* A tuple arrives and its argument value joins the group.
Collect(x) ==
    /\ Len(group) < MaxGroup
    /\ group' = Append(group, x)

\* The window is emitted and its group dropped.
Fire ==
    /\ group # <<>>
    /\ group' = <<>>

Next == (\E x \in Values : Collect(x)) \/ Fire

Spec == Init /\ [][Next]_group

-----------------------------------------------------------------------------
Numeric == {"int", "int64", "float"}

\* a <= b for two numeric results, the float quotient of avg included.
NumLe(a, b) == a.v * b.d <= b.v * a.d

FirstIndices(Same(_, _)) ==
    SelectSeq([i \in DOMAIN group |-> i],
              LAMBDA i : \A j \in 1..(i - 1) : ~Same(group[j], group[i]))

\* min, avg and max of the same numeric group agree: whenever all three
\* calls of aggCall succeed on a group with a non-nil value, the average
\* lies between the minimum and the maximum.  Catches a wrong divisor or
\* an overflowing total in the avg case of aggCall.
AvgWithinBounds ==
    LET mn == aggCall("min", <<group>>)
        mx == aggCall("max", <<group>>)
        av == aggCall("avg", <<group>>)
    IN  (/\ getFirstValidArg(group).t \in Numeric
         /\ mn.ok /\ mx.ok /\ av.ok)
        => NumLe(mn.val, av.val) /\ NumLe(av.val, mx.val)

\* sum, avg, max and min never succeed on a group mixing dynamic types
\* (spec 4.6: an element that fails the branch of the first non-null
\* element fails the call); the slice* loops are what enforce it.
MixedTypesRejected ==
    \A f \in {"sum", "avg", "max", "min"} :
        aggCall(f, <<group>>).ok =>
            \A i, j \in DOMAIN group :
                (group[i].t # "nil" /\ group[j].t # "nil") => group[i].t = group[j].t

\* deduplicate(r, col, all) behaves as spec 4.5 says: with all, the rows
\* whose key is seen for the first time, in order; without, the last row
\* iff its key was not seen before, else nil.
DedupMatchesSpec ==
    LET n == Len(group)
        firsts == FirstIndices(LAMBDA a, b : Key(a) = Key(b))
        lastNew == \A j \in 1..(n - 1) : Key(group[j]) # Key(group[n])
    IN  n > 0 =>
        /\ aggCall("deduplicate", <<Rows, group, AllCol(1)>>)
             = OkList([k \in DOMAIN firsts |-> Rows[firsts[k]]])
        /\ aggCall("deduplicate", <<Rows, group, AllCol(0)>>)
             = Ok(IF lastNew THEN Rows[n] ELSE Nil)

\* min returns a value no larger than any non-nil element of the group
\* (spec 4.6: min/max skip nulls).  The string branch of min is at stake.
MinIsLowerBound ==
    LET mn == aggCall("min", <<group>>)
    IN  (mn.ok /\ mn.val.t # "nil") =>
            \A i \in DOMAIN group : group[i].t # "nil" => NumLe(mn.val, group[i])

\* int and int64 are one integer class (spec 9): sum succeeds on every
\* group whose non-nil values are all integers of either kind.
IntegerClassesUnified ==
    (\A i \in DOMAIN group : group[i].t \in {"int", "int64", "nil"})
        => aggCall("sum", <<group>>).ok
=============================================================================
