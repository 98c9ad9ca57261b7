---------------------------- MODULE MCAggWindow ----------------------------
EXTENDS AggWindow

\* Payloads of int/int64 inputs: a negative one, so that avg's truncation
\* toward zero differs from flooring, and two positive ones.
MCIntVals == {-1, 1, 2}
MCFloatVals == {1, 2}
\* "1" prints like the int 1 under %v; "b" sorts after it.
MCStrOrder == <<"1", "b">>
=============================================================================
