---------------------------- MODULE MCRestRules ----------------------------
EXTENDS RestRules

CONSTANTS c1, c2, r1, r2
=============================================================================
