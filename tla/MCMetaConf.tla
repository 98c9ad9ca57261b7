----------------------------- MODULE MCMetaConf -----------------------------
EXTENDS MetaConf

CONSTANTS k1, k2, f1, f2
=============================================================================
