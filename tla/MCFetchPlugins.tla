--------------------------- MODULE MCFetchPlugins ---------------------------
EXTENDS FetchPlugins

CONSTANTS h1, h2, p1, p2, amd64, arm64
=============================================================================
