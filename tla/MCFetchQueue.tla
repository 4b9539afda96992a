----------------------------- MODULE MCFetchQueue -----------------------------
EXTENDS FetchQueue

CONSTANT u1   \* a URL
=============================================================================
