----------------------------- MODULE MCDebugLog -----------------------------
EXTENDS DebugLog

MCThreads == {1, 2}
MCNone == {}
=============================================================================
