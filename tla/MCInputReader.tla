--------------------------- MODULE MCInputReader ---------------------------
EXTENDS InputReader
=============================================================================
