----------------------------- MODULE MCConsole ------------------------------
EXTENDS Console

\* A reader and a writer.
SmallCalls == {<<1, "read", 2>>, <<2, "write", 2>>}
=============================================================================
