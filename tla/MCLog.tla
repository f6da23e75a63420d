------------------------------- MODULE MCLog --------------------------------
(* Small instances of Log for TLC.                                         *)
EXTENDS Log, TLC

\* Processes and blocks are interchangeable.
Interchangeable == Permutations(Procs) \cup Permutations(Blocks)
=============================================================================
