---------------------------- MODULE MCResources -----------------------------
(* Instances of module Resources for TLC.                                  *)
EXTENDS Resources

\* Bounds: a program whose second segment ends below the first.
SmallPrograms == { <<2, 1>> }
=============================================================================
