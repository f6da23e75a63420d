------------------------------ MODULE MCHarts -------------------------------
EXTENDS Harts
=============================================================================
