------------------------------ MODULE MCHanzi -------------------------------
EXTENDS CCMHanzi, TLC

CONSTANTS short, long

MCStrokes == short :> 1 @@ long :> 3
=============================================================================
