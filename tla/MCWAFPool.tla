------------------------------ MODULE MCWAFPool ------------------------------
(* Small pools for TLC.                                                    *)
EXTENDS WAFPool, TLC

(* Handles on which the same methods may be called are interchangeable.    *)
TxSymmetry == Permutations(OpTx) \cup Permutations(Tx \ OpTx)
=============================================================================
