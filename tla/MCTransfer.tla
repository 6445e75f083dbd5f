----------------------------- MODULE MCTransfer -----------------------------
EXTENDS Transfer, TLC
CONSTANTS t1, e1, e2
MCTransfers == {t1}
MCExecutors == {e1, e2}
MCSymmetry == Permutations(MCExecutors)
=============================================================================
