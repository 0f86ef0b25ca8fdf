----------------------------- MODULE MCEncPool -----------------------------
EXTENDS EncPool, TLC

CONSTANTS m, w1, w2, nobody

OneWorker == {w1}
TwoWorkers == {w1, w2}
Symmetry == Permutations(TwoWorkers)
=============================================================================
