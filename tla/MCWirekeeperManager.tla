----------------------- MODULE MCWirekeeperManager -----------------------
EXTENDS WirekeeperManager, TLC

\* Keys are only compared.  Used by the runs without liveness.
KeySymmetry == Permutations(Keys)
=============================================================================
