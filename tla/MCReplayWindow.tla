--------------------------- MODULE MCReplayWindow ---------------------------
EXTENDS ReplayWindow, TLC

ReceiverSymmetry == Permutations(Receivers)
=============================================================================
