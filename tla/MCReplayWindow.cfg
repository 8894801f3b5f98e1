\* Two concurrent callers on a window of 2 words of 3 bits; the counters go
\* past the window so that the ring of words is reused.
CONSTANTS
  Receivers = {r1, r2}
  NoReceiver = NoReceiver
  WORD_SIZE = 3
  N_WORDS = 2
  MaxCounter = 7
SPECIFICATION Spec
SYMMETRY ReceiverSymmetry
INVARIANTS NoReplay LossEstimateSound WindowExact
PROPERTIES FilterRefinement
