SPECIFICATION Spec
CONSTANTS
  a = a
  b = b
  Endpoints <- BothPeers
  BadPackets <- NoBad
  N_SESSIONS = 4
  INDEX_SPACE = 8
  MAX_QUEUE_DEPTH = 1
  WINDOW = 2
  REKEY_TIMEOUT = 1
  KEEPALIVE_TIMEOUT = 1
  REKEY_ATTEMPT_TIME = 2
  REKEY_AFTER_TIME = 2
  COOKIE_EXPIRATION_TIME = 2
  REJECT_AFTER_TIME = 4
  MaxPackets = 1
  Bounds <- Crossing
INVARIANTS TwoInFlight
