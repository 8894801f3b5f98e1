SPECIFICATION Spec
CONSTANTS
  Endpoints <- MeAndPeer
  Events = {"packet", "response", "data"}
  N_SESSIONS = 2
  INDEX_SPACE = 4
  MAX_QUEUE_DEPTH = 2
  WINDOW = 2
  REKEY_TIMEOUT = 1
  KEEPALIVE_TIMEOUT = 2
  REKEY_ATTEMPT_TIME = 4
  REKEY_AFTER_TIME = 5
  COOKIE_EXPIRATION_TIME = 5
  REJECT_AFTER_TIME = 9
  MaxTime = 12
  MaxEvents = 3
  Keepalive = 0
  BadPackets <- NoBad
INVARIANTS KeepaliveSent
