\* Every kind of event in every order; units of time are the shortest timer.
SPECIFICATION Spec
CONSTANTS
  Events = {"packet", "response", "init", "data", "cookie", "key"}
  N_SESSIONS = 2
  INDEX_SPACE = 4
  MAX_QUEUE_DEPTH = 1
  WINDOW = 2
  REKEY_TIMEOUT = 1
  KEEPALIVE_TIMEOUT = 1
  REKEY_ATTEMPT_TIME = 2
  REKEY_AFTER_TIME = 2
  COOKIE_EXPIRATION_TIME = 3
  REJECT_AFTER_TIME = 5
  MaxTime = 16
  MaxEvents = 3
  Keepalive = 4
  BadPackets <- OneBad
  Endpoints <- MeAndPeer
INVARIANTS TypeOK TimersInPast SessionLifetime ExpiredIsClean CookieLifetime NoStuckQueue
