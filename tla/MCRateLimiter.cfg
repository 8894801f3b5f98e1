\* Two workers, three addresses, two epochs and two periods.
SPECIFICATION Spec
CONSTANTS
  Workers = {w1, w2}
  Addrs <- TheAddrs
  V4_LEN = 1
  V6_LEN = 2
  NoAddr = NoAddr
  NoCookie = NoCookie
  Limit = 1
  RESET_PERIOD = 2
  COOKIE_REFRESH = 3
  MaxTime = 3
  MaxCount = 3
SYMMETRY Symmetry
INVARIANTS LoadBound
PROPERTIES CookieProves
