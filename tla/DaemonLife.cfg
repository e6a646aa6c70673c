SPECIFICATION LifeFairSpec
CONSTANTS
  Daemons = {"strict", "lax"}
  Hooks = {"h1", "h2"}
  Proxies <- MCProxies
  Strict <- MCStrict
  Backlog = 1
  MayFail = TRUE
INVARIANTS
  AloneIsReachable
  NothingLeft
PROPERTIES
  EveryCallEnds
