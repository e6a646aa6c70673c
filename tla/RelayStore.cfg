\* Two names for a store with room for one; every ttl and value class.
CONSTANTS
  Names = {"n1", "n2"}
  Values = {"a", "b", "big"}
  BigValues = {"big"}
  Ttls = {0, 1, 2, 3}
  MaxRelayTtl = 2
  MaxEntries = 1
  MaxClock = 4
  NoToken = NoToken
SPECIFICATION RelayFairSpec
PROPERTIES TokenService ExpiredEntryLeaves
