SPECIFICATION FairSpec
CONSTANTS
  Debounce = 30
  Notice = 3
  Requesters = {"combo", "script"}
  Failures = {"bind", "listen", "accept"}
INVARIANTS
  EstablishedHasClient
PROPERTIES
  DebounceHonoured
  RequestServed
  ClientConnects
