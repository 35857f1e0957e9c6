SPECIFICATION Spec
CONSTANTS
  Addr <- MCAddr
  Inst <- MCInst
  Zero = "zero"
  Sets = {"fixed20", "fixed30", "camera"}
  Ips <- MCIps
  Fps20 = "fixed20"
  Fps30 = "fixed30"
  Loads <- MCLoads
  Hooked = {2}
  Hook = "hook"
  Absent = Absent
  NoFile = NoFile
  MaxFaults = 2
INVARIANTS
  CacheIsCurrent
  OnlyInstalledChanged
  FpsAsSet
