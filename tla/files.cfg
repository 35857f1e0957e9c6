SPECIFICATION FairSpec
CONSTANTS
  Paths = {a}
  Dir = Dir
  Ns <- OwnNs
  Contents = {short, long}
  Long = {long}
  NoFile = NoFile
  Error = Error
  Requests = {r1, r2}
  Lengths = {3, 4}
  Chunk = 2
  MaxDone = 4
  MaxLosses = 1
PROPERTIES
  ReadYourWrites
  Answered
  UploadWhole
CHECK_DEADLOCK FALSE
