SPECIFICATION FairSpec
CONSTANTS
  Threads = {Main, hook}
  Main = Main
  Nobody = Nobody
  Size = 9
  Tags = {a}
  Lengths = {1, 14}
  NoMessage = NoMessage
  Torn = Torn
  MaxBacklog = 4
  HeadLast = TRUE
  Payloads <- Lens
INVARIANTS
  ReadBack
PROPERTIES
  ImplementsLogStream
  Delivered
