SPECIFICATION Spec
CONSTANTS
  Pads = {Neutral, a, b}
  Neutral = Neutral
  Deltas = {2, 3}
  Word = 64
  MaxFrames = 4
INVARIANTS
  RecordsWhatWasHeld
  FileHoldsRecording
  NxLabelsRight
  TranspiledInOrder
