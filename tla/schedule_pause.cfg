SPECIFICATION Spec
CONSTANTS
  MaxDepth = 2
  Names = {main}
  Broken = {}
  NoEntry = {}
  Handles = {h1, h2}
  NoModule = NoModule
  Pads = {Vanilla}
  Vanilla = Vanilla
  Durations = {0, 2}
  Deltas = {2,3}
  DebugPause = DebugPause
  LoadingPause = LoadingPause
  Keys = {DebugPause, LoadingPause}
  ScriptKeys = {LoadingPause}
  Targets = {t1}
  NoKey = NoKey
  Calls = {"input", "await", "block", "pause", "advance"}
  ElapsedMod = 1
  MaxPause = 1
  MaxBypass = 4
  MaxHostPush = 1
  PushDepth = 1
SYMMETRY HandleSymmetry
INVARIANTS
  TypeOK
  StepEndsPaused
PROPERTIES
  PausedNotResumed
  AwaitHonoured
