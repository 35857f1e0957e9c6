SPECIFICATION FairSpec
CONSTANTS
  MaxDepth = 3
  Names = {main}
  Broken = {}
  NoEntry = {}
  Handles = {h1, h2, h3, h4}
  NoModule = NoModule
  Pads = {Vanilla, tas}
  Vanilla = Vanilla
  Durations = {2}
  Deltas = {2}
  DebugPause = DebugPause
  LoadingPause = LoadingPause
  Keys = {DebugPause, LoadingPause}
  ScriptKeys = {LoadingPause}
  Targets = {}
  NoKey = NoKey
  Calls = {"throw"}
  ElapsedMod = 1
  MaxPause = 0
  MaxBypass = 0
  MaxHostPush = 1
  PushDepth = 2
PROPERTIES
  QueuedGetsExecuted
