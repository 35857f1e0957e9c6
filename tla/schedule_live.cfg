SPECIFICATION FairSpec
CONSTANTS
  MaxDepth = 2
  Names = {main, lib}
  Broken = {}
  NoEntry = {}
  Handles = {h1, h2, h3}
  NoModule = NoModule
  Pads = {Vanilla, tas}
  Vanilla = Vanilla
  Durations = {0, 2}
  Deltas = {3}
  DebugPause = DebugPause
  LoadingPause = LoadingPause
  Keys = {DebugPause, LoadingPause}
  ScriptKeys = {LoadingPause}
  Targets = {}
  NoKey = NoKey
  Calls = {"input"}
  ElapsedMod = 1
  MaxPause = 0
  MaxBypass = 0
  MaxHostPush = 2
  PushDepth = 1
PROPERTIES
  TopIsStarted
  InputRunsOut
