SPECIFICATION Spec
CONSTANTS
  MaxDepth = 3
  Names = {main, lib, bad, none}
  Broken = {bad}
  NoEntry = {none}
  Handles = {h1, h2, h3, h4}
  NoModule = NoModule
  Pads = {Vanilla, tas}
  Vanilla = Vanilla
  Durations = {0, 3}
  Deltas = {2}
  DebugPause = DebugPause
  LoadingPause = LoadingPause
  Keys = {DebugPause, LoadingPause}
  ScriptKeys = {LoadingPause}
  Targets = {}
  NoKey = NoKey
  Calls = {"input", "push", "yield", "abort", "throw"}
  ElapsedMod = 1
  MaxPause = 0
  MaxBypass = 0
  MaxHostPush = 1
  PushDepth = 2
SYMMETRY HandleSymmetry
INVARIANTS
  RunningIsTop
  NestingMatchesStack
  StackShape
PROPERTIES
  AbortClearsStack
  TimeChargedOnce
  ScheduledInputKept
  ImplementsScriptStack
CHECK_DEADLOCK FALSE
