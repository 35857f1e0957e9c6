SPECIFICATION ControlsSpec
CONSTANTS
  MaxDepth = 2
  PushDepth = 2
  Names = {main}
  Scripts = {main}
  Broken = {}
  NoEntry = {}
  Handles = {h1, h2}
  NoModule = NoModule
  Pads <- MCPads
  Vanilla <- MCVanilla
  Durations = {4}
  Deltas = {2}
  DebugPause = DebugPause
  LoadingPause = LoadingPause
  Keys = {DebugPause, LoadingPause}
  ScriptKeys = {}
  Targets = {}
  NoKey = NoKey
  Calls = {"input", "bind", "record"}
  ElapsedMod = 1
  MaxPause = 0
  MaxBypass = 0
  MaxHostPush = 0
  MaxHotkeys = 2
  Triggers <- MCTriggers
  NoTrigger <- MCNoTrigger
  Cooldowns = {2}
  Inputs <- MCInputs
  KeysPressed <- MCKeysPressed
  NoInput <- MCNoInput
  MaxFrames = 3
SYMMETRY MCSymmetry
INVARIANTS
  UniqueTrigger
  CooldownHonoured
  RecordingLagsOneFrame
PROPERTIES
  InputPlayedInFull
CHECK_DEADLOCK FALSE
