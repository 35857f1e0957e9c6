------------------------------- MODULE Controls -------------------------------
(***************************************************************************)
(* The controller through one frame after another: hotkeys start scripts   *)
(* (hotkey::calc), the scripts schedule input (module Schedule), it is     *)
(* recorded (Record::calc), and mixed with the player's when the game      *)
(* polls the pad (the hooks of main.cpp, Playback::applyCurrentInput).     *)
(*                                                                         *)
(* Hotkeys and the recording see the input of the last poll, with what     *)
(* was injected.  PollIntoRecord is a deliberately faulty form of the      *)
(* definition that follows it.                                             *)
(***************************************************************************)
EXTENDS Schedule, Hotkey

CONSTANTS
  Inputs,       \* what the player's fingers do: sets of buttons, a stick
  KeysPressed,  \* what is pressed on the keyboard
  NoInput,      \* nothing pressed
  MaxFrames     \* bound: frames of a recording

ASSUME InputsAssumption == NoInput \in Inputs /\ MaxFrames \in Nat
ASSUME ScriptsAssumption == Scripts \subseteq Names

VARIABLES
  at,         \* in the frame: "cooldown", "buttons", "keyboard", "loop", "record", "poll", "render"
  frameTime,  \* mDeltaFrame of this frame, in half-frames
  isRecordActive, current, accumulator, input60, record60, nxTAS, doEmitFile, file,
  refused, seen, inputs, nxLines, written,    \* of module Record
  asked,      \* history: duration of the input a slot has scheduled
  shown,      \* history: time the game has seen it
  plan,       \* history: the inputs scheduled since the recording began
  solo,       \* history: a script began it, and it alone has played since
  crowded     \* history: scripts pushed since the last frame, 2 if ever more than one

Rec == INSTANCE Record WITH Pads <- Inputs, Neutral <- NoInput, Word <- 256

recordVars  == <<isRecordActive, current, accumulator, input60, record60, nxTAS, doEmitFile, file,
                 refused, seen, inputs, nxLines, written>>
historyVars == <<asked, shown, plan, solo, crowded>>
controlVars == <<at, frameTime, hotkeyVars, recordVars, historyVars>>
allVars     == <<vars, controlVars>>

-----------------------------------------------------------------------------
(* Playback::applyCurrentInput: the player's input with the scheduled one.   *)
(* One stick axis stands for the four.                                       *)
Mixed(human, pad) ==
  CASE pad.mode = "vanilla" -> human
    [] pad.mode = "only"    -> pad.input
    [] pad.mode = "or"      ->
         [buttons |-> human.buttons \cup pad.input.buttons,
          stick   |-> IF human.stick # 0 THEN human.stick ELSE pad.input.stick]
    [] pad.mode = "xor"     ->
         [buttons |-> (human.buttons \cup pad.input.buttons)
                        \ (human.buttons \cap pad.input.buttons),
          stick   |-> IF pad.input.stick = 0 THEN human.stick
                      ELSE IF human.stick = 0 THEN pad.input.stick ELSE 0]

Injected(human) == IF active THEN Mixed(human, sched[sp].pad) ELSE human

-----------------------------------------------------------------------------
(* The parts of the state a step leaves alone *)
KeepStack    == UNCHANGED <<native, sp, playVars, advVars, delta, mod, sched, ctxVars, registry, envVars>>
KeepControls == UNCHANGED <<at, frameTime, recordVars>>

Pushed == /\ crowded' = IF crowded < 2 THEN crowded + 1 ELSE 2
          /\ solo' = FALSE

(* WebSocket::calc: a script sent by the frontend.  Nothing is paused here,   *)
(* so that it does not matter whether it blocks on a pause.                   *)
WebSocketPush ==
  /\ pc = "push" /\ at = "cooldown"
  /\ \E n \in Names : PushScript(n, FALSE, FALSE, "push")
  /\ Pushed
  /\ UNCHANGED <<advVars, delta, envVars, hotkeyVars, asked, shown, plan>> /\ KeepControls

(* hotkey::calc, in three steps.  It looks at the input of the last poll and *)
(* pushes the script of at most one button combination and one keyboard      *)
(* trigger, to be executed by the main loop without regard to DebugPause.    *)
HotkeyCooldown ==
  /\ pc = "push" /\ at = "cooldown" /\ at' = "buttons"
  /\ CalcCooldown
  /\ UNCHANGED <<vars, frameTime, recordVars, historyVars>>

HotkeyDispatch(i) ==
  \/ /\ ~Fires(i)
     /\ UNCHANGED <<vars, hotkeyVars, solo, crowded>>
  \/ /\ Fires(i)
     /\ Fire(i)
     /\ PushScript(bindings[i].script, FALSE, FALSE, "push")
     /\ Pushed
     /\ UNCHANGED <<advVars, delta, envVars>>

HotkeyButtons ==
  /\ pc = "push" /\ at = "buttons" /\ at' = "keyboard"
  /\ HotkeyDispatch(GetByButtons(current.buttons))
  /\ UNCHANGED <<frameTime, recordVars, asked, shown, plan>>

HotkeyKeyboard ==
  /\ pc = "push" /\ at = "keyboard" /\ at' = "loop"
  /\ \E pressed \in KeysPressed : HotkeyDispatch(GetByKeyboardState(pressed))
  /\ UNCHANGED <<frameTime, recordVars, asked, shown, plan>>

(* Playback::calc, with the scripts it runs *)
Playing(h) == [i \in Slots |-> IF sched'[i].ttl = 0 THEN 0 ELSE h[i]]
Playback ==
  /\ at = "loop"
  /\ HostPushDone \/ PlaybackCalc \/ CtxStep \/ SysReturn \/ ScriptReturn
  /\ asked' = Playing(asked) /\ shown' = Playing(shown)
  /\ solo' = (solo /\ mod' = mod)
  /\ plan' = IF solo' THEN plan ELSE <<>>
  /\ UNCHANGED <<hotkeyVars, crowded>> /\ KeepControls

ScriptInput ==
  /\ SetCurrentInput
  /\ asked' = [asked EXCEPT ![sp] = sched'[sp].ttl]
  /\ shown' = [shown EXCEPT ![sp] = 0]
  /\ plan' = IF solo
             THEN Append(plan, [pad |-> sched'[sp].pad, dur |-> sched'[sp].ttl]) ELSE plan
  /\ UNCHANGED <<hotkeyVars, solo, crowded>> /\ KeepControls

ScriptBind ==
  /\ ScriptCall("bind")
  /\ \/ \E t \in Triggers : (\E s \in Scripts : Bind(t, s)) \/ Unbind(t)
     \/ SetCooldown
  /\ KeepStack /\ KeepControls
  /\ UNCHANGED historyVars

ScriptRecord ==
  /\ ScriptCall("record")
  /\ Rec!BeginDump(FALSE, FALSE) \/ Rec!EndDump
  /\ plan' = <<>> /\ solo' = isRecordActive'
  /\ KeepStack
  /\ UNCHANGED <<at, frameTime, hotkeyVars, asked, shown, crowded>>

(* Record::calc, in the same frame after Playback::calc *)
RecordFrame ==
  /\ pc = "game" /\ at = "loop" /\ at' = "poll"
  /\ IF isRecordActive THEN Rec!Calc(frameTime) ELSE UNCHANGED recordVars
  /\ UNCHANGED <<vars, frameTime, hotkeyVars, historyVars>>

(* The game polls the pad: Record keeps the player's input, the scheduled    *)
(* input is mixed in, and if a script is playing Record keeps the result.    *)
PollIntoRecord(human) == current' = human
PolledIntoRecord(human) == current' = Injected(human)

Poll ==
  /\ pc = "game" /\ at = "poll" /\ at' = "render"
  /\ \E human \in Inputs : PolledIntoRecord(human)
  /\ UNCHANGED <<vars, frameTime, hotkeyVars, historyVars>>
  /\ UNCHANGED <<isRecordActive, accumulator, input60, record60, nxTAS, doEmitFile, file>>
  /\ UNCHANGED <<refused, seen, inputs, nxLines, written>>

(* A frame passes with what was polled. *)
Render ==
  /\ at = "render" /\ at' = "cooldown"
  /\ GameFrame
  /\ frameTime' = delta'
  /\ shown' = IF active THEN [shown EXCEPT ![sp] = @ + delta'] ELSE shown
  /\ solo' = (solo /\ active)
  /\ crowded' = IF crowded = 2 THEN 2 ELSE 0
  /\ UNCHANGED <<hotkeyVars, recordVars, asked, plan>>

ControlsInit ==
  /\ Init /\ HotkeyInit /\ Rec!Init
  /\ at = "cooldown" /\ frameTime = delta
  /\ asked = [i \in Slots |-> 0] /\ shown = [i \in Slots |-> 0]
  /\ plan = <<>> /\ solo = FALSE /\ crowded = 0

ControlsNext ==
  \/ WebSocketPush \/ HotkeyCooldown \/ HotkeyButtons \/ HotkeyKeyboard
  \/ Playback
  \/ at = "loop" /\ (ScriptInput \/ ScriptBind \/ ScriptRecord)
  \/ RecordFrame \/ Poll \/ Render

ControlsSpec == ControlsInit /\ [][ControlsNext]_allVars
=============================================================================
