-------------------------------- MODULE Hotkey --------------------------------
(***************************************************************************)
(* Hotkeys (script/hotkey.cpp): scripts bound to button combinations or to *)
(* keys of a keyboard, looked for once per frame.                          *)
(*                                                                         *)
(* CooldownForgotten and BindTwice are deliberately faulty forms of the    *)
(* definitions that follow them.                                           *)
(***************************************************************************)
EXTENDS Integers, Sequences

CONSTANTS
  MaxHotkeys,  \* MAX_HOTKEYS (12)
  Triggers,    \* what scripts bind: button combinations and lists of keys
  NoTrigger,   \* bindType 0
  Scripts,     \* what they bind it to
  Cooldowns    \* cooldownFrames, 15 unless a script calls setCooldown

(* A trigger is a set of buttons or a sequence of keys, of which the other   *)
(* is empty, as it is packed into HotkeyBinding::buttons.                    *)
ASSUME TriggerAssumption ==
  /\ NoTrigger \notin Triggers
  /\ \A t \in Triggers : t.kind \in {"buttons", "keyboard"}
ASSUME CooldownAssumption == Cooldowns \subseteq 0 .. 255 /\ MaxHotkeys \in Nat

VARIABLES
  bindings,        \* trigger, script and bindCooldownRemaining of each slot
  cooldownFrames,
  rest,            \* history: calcs that have yet to pass before a trigger may fire again
  early            \* history: one fired before

hotkeyVars == <<bindings, cooldownFrames, rest, early>>

Hotkeys == 1 .. MaxHotkeys
Unassigned == [trigger |-> NoTrigger, script |-> NoTrigger, remaining |-> 0]

(* The first slot of a set of them, 0 (a null pointer) if there is none *)
First(slots) == IF slots = {} THEN 0 ELSE CHOOSE i \in slots : \A j \in slots : i <= j

GetUnassigned(b)    == First({i \in Hotkeys : b[i].trigger = NoTrigger})
GetByTrigger(b, t)  == First({i \in Hotkeys : b[i].trigger = t})

(* getByButtons: exactly this combination *)
GetByButtons(buttons) ==
  First({i \in Hotkeys : /\ bindings[i].trigger # NoTrigger
                         /\ bindings[i].trigger.kind = "buttons"
                         /\ bindings[i].trigger.buttons = buttons})

(* getByKeyboardState: all keys of the trigger, whatever else is pressed *)
AllKeys(keys, pressed) == \A k \in 1 .. Len(keys) : keys[k] \in pressed
GetByKeyboardState(pressed) ==
  First({i \in Hotkeys : /\ bindings[i].trigger # NoTrigger
                         /\ bindings[i].trigger.kind = "keyboard"
                         /\ bindings[i].trigger.keys # <<>>
                         /\ AllKeys(bindings[i].trigger.keys, pressed)})

-----------------------------------------------------------------------------
Unassign(b, i) == [j \in Hotkeys |-> IF j = i THEN Unassigned ELSE b[j]]

(* bindButtonsExecFile and its siblings: what the trigger was bound to is    *)
(* unbound, then the first free slot is taken, if there is one.              *)
BindTwice(t, script) ==
  LET i == GetUnassigned(bindings)
  IN  /\ bindings' = [j \in Hotkeys |->
                        IF j = i THEN [bindings[j] EXCEPT !.trigger = t, !.script = script]
                        ELSE bindings[j]]
      /\ rest' = [rest EXCEPT ![t] = 0]
      /\ UNCHANGED <<cooldownFrames, early>>

Bind(t, script) ==
  LET freed == Unassign(bindings, GetByTrigger(bindings, t))
      i     == GetUnassigned(freed)
  IN  /\ bindings' = [j \in Hotkeys |->
                        IF j = i THEN [freed[j] EXCEPT !.trigger = t, !.script = script]
                        ELSE freed[j]]
      /\ rest' = [rest EXCEPT ![t] = 0]
      /\ UNCHANGED <<cooldownFrames, early>>

(* unbindButtons, unbindKeyboard *)
Unbind(t) ==
  /\ bindings' = Unassign(bindings, GetByTrigger(bindings, t))
  /\ rest' = [rest EXCEPT ![t] = 0]
  /\ UNCHANGED <<cooldownFrames, early>>

SetCooldown ==
  /\ cooldownFrames' \in Cooldowns
  /\ UNCHANGED <<bindings, rest, early>>

-----------------------------------------------------------------------------
(* calcCooldown *)
Cooled(n) == IF n > 0 THEN n - 1 ELSE 0
CalcCooldown ==
  /\ bindings' = [i \in Hotkeys |->
                    IF bindings[i].trigger # NoTrigger
                    THEN [bindings[i] EXCEPT !.remaining = Cooled(@)] ELSE bindings[i]]
  /\ rest' = [t \in Triggers |-> Cooled(rest[t])]
  /\ UNCHANGED <<cooldownFrames, early>>

(* calcDispatch: the slot found fires, unless it is on cooldown. *)
Fires(i) == i # 0 /\ bindings[i].remaining = 0
CooldownForgotten(i) == UNCHANGED bindings
BeginCooldown(i)     == bindings' = [bindings EXCEPT ![i].remaining = cooldownFrames]

Fire(i) ==
  /\ BeginCooldown(i)
  /\ rest' = [rest EXCEPT ![bindings[i].trigger] = cooldownFrames]
  /\ early' = (early \/ rest[bindings[i].trigger] > 0)
  /\ UNCHANGED cooldownFrames

HotkeyInit ==
  /\ bindings = [i \in Hotkeys |-> Unassigned]
  /\ cooldownFrames \in Cooldowns
  /\ rest = [t \in Triggers |-> 0] /\ early = FALSE
=============================================================================
