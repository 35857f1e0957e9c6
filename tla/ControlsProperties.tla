-------------------------- MODULE ControlsProperties --------------------------
(* What hotkeys, scheduled input and the recording promise together.         *)
EXTENDS Controls

(* "wait before retriggering hotkeys" (hotkey.as:11): however long a trigger *)
(* is held, and whether a button or a key brings it about, its script is not *)
(* started again before the cooldown that was set when it was started, or    *)
(* until the trigger is bound anew.                                          *)
CooldownHonoured == ~early

(* A combination, or a list of keys, starts one script at most: no two slots *)
(* hold the same trigger ("unbind" finds them all).                          *)
UniqueTrigger ==
  \A i, j \in Hotkeys :
    bindings[i].trigger = bindings[j].trigger => i = j \/ bindings[i].trigger = NoTrigger

(* "remaining 30fps half-frames to apply scheduled TAS input"                *)
(* (schedule.hpp:41): when the input of a script runs out, the game has seen *)
(* it for as long as the script asked, up to the remainder of a frame,       *)
(* whatever hotkeys and the frontend started in between, unless two scripts  *)
(* were started in one frame.  tas.as:46 says that such an interruption      *)
(* overwrites the timers, for all files share them; they are kept for each   *)
(* frame of the stack (schedule.hpp:60).                                     *)
InputPlayedInFull ==
  [][\A i \in Slots :
       /\ sched[i].ttl > 0 /\ sched'[i].ttl = 0
       /\ mod'[i] = mod[i] /\ pc = "enter" /\ crowded < 2
       => \E d \in Deltas : 0 <= shown[i] - asked[i] /\ shown[i] - asked[i] < d]_allVars

(* What a sequence of inputs holds the pad at in each half-frame. *)
HalfFrames(s) ==
  LET upTo[k \in 0 .. Len(s)] ==
        IF k = 0 THEN <<>> ELSE upTo[k - 1] \o [j \in 1 .. s[k].dur |-> s[k].pad]
  IN  upTo[Len(s)]

(* The inputs of a recording as tas::input would play them: setCurrentInput  *)
(* doubles their durations.                                                  *)
Replayed(s) == [k \in 1 .. Len(s) |-> [pad |-> s[k].pad, dur |-> 2 * s[k].dur]]

(* "inject mutated states back into record, so we can re-log final inputs    *)
(* during playback" (main.cpp:142): a script that records what it plays gets *)
(* its inputs one frame late, with their durations, and as much of them as   *)
(* it has played, provided that it runs alone at a steady 30fps, the frame   *)
(* under way included.  That they lag is what main.cpp:143 fears; it also    *)
(* fears, and src/README.md:27 asks, that each is a frame longer.            *)
RecordingLagsOneFrame ==
  LET recorded == HalfFrames(Append(Replayed(inputs), [pad |-> accumulator, dur |-> input60]))
      played   == HalfFrames(plan)
  IN  /\ isRecordActive /\ solo /\ pc = "script"
      /\ frameTime = 2 /\ \A k \in 1 .. Len(seen) : seen[k].dur = 2
      => /\ Len(recorded) = Len(played)
         /\ \A k \in 3 .. Len(recorded) :
              played[k - 2].mode = "only" => recorded[k] = played[k - 2].input
=============================================================================
