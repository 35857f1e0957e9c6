----------------------------- MODULE ScriptStack -----------------------------
(***************************************************************************)
(* What the script scheduler promises, without pauses, inputs, contexts or *)
(* modules: a stack of cooperative scripts.  A new script goes on top of   *)
(* the others, only the script on top is ever started or resumed, a script *)
(* keeps running until it suspends itself or returns, and an abort loses   *)
(* all of them at once.  Module Schedule implements it.                    *)
(***************************************************************************)
EXTENDS Integers, Sequences

VARIABLE frames   \* the scripts, bottom first: "queued", "running" or "waiting"

Init == frames = <<>>

Top == Len(frames)

Push == frames' = Append(frames, "queued")

Resume ==
  /\ Top > 0 /\ frames[Top] \in {"queued", "waiting"}
  /\ frames' = [frames EXCEPT ![Top] = "running"]

(* A script that has pushed others inside its own run suspends after them. *)
Suspend ==
  \E i \in 1 .. Top :
    /\ frames[i] = "running"
    /\ \A j \in i + 1 .. Top : frames[j] # "running"
    /\ frames' = [frames EXCEPT ![i] = "waiting"]

Finish ==
  /\ Top > 0 /\ frames[Top] = "running"
  /\ frames' = SubSeq(frames, 1, Top - 1)

Abort == frames' = <<>>

Next == Push \/ Resume \/ Suspend \/ Finish \/ Abort

Spec == Init /\ [][Next]_frames
=============================================================================
