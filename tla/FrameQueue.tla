----------------------------- MODULE FrameQueue ------------------------------
(***************************************************************************)
(* What the text writer promises: what was accepted for a list since the   *)
(* last frame is shown in the next frame, once, in the order in which it   *)
(* was accepted, and every frame comes.  That a text is not accepted is    *)
(* not a step.  Module TextWriter implements it.  shown is the frame until  *)
(* it leaves the screen.                                                   *)
(***************************************************************************)
EXTENDS Sequences

CONSTANTS Lists, Entries

VARIABLES queue, shown

Nothing == [i \in Lists |-> <<>>]

Init == queue = Nothing /\ shown = Nothing

Accept(i, e) == queue' = [queue EXCEPT ![i] = Append(@, e)] /\ UNCHANGED shown

Show == shown' = queue /\ queue' = Nothing

Clear == shown' = Nothing /\ UNCHANGED queue

Next == Show \/ Clear \/ \E i \in Lists, e \in Entries : Accept(i, e)

Safety == Init /\ [][Next]_<<queue, shown>>

Spec == Safety /\ WF_<<queue, shown>>(Show)
=============================================================================
