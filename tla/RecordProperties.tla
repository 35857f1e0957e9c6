-------------------------- MODULE RecordProperties --------------------------
(* What a recording of module Record promises, and what becomes of it when   *)
(* the nx-TAS lines are executed (module Transpile).                         *)
EXTENDS Record, Transpile

(* What was held, one after the other and for how many half-frames; as        *)
(* input calls, in whole frames of 30fps                                      *)
Merged(runs, held) ==
  IF runs # <<>> /\ runs[Len(runs)].pad = held.pad
  THEN [runs EXCEPT ![Len(runs)] = [pad |-> held.pad, dur |-> @.dur + held.dur]]
  ELSE Append(runs, held)
Runs(s) ==
  LET runs[n \in 0 .. Len(s)] == IF n = 0 THEN <<>> ELSE Merged(runs[n - 1], s[n])
  IN  runs[Len(s)]

Rounded(runs) ==
  [k \in 1 .. Len(runs) |-> [pad |-> runs[k].pad, dur |-> LogicalFrames(runs[k].dur)]]

(* "held inputs are accumulated into a single tas::input(framecount) line"   *)
(* (Record.hpp:28): each input of a recording that ended is emitted once, in *)
(* order and for as long as it was held, up to the half-frame that rounding  *)
(* drops; while the recording is active, all of them but the last are, and   *)
(* that one is accumulated exactly, whatever an earlier recording left over. *)
RecordsWhatWasHeld ==
  LET runs == Runs(seen)
  IN  IF isRecordActive /\ seen # <<>>
      THEN /\ inputs = Rounded(Front(runs))
           /\ Last(runs) = [pad |-> accumulator, dur |-> input60]
      ELSE inputs = Rounded(runs)

(* The invariant behind it: only a recording that has begun has time         *)
(* accumulated.                                                              *)
HeldInv ==
  /\ RecordsWhatWasHeld
  /\ input60 = 0 <=> ~isRecordActive \/ seen = <<>>

(* Unless it could not be opened, the file of a recording holds what was      *)
(* emitted and nothing of an earlier one, and it is closed only after the     *)
(* last input ("close codegen block/footers, flush+close file",               *)
(* Record.hpp:62), in whatever order recordings are begun, also over each     *)
(* other, toggled and ended, also where none is active.                       *)
FileHoldsRecording ==
  doEmitFile /\ ~refused =>
    /\ written = IF nxTAS THEN nxLines ELSE inputs
    /\ isRecordActive => file = "open"

(* At a steady 30fps the nx-TAS lines of a recording that is still active    *)
(* name the frames in which their input was held, each frame once.           *)
Steady == \A k \in 1 .. Len(seen) : seen[k].dur = 2
NxLabelsRight ==
  isRecordActive /\ Steady =>
    \A k \in 1 .. Len(nxLines) :
      /\ nxLines[k].fr = k - 1
      /\ nxLines[k].pad = seen[k].pad

(* The invariant behind it: what was emitted and what is still accumulated    *)
(* make up the time of the recording, and the pad that is accumulated was     *)
(* held in every frame that has no line yet.                                  *)
NxInv ==
  isRecordActive /\ Steady =>
    /\ record60 = 2 * Len(seen) /\ Len(seen) <= MaxFrames
    /\ IF nxTAS
       THEN /\ record60 = 2 * Len(nxLines) + input60
            /\ \A k \in Len(nxLines) + 1 .. Len(seen) : seen[k].pad = accumulator
       ELSE nxLines = <<>>
    /\ NxLabelsRight

(* The nx-TAS lines of a recording as a file to execute, and the run of equal *)
(* lines that a line is in, counted from one; how many lines up to n a run    *)
(* has.                                                                       *)
NxFile == [k \in 1 .. Len(nxLines) |-> nxLines[k].pad]

Begins(lines, k)   == k = 1 \/ lines[k] # lines[k - 1]
Run(lines, k)      == Cardinality({j \in 1 .. k : Begins(lines, j)})
Lasts(lines, n, c) == Cardinality({k \in 1 .. n : Run(lines, k) = c})

(* Executed, an nx-TAS recording plays its inputs in order, each of them     *)
(* once and for as long as it was held or one frame longer; if the script    *)
(* buffer is too short, inputs are missing at the end and nowhere else.      *)
PlaysRuns(calls, lines, limit) ==
  LET n    == Len(lines)
      runs == Run(lines, n)
  IN  /\ Len(calls) = IF limit < runs THEN limit ELSE runs
      /\ \A k \in 1 .. n : Run(lines, k) <= Len(calls) => calls[Run(lines, k)].pad = lines[k]
      /\ \A c \in 1 .. Len(calls) : calls[c].dur \in Lasts(lines, n, c) .. Lasts(lines, n, c) + 1

TranspiledInOrder ==
  \A limit \in 0 .. MaxFrames : PlaysRuns(Transpiled(NxFile, Neutral, limit), NxFile, limit)
=============================================================================
