------------------------------ MODULE Transpile ------------------------------
(***************************************************************************)
(* Executing an nx-TAS file (transpileImpl_nxtas_to_as,                    *)
(* script/schedule.cpp): the file, one line per frame, becomes a script of *)
(* input calls with durations, in a buffer of limited size.  A line is its *)
(* input; frame labels and blank lines are skipped by the code, and the    *)
(* text of a call takes one unit of room.                                  *)
(*                                                                         *)
(* EmittedShort, CollectedNext and CollectedAlways are deliberately faulty *)
(* forms of the definitions that follow them.                              *)
(***************************************************************************)
EXTENDS Integers, SequencesExt

(* What the loop has accumulated: the input and its duration, the calls     *)
(* written, the room they take with the one that did not fit, if any.       *)
Nothing(pad) == [pad |-> pad, dur |-> 0, calls |-> <<>>, dstn |-> 0]

(* A call that does not fit is counted all the same, so that none after it  *)
(* fits either.                                                             *)
EmittedShort(acc, limit) ==
  [acc EXCEPT !.dstn = @ + 1,
              !.calls = IF acc.dstn + 1 > limit THEN @
                        ELSE Append(@, [pad |-> acc.pad, dur |-> acc.dur - 1])]
Emitted(acc, limit) ==
  [acc EXCEPT !.dstn = @ + 1,
              !.calls = IF acc.dstn + 1 > limit THEN @
                        ELSE Append(@, [pad |-> acc.pad, dur |-> acc.dur])]

(* One line of the file.  The duration is counted up before the line is     *)
(* compared, so that a call also counts the first line that differs.        *)
CollectedNext(acc, line, limit) ==
  LET counted == [acc EXCEPT !.dur = @ + 1]
  IN  IF acc.dstn > limit THEN acc
      ELSE IF line = acc.pad THEN counted
      ELSE [Emitted([counted EXCEPT !.pad = line], limit) EXCEPT !.dur = 1]

CollectedAlways(acc, line, limit) ==
  LET counted == [acc EXCEPT !.dur = @ + 1]
  IN  IF acc.dstn > limit THEN acc
      ELSE IF acc.dur = 0 THEN [counted EXCEPT !.pad = line]
      ELSE [Emitted(counted, limit) EXCEPT !.dur = 1, !.pad = line]

Collected(acc, line, limit) ==
  LET counted == [acc EXCEPT !.dur = @ + 1]
  IN  IF acc.dstn > limit THEN acc
      ELSE IF acc.dur = 0 THEN [counted EXCEPT !.pad = line]
      ELSE IF line = acc.pad THEN counted
      ELSE LET out == Emitted(counted, limit)
           IN  IF out.dstn > limit THEN out ELSE [out EXCEPT !.dur = 1, !.pad = line]

(* The calls an nx-TAS file is converted to, if limit of them fit *)
Transpiled(lines, neutral, limit) ==
  LET acc == FoldLeft(LAMBDA a, line : Collected(a, line, limit), Nothing(neutral), lines)
  IN  IF acc.dur = 0 THEN <<>> ELSE Emitted(acc, limit).calls
=============================================================================
