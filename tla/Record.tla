-------------------------------- MODULE Record --------------------------------
(***************************************************************************)
(* Recording the controller (tas/Record.cpp): the pad's input is sampled   *)
(* once per frame, held inputs are accumulated into one line with their    *)
(* duration, and lines are emitted as tas::input calls or, in the nx-TAS   *)
(* format, one per frame.  Durations are counted in half-frames of 30fps.  *)
(*                                                                         *)
(* NxSigned, NxFromNext, NeverReset and AppendFirst are deliberately       *)
(* faulty forms of the definitions that follow them.                       *)
(***************************************************************************)
EXTENDS Integers, Sequences

CONSTANTS
  Pads, Neutral,  \* controller inputs; nothing pressed
  Deltas,         \* frame times the game renders with, in half-frames
  Word,           \* u32 counts modulo this (2^32 in the code)
  MaxFrames       \* bound: frames of a recording

ASSUME InputAssumption == Neutral \in Pads
ASSUME FrameAssumption == /\ Deltas \subseteq Nat \ {0, 1} /\ Word \in Nat \ {0} /\ MaxFrames \in Nat
                          /\ \A d \in Deltas : MaxFrames * d < Word

VARIABLES
  isRecordActive,
  current,      \* currentInput
  accumulator,  \* accumulatorInput
  input60,      \* accumulatedInput60
  record60,     \* accumulatedRecord60
  nxTAS,        \* useFormat_nxTASAll
  doEmitFile,
  file,         \* useEmitLocalFileFd: "open" or "closed"
  written,      \* the inputs or nx-TAS lines of this recording in the file behind it
  refused,      \* history: the file of this recording could not be opened
  seen,         \* history: what was held in each frame of this recording, how long
  inputs,       \* history: the inputs emitted, with their durations in frames of 30fps
  nxLines       \* history: the nx-TAS lines emitted

accumVars == <<accumulator, input60, record60>>
fileVars  == <<nxTAS, doEmitFile, file, refused>>
emitted   == <<inputs, nxLines, written>>
vars == <<isRecordActive, current, accumVars, fileVars, emitted, seen>>

LogicalFrames(t60) == t60 \div 2     \* FPS30_2X

-----------------------------------------------------------------------------
NxSigned(pad, dur60, end60) ==
  LET last == LogicalFrames(end60) - 1
  IN  [k \in 1 .. LogicalFrames(dur60) |-> [fr |-> last - LogicalFrames(dur60) + k - 1, pad |-> pad]]

NxFromNext(pad, dur60, end60) ==
  LET last == LogicalFrames(end60)
  IN  [k \in 1 .. LogicalFrames(dur60) |-> [fr |-> last - LogicalFrames(dur60) + k - 1, pad |-> pad]]

(* emitCompletedInput in the nx-TAS format: "one line per frame, un-accumulated", *)
(* from frame label to frame label, both of them u32.                             *)
NxEmitted(pad, dur60, end60) ==
  LET fr   == (LogicalFrames(end60) - LogicalFrames(dur60) - 1) % Word
      last == (LogicalFrames(end60) - 1) % Word
  IN  [k \in 1 .. last - fr |-> [fr |-> fr + k - 1, pad |-> pad]]

(* emitInputImpl: a chunk goes to the file of the recording, and is lost if *)
(* that file is not open.                                                   *)
WriteChunk(chunk) ==
  written' = IF doEmitFile /\ file = "open" THEN written \o chunk ELSE written

(* emitCompletedInput, with record60' known: the duration is rounded down to *)
(* frames of 30fps.                                                          *)
EmitCompletedInput(pad, dur60) ==
  LET line  == [pad |-> pad, dur |-> LogicalFrames(dur60)]
      lines == NxEmitted(pad, dur60, record60')
  IN  /\ inputs' = Append(inputs, line)
      /\ nxLines' = IF nxTAS THEN nxLines \o lines ELSE nxLines
      /\ WriteChunk(IF nxTAS THEN lines ELSE <<line>>)

(* calcCompletedInput.  An input of no duration, like the one left over from *)
(* an earlier recording, is not emitted.                                     *)
CompletedInput(remainder60) ==
  /\ accumulator' = current
  /\ input60' = remainder60
  /\ IF input60 = 0 THEN UNCHANGED emitted ELSE EmitCompletedInput(accumulator, input60)

StillHeld(delta60) ==
  /\ current = accumulator
  /\ input60' = input60 + delta60
  /\ UNCHANGED <<accumulator, emitted>>

Changed(delta60) == current # accumulator /\ CompletedInput(delta60)

(* Record::calc, in a frame of a recording *)
Calc(delta60) ==
  /\ isRecordActive /\ Len(seen) < MaxFrames
  /\ record60' = record60 + delta60
  /\ seen' = Append(seen, [pad |-> current, dur |-> delta60])
  /\ StillHeld(delta60) \/ Changed(delta60)
  /\ UNCHANGED <<isRecordActive, current, fileVars>>

-----------------------------------------------------------------------------
NeverReset == record60' = 0 /\ UNCHANGED input60
ResetTimes == record60' = 0 /\ input60' = 0

(* The first chunk creates, opens and truncates the file; whether that was   *)
(* possible is not looked at.                                                *)
AppendFirst(toFile) == refused' = FALSE /\ UNCHANGED <<file, written>>

OpenFile(toFile) ==
  /\ written' = <<>>
  /\ \/ toFile /\ file' = "open" /\ refused' = FALSE
     \/ UNCHANGED file /\ refused' = toFile

(* beginDumpImpl, with the format and the sink of this recording, which may  *)
(* begin over another                                                        *)
BeginDump(nx, toFile) ==
  /\ ResetTimes
  /\ isRecordActive' = TRUE
  /\ nxTAS' = nx /\ doEmitFile' = toFile
  /\ OpenFile(toFile)
  /\ seen' = <<>> /\ inputs' = <<>> /\ nxLines' = <<>>
  /\ UNCHANGED <<current, accumulator>>

(* beginFileDump, beginFileDumpNXTas, beginLoggerDump, beginLoggerDumpNXTas *)
BeginPreset == \E nx, toFile \in BOOLEAN : BeginDump(nx, toFile)

(* endDump emits the last input and, with the footer, closes the file, also *)
(* where no recording is active.                                            *)
EndDump ==
  /\ isRecordActive' = FALSE
  /\ UNCHANGED record60
  /\ CompletedInput(0)
  /\ file' = IF doEmitFile THEN "closed" ELSE file
  /\ UNCHANGED <<current, nxTAS, doEmitFile, refused, seen>>

(* toggleDump: the settings of the recording before are used again. *)
ToggleDump == IF isRecordActive THEN EndDump ELSE BeginDump(nxTAS, doEmitFile)

(* applyCurrentInput, from the controller or from a script's input, any    *)
(* number of times per frame                                               *)
ApplyCurrentInput ==
  /\ current' \in Pads
  /\ UNCHANGED <<isRecordActive, accumVars, fileVars, emitted, seen>>

Init ==
  /\ isRecordActive = FALSE
  /\ current = Neutral /\ accumulator = Neutral
  /\ input60 = 0 /\ record60 = 0
  /\ nxTAS = FALSE /\ doEmitFile = FALSE /\ file = "closed" /\ refused = FALSE
  /\ seen = <<>> /\ inputs = <<>> /\ nxLines = <<>> /\ written = <<>>

Next ==
  \/ \E d \in Deltas : Calc(d)
  \/ BeginPreset \/ EndDump \/ ToggleDump
  \/ ApplyCurrentInput

Spec == Init /\ [][Next]_vars
=============================================================================
