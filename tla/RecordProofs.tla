----------------------------- MODULE RecordProofs -----------------------------
(***************************************************************************)
(* What is proved about the recording of module Record.                    *)
(***************************************************************************)
EXTENDS RecordProperties, FiniteSetTheorems, SequenceTheorems, WellFoundedInduction, TLAPS

(* The labels of the nx-TAS lines *)

Held    == [pad : Pads, dur : Nat]
NxLine  == [fr : Int, pad : Pads]
PadType == /\ isRecordActive \in BOOLEAN /\ nxTAS \in BOOLEAN /\ doEmitFile \in BOOLEAN
           /\ current \in Pads /\ accumulator \in Pads /\ input60 \in Nat
           /\ seen \in Seq(Held) /\ inputs \in Seq(Held)

(* The same with the type of the lines, which matters as long as they are     *)
(* labelled frame by frame.                                                   *)
NxTyped == PadType /\ NxInv /\ (isRecordActive /\ Steady => nxLines \in Seq(NxLine))

(* The flags, pads and counters of a recording have their types at first. *)
LEMMA InitPadType == Init => PadType
<1> SUFFICES ASSUME Init PROVE PadType
  OBVIOUS
<1>1. seen \in Seq(Held) /\ inputs \in Seq(Held) /\ input60 \in Nat
  BY DEF Init
<1> QED  BY <1>1, InputAssumption DEF Init, PadType

(* Completing an input does not take them out of their types. *)
LEMMA CompletedType ==
  ASSUME PadType, NEW rest \in Nat, CompletedInput(rest)
  PROVE  input60' \in Nat /\ accumulator' \in Pads /\ inputs' \in Seq(Held)
<1>1. [pad |-> accumulator, dur |-> LogicalFrames(input60)] \in Held
  BY DEF PadType, Held, LogicalFrames
<1>2. inputs' = inputs \/ inputs' = Append(inputs, [pad |-> accumulator, dur |-> LogicalFrames(input60)])
  BY DEF CompletedInput, EmitCompletedInput, emitted
<1> QED  BY <1>1, <1>2 DEF CompletedInput, PadType

(* No call of a recording takes them out of their types. *)
LEMMA PadTypeStep == PadType /\ [Next]_vars => PadType'
<1> SUFFICES ASSUME PadType, [Next]_vars PROVE PadType'
  OBVIOUS
<1>1. ASSUME NEW d \in Deltas, Calc(d) PROVE PadType'
  <2>1. d \in Nat /\ [pad |-> current, dur |-> d] \in Held
    BY FrameAssumption DEF Held, PadType
  <2>2. seen' \in Seq(Held)
    BY <1>1, <2>1 DEF Calc, PadType
  <2>3. input60' \in Nat /\ accumulator' \in Pads /\ inputs' \in Seq(Held)
    BY <1>1, <2>1, CompletedType DEF Calc, StillHeld, Changed, emitted, PadType
  <2> QED  BY <1>1, <2>2, <2>3 DEF Calc, fileVars, PadType
<1>2. ASSUME NEW nx \in BOOLEAN, NEW toFile \in BOOLEAN, BeginDump(nx, toFile) PROVE PadType'
  BY <1>2 DEF BeginDump, ResetTimes, PadType
<1>3. CASE EndDump
  <2>1. input60' \in Nat /\ accumulator' \in Pads /\ inputs' \in Seq(Held)
    BY <1>3, CompletedType DEF EndDump
  <2> QED  BY <1>3, <2>1 DEF EndDump, PadType
<1>4. CASE ApplyCurrentInput
  BY <1>4 DEF ApplyCurrentInput, accumVars, fileVars, emitted, PadType
<1>5. CASE UNCHANGED vars  BY <1>5 DEF vars, accumVars, fileVars, emitted, PadType
<1> QED  BY <1>1, <1>2, <1>3, <1>4, <1>5 DEF Next, BeginPreset, ToggleDump, PadType

(* At 30fps, the lines of an input that was held in the last m of n frames,   *)
(* emitted in the frame after them, are labelled with those frames.           *)
LEMMA NxEmittedLabels ==
  ASSUME NEW pad \in Pads, NEW m \in Nat, NEW n \in Nat, m <= n, n + 1 < Word
  PROVE  NxEmitted(pad, 2 * m, 2 * (n + 1)) = [k \in 1 .. m |-> [fr |-> n - m + k - 1, pad |-> pad]]
<1>1. LogicalFrames(2 * (n + 1)) = n + 1 /\ LogicalFrames(2 * m) = m
  BY DEF LogicalFrames
<1>2. \A x \in 0 .. Word - 1 : x % Word = x
  BY FrameAssumption
<1>3. (n + 1 - m - 1) % Word = n - m /\ (n + 1 - 1) % Word = n
  BY <1>2, FrameAssumption
<1>4. n - (n - m) = m
  OBVIOUS
<1> QED  BY <1>1, <1>3, <1>4 DEF NxEmitted

(* One more frame of a recording at 30fps. *)
LEMMA CalcKeepsLabels ==
  ASSUME NxTyped, NEW d \in Deltas, Calc(d), Steady'
  PROVE  NxInv' /\ nxLines' \in Seq(NxLine)
<1> DEFINE n == Len(seen)
<1>1. /\ isRecordActive /\ seen \in Seq(Held) /\ n \in Nat /\ n < MaxFrames
      /\ seen' = Append(seen, [pad |-> current, dur |-> d])
      /\ record60' = record60 + d /\ UNCHANGED <<isRecordActive, current, nxTAS>>
  BY DEF NxTyped, PadType, Calc, fileVars
<1>2. /\ Len(seen') = n + 1 /\ seen'[n + 1].pad = current /\ seen'[n + 1].dur = d
      /\ \A k \in 1 .. n : seen'[k] = seen[k]
  BY <1>1
<1>3. d = 2 /\ Steady
  BY <1>1, <1>2 DEF Steady
<1>4. n + 1 < Word /\ n + 1 <= MaxFrames
  BY <1>1, <1>3, FrameAssumption
<1>5. /\ record60 = 2 * n /\ nxLines \in Seq(NxLine) /\ NxLabelsRight
      /\ IF nxTAS
         THEN /\ record60 = 2 * Len(nxLines) + input60
              /\ \A k \in Len(nxLines) + 1 .. n : seen[k].pad = accumulator
         ELSE nxLines = <<>>
  BY <1>1, <1>3 DEF NxTyped, NxInv
<1>6. /\ Len(nxLines) \in Nat
      /\ \A k \in 1 .. Len(nxLines) : nxLines[k].fr = k - 1 /\ nxLines[k].pad = seen[k].pad
  BY <1>1, <1>3, <1>5 DEF NxLabelsRight
<1>7. record60' = 2 * (n + 1)
  BY <1>1, <1>3, <1>5
<1> HIDE DEF n
<1>8. CASE ~nxTAS
  <2>1. nxLines' = <<>>
    BY <1>1, <1>3, <1>5, <1>8 DEF Calc, StillHeld, Changed, CompletedInput, EmitCompletedInput, emitted
  <2> QED  BY <1>1, <1>2, <1>4, <1>7, <1>8, <2>1 DEF NxInv, NxLabelsRight
<1>9. CASE nxTAS
  <2> DEFINE m == n - Len(nxLines)
  <2>1. input60 = 2 * m /\ m \in Nat /\ m <= n /\ Len(nxLines) = n - m /\ n \in Nat
        /\ Len(nxLines) \in Nat
    <3>1. input60 \in Nat
      BY DEF NxTyped, PadType
    <3>2. n \in Nat /\ Len(nxLines) \in Nat
      BY <1>1, <1>6, Zenon
    <3>3. record60 = 2 * n /\ record60 = 2 * Len(nxLines) + input60
      BY <1>5, <1>9, Zenon
    <3> QED  BY <3>1, <3>2, <3>3
  <2> HIDE DEF m
  <2>2. CASE nxLines' = nxLines /\ accumulator' = current /\ input60' = input60 + 2
             /\ (m = 0 \/ current = accumulator)
    <3>1. \A k \in Len(nxLines) + 1 .. n + 1 : seen'[k].pad = current
      <4>. SUFFICES ASSUME NEW k \in Len(nxLines) + 1 .. n + 1 PROVE seen'[k].pad = current
        OBVIOUS
      <4>1. CASE k = n + 1
        BY <1>2, <4>1
      <4>2. CASE k # n + 1
        <5>1. k \in Len(nxLines) + 1 .. n /\ k \in 1 .. n /\ m # 0
          BY <2>1, <4>2
        <5>. QED  BY <1>2, <1>5, <1>9, <2>2, <5>1
      <4>. QED  BY <4>1, <4>2
    <3>2. \A k \in 1 .. Len(nxLines) : seen'[k] = seen[k]
      BY <1>1, <1>2, <1>6, <2>1
    <3>3. NxLabelsRight'
      BY <1>6, <2>2, <3>2 DEF NxLabelsRight
    <3>4. record60' = 2 * Len(nxLines) + input60'
      BY <1>7, <2>1, <2>2
    <3> QED  BY <1>1, <1>2, <1>4, <1>5, <1>7, <1>9, <2>2, <3>1, <3>3, <3>4 DEF NxInv
  <2>3. CASE nxLines' = nxLines \o NxEmitted(accumulator, input60, record60')
             /\ accumulator' = current /\ input60' = 2
    <3> DEFINE lines == [k \in 1 .. m |-> [fr |-> n - m + k - 1, pad |-> accumulator]]
    <3>1. accumulator \in Pads
      BY DEF NxTyped, PadType
    <3>2. nxLines' = nxLines \o lines
      <4>1. NxEmitted(accumulator, 2 * m, 2 * (n + 1)) = lines
        BY <1>4, <2>1, <3>1, NxEmittedLabels
      <4> QED  BY <1>7, <2>1, <2>3, <4>1
    <3>3. lines \in Seq(NxLine) /\ Len(lines) = m /\ \A k \in 1 .. m :
            lines[k].fr = n - m + k - 1 /\ lines[k].pad = accumulator
      <4>1. \A k \in 1 .. m : [fr |-> n - m + k - 1, pad |-> accumulator] \in NxLine
        BY <1>1, <2>1, <3>1 DEF NxLine
      <4>2. lines \in [1 .. m -> NxLine]
        BY <4>1
      <4>3. \A k \in 1 .. m : lines[k].fr = n - m + k - 1 /\ lines[k].pad = accumulator
        OBVIOUS
      <4> HIDE DEF lines
      <4>4. lines \in Seq(NxLine) /\ Len(lines) = m
        BY <2>1, <4>2
      <4> QED  BY <4>3, <4>4
    <3> HIDE DEF lines
    <3>4. /\ nxLines' \in Seq(NxLine) /\ Len(nxLines') = Len(nxLines) + m
          /\ \A k \in 1 .. Len(nxLines) + m :
               nxLines'[k] = IF k <= Len(nxLines) THEN nxLines[k] ELSE lines[k - Len(nxLines)]
      <4>1. /\ nxLines \o lines \in Seq(NxLine) /\ Len(nxLines \o lines) = Len(nxLines) + Len(lines)
            /\ \A k \in 1 .. Len(nxLines) + Len(lines) :
                 (nxLines \o lines)[k] = IF k <= Len(nxLines) THEN nxLines[k] ELSE lines[k - Len(nxLines)]
        <5>1. nxLines \in Seq(NxLine) /\ lines \in Seq(NxLine)
          BY <1>5, <3>3
        <5> QED  BY <5>1, ConcatProperties
      <4>2. Len(lines) = m
        BY <3>3
      <4> QED  BY <3>2, <4>1, <4>2
    <3>5. Len(nxLines') = n
      BY <2>1, <3>4
    <3>6. ASSUME NEW k \in 1 .. n
          PROVE  nxLines'[k].fr = k - 1 /\ nxLines'[k].pad = seen'[k].pad
      <4>1. seen'[k] = seen[k] /\ k \in Int
        BY <1>2, <3>6
      <4>2. CASE k <= Len(nxLines)
        <5>1. k \in 1 .. Len(nxLines) /\ k \in 1 .. Len(nxLines) + m
          BY <1>6, <2>1, <3>6, <4>2
        <5> QED  BY <1>6, <3>4, <4>1, <4>2, <5>1
      <4>3. CASE ~(k <= Len(nxLines))
        <5>1. /\ k - Len(nxLines) \in 1 .. m /\ nxLines'[k] = lines[k - Len(nxLines)]
              /\ k \in Len(nxLines) + 1 .. n
          <6>1. k - Len(nxLines) \in 1 .. m /\ k \in Len(nxLines) + 1 .. n /\ k \in 1 .. Len(nxLines) + m
            BY <1>6, <2>1, <3>6, <4>3
          <6> QED  BY <3>4, <4>3, <6>1
        <5>2. n - m + (k - Len(nxLines)) - 1 = k - 1
          BY <2>1, <4>1
        <5> QED  BY <1>5, <1>9, <3>3, <4>1, <5>1, <5>2
      <4> QED  BY <4>2, <4>3
    <3>7. NxLabelsRight'
      BY <3>5, <3>6 DEF NxLabelsRight
    <3>8. \A k \in Len(nxLines') + 1 .. n + 1 : seen'[k].pad = current
      BY <1>1, <1>2, <3>5
    <3>9. record60' = 2 * Len(nxLines') + input60'
      BY <1>7, <2>1, <2>3, <3>5
    <3> QED  BY <1>1, <1>2, <1>4, <1>7, <1>9, <2>3, <3>4, <3>7, <3>8, <3>9 DEF NxInv
  <2>4. (input60 = 0) <=> (m = 0)
    BY <2>1
  <2> QED  BY <1>1, <1>3, <1>9, <2>1, <2>2, <2>3, <2>4
              DEF Calc, StillHeld, Changed, CompletedInput, EmitCompletedInput, emitted, NxTyped, PadType
<1> QED  BY <1>1, <1>8, <1>9 DEF NxTyped, PadType

(* At a steady 30fps, the nx-TAS lines of an active recording name the frames *)
(* in which their input was held, each once, whatever was begun, toggled or   *)
(* left over before.  A recording has at most MaxFrames frames, few enough    *)
(* for the u32 counts.                                                        *)
THEOREM NxLabelsCorrect == Spec => []NxLabelsRight
<1>1. Init => NxTyped
  <2> SUFFICES ASSUME Init PROVE NxTyped
    OBVIOUS
  <2>1. PadType
    BY InitPadType
  <2>2. isRecordActive = FALSE
    BY DEF Init
  <2> QED  BY <2>1, <2>2 DEF NxTyped, NxInv
<1>2. NxTyped /\ [Next]_vars => NxTyped'
  <2> SUFFICES ASSUME NxTyped, [Next]_vars PROVE NxTyped'
    OBVIOUS
  <2>1. PadType'
    BY PadTypeStep DEF NxTyped
  <2> SUFFICES ASSUME isRecordActive', Steady' PROVE NxInv' /\ nxLines' \in Seq(NxLine)
    BY <2>1 DEF NxTyped, NxInv
  <2>2. ASSUME NEW d \in Deltas, Calc(d) PROVE NxInv' /\ nxLines' \in Seq(NxLine)
    BY <2>2, CalcKeepsLabels
  <2>3. ASSUME NEW nx \in BOOLEAN, NEW toFile, BeginDump(nx, toFile)
        PROVE  NxInv' /\ nxLines' \in Seq(NxLine)
    BY <2>3, FrameAssumption DEF BeginDump, ResetTimes, NxInv, NxLabelsRight
  <2>4. ~EndDump
    BY DEF EndDump
  <2>5. CASE ApplyCurrentInput \/ UNCHANGED vars
    <3>1. UNCHANGED <<isRecordActive, accumulator, input60, record60, nxTAS, seen, nxLines>>
      BY <2>5 DEF ApplyCurrentInput, accumVars, fileVars, emitted, vars
    <3> QED  BY <3>1 DEF NxTyped, NxInv, Steady, NxLabelsRight
  <2> QED  BY <2>2, <2>3, <2>4, <2>5 DEF Next, BeginPreset, ToggleDump, NxTyped, PadType
<1>3. NxTyped => NxLabelsRight
  BY DEF NxTyped, NxInv, NxLabelsRight
<1> QED  BY <1>1, <1>2, <1>3, PTL DEF Spec

-----------------------------------------------------------------------------
(* What was held *)

(* A set of natural numbers that is not empty has a least element. *)
LEMMA LeastNat ==
  ASSUME NEW T, T \subseteq Nat, T # {}
  PROVE  \E x \in T : \A y \in T : x <= y
<1>1. PICK x \in T : \A y \in T : ~(<<y, x>> \in OpToRel(<, Nat))
  BY WFMin, NatLessThanWellFounded
<1>2. ASSUME NEW y \in T PROVE x <= y
  <2>1. x \in Nat /\ y \in Nat
    OBVIOUS
  <2>2. y < x => <<y, x>> \in OpToRel(<, Nat)
    BY <2>1 DEF OpToRel
  <2>3. ~(y < x)
    BY <1>1, <2>2, Zenon
  <2> QED  BY <2>1, <2>3
<1> QED  BY <1>2

(* What Runs is defined by: the runs of what was held first.                  *)
Upto(f, s, n) == f = [i \in 0 .. n |-> IF i = 0 THEN <<>> ELSE Merged(f[i - 1], s[i])]
RunsUpto(s) == CHOOSE f : f = [i \in 0 .. Len(s) |-> IF i = 0 THEN <<>> ELSE Merged(f[i - 1], s[i])]

(* Runs returns the last value of that function. *)
LEMMA RunsIsLast ==
  ASSUME NEW s PROVE Runs(s) = RunsUpto(s)[Len(s)]
BY Zenon DEF Runs, RunsUpto

(* There is such a function, although its definition refers to itself. *)
LEMMA RunsExist ==
  ASSUME NEW s
  PROVE  \A n \in Nat : \E f : Upto(f, s, n)
<1> DEFINE bad == {n \in Nat : ~ \E f : Upto(f, s, n)}
<1> SUFFICES ASSUME bad # {} PROVE FALSE
  OBVIOUS
<1>1. PICK n \in bad : \A y \in bad : n <= y
  BY LeastNat
<1>2. n # 0
  <2> DEFINE f == [i \in 0 .. 0 |-> <<>>]
  <2>1. f = [i \in 0 .. 0 |-> IF i = 0 THEN <<>> ELSE Merged(f[i - 1], s[i])]
    OBVIOUS
  <2> HIDE DEF f
  <2> QED  BY <1>1, <2>1 DEF Upto
<1>3. n - 1 \in Nat /\ n - 1 \notin bad
  BY <1>1, <1>2
<1>4. PICK f : Upto(f, s, n - 1)
  BY <1>3
<1> DEFINE g == [i \in 0 .. n |-> IF i = n THEN Merged(f[n - 1], s[n]) ELSE f[i]]
<1>5. ASSUME NEW i \in 0 .. n
      PROVE  g[i] = IF i = 0 THEN <<>> ELSE Merged(g[i - 1], s[i])
  <2>1. CASE i = n
    <3>1. i # 0 /\ g[i - 1] = f[n - 1] /\ g[i] = Merged(f[n - 1], s[n])
      BY <1>2, <1>3, <2>1
    <3> QED  BY <2>1, <3>1, Zenon
  <2>2. CASE i # n
    <3>1. i \in 0 .. n - 1 /\ g[i] = f[i] /\ (i # 0 => i - 1 \in 0 .. n /\ g[i - 1] = f[i - 1])
      BY <1>3, <2>2
    <3>2. f[i] = IF i = 0 THEN <<>> ELSE Merged(f[i - 1], s[i])
      BY <1>4, <3>1 DEF Upto
    <3> QED  BY <3>1, <3>2, Zenon
  <2> QED  BY <2>1, <2>2
<1>6. Upto(g, s, n)
  <2>1. g = [i \in 0 .. n |-> g[i]]
    OBVIOUS
  <2> HIDE DEF g
  <2> QED  BY <1>5, <2>1 DEF Upto
<1> QED  BY <1>1, <1>6

(* Nothing was held at first; what is held next is merged with the last run. *)
LEMMA RunsNext ==
  ASSUME NEW S, NEW s \in Seq(S), NEW e \in S
  PROVE  Runs(<<>>) = <<>> /\ Runs(Append(s, e)) = Merged(Runs(s), e)
<1> DEFINE t == Append(s, e)
           n == Len(s)
<1>1. /\ n \in Nat /\ Len(t) = n + 1 /\ t[n + 1] = e
      /\ \A i \in 1 .. n : t[i] = s[i]
  OBVIOUS
<1>2. \A u : Len(u) \in Nat => Upto(RunsUpto(u), u, Len(u))
  <2> SUFFICES ASSUME NEW u, Len(u) \in Nat PROVE Upto(RunsUpto(u), u, Len(u))
    OBVIOUS
  <2>1. \E f : Upto(f, u, Len(u))
    BY RunsExist
  <2> QED  BY <2>1, Zenon DEF RunsUpto, Upto
<1>3. Runs(<<>>) = <<>>
  <2>1. Len(<<>>) = 0 /\ 0 \in 0 .. 0
    OBVIOUS
  <2>2. Upto(RunsUpto(<<>>), <<>>, 0)
    BY <1>2, <2>1
  <2>3. RunsUpto(<<>>)[0] = <<>>
    BY <2>1, <2>2, Zenon DEF Upto
  <2> QED  BY <2>1, <2>3, RunsIsLast, Zenon
<1>4. /\ \A i \in 0 .. n : RunsUpto(s)[i] = IF i = 0 THEN <<>> ELSE Merged(RunsUpto(s)[i - 1], s[i])
      /\ \A i \in 0 .. n + 1 : RunsUpto(t)[i] = IF i = 0 THEN <<>> ELSE Merged(RunsUpto(t)[i - 1], t[i])
  <2>1. Upto(RunsUpto(s), s, n)
    BY <1>1, <1>2
  <2>2. Upto(RunsUpto(t), t, n + 1)
    <3>1. Len(t) \in Nat
      BY <1>1
    <3> HIDE DEF t
    <3> QED  BY <1>1, <1>2, <3>1
  <2> HIDE DEF t
  <2> QED  BY <2>1, <2>2 DEF Upto
<1> HIDE DEF t
<1>5. \A i \in 0 .. n : RunsUpto(t)[i] = RunsUpto(s)[i]
  <2> DEFINE bad == {i \in 0 .. n : RunsUpto(t)[i] # RunsUpto(s)[i]}
  <2> SUFFICES ASSUME bad # {} PROVE FALSE
    BY Zenon
  <2>1. PICK i \in bad : \A y \in bad : i <= y
    <3>1. bad \subseteq Nat
      BY <1>1
    <3> HIDE DEF bad
    <3> QED  BY <3>1, LeastNat
  <2>2. i \in 0 .. n /\ i \in 0 .. n + 1
    BY <1>1
  <2>3. i # 0
    BY <1>4, <2>2
  <2>4. i \in 1 .. n /\ i - 1 \in 0 .. n /\ i - 1 \notin bad
    BY <1>1, <2>1, <2>2, <2>3
  <2>5. RunsUpto(t)[i - 1] = RunsUpto(s)[i - 1] /\ t[i] = s[i]
    BY <1>1, <2>4
  <2>6. RunsUpto(t)[i] = RunsUpto(s)[i]
    BY <1>4, <2>2, <2>3, <2>5, Zenon
  <2> QED  BY <2>6
<1>6. RunsUpto(t)[n + 1] = Merged(RunsUpto(t)[n], t[n + 1])
  <2>1. n + 1 \in 0 .. n + 1 /\ n + 1 # 0 /\ (n + 1) - 1 = n
    BY <1>1
  <2>2. RunsUpto(t)[n + 1] = Merged(RunsUpto(t)[(n + 1) - 1], t[n + 1])
    BY <1>4, <2>1, Zenon
  <2> QED  BY <2>1, <2>2
<1>7. RunsUpto(t)[n] = RunsUpto(s)[n]
  <2>1. n \in 0 .. n
    BY <1>1
  <2> QED  BY <1>5, <2>1, Zenon
<1>8. Runs(t) = RunsUpto(t)[n + 1] /\ Runs(s) = RunsUpto(s)[n]
  BY <1>1, RunsIsLast, Zenon
<1>9. Runs(t) = Merged(Runs(s), e)
  BY <1>1, <1>6, <1>7, <1>8, Zenon
<1> QED  BY <1>3, <1>9 DEF t

(* The invariant, with the runs that were completed and the one that is       *)
(* accumulated named.                                                         *)
Accumulated  == [pad |-> accumulator, dur |-> input60]
HeldTyped ==
  /\ PadType
  /\ IF isRecordActive /\ seen # <<>>
     THEN /\ input60 > 0
          /\ \E done \in Seq(Held) : Runs(seen) = Append(done, Accumulated) /\ inputs = Rounded(done)
     ELSE /\ input60 = 0
          /\ inputs = Rounded(Runs(seen)) /\ (seen = <<>> => inputs = <<>>)

(* Rounding the durations of one input more *)
LEMMA RoundedNext ==
  ASSUME NEW runs \in Seq(Held), NEW e \in Held
  PROVE  /\ Rounded(<<>>) = <<>>
         /\ Rounded(Append(runs, e))
              = Append(Rounded(runs), [pad |-> e.pad, dur |-> LogicalFrames(e.dur)])
<1> DEFINE Line(h) == [pad |-> h.pad, dur |-> LogicalFrames(h.dur)]
           n == Len(runs)
           t == Append(runs, e)
<1>1. Rounded(<<>>) = <<>>
  BY DEF Rounded
<1>2. n \in Nat /\ Len(t) = n + 1 /\ t[n + 1] = e /\ \A k \in 1 .. n : t[k] = runs[k]
  OBVIOUS
<1>3. Rounded(runs) = [k \in 1 .. n |-> Line(runs[k])] /\ Rounded(t) = [k \in 1 .. n + 1 |-> Line(t[k])]
  BY <1>2, Zenon DEF Rounded
<1> HIDE DEF Line, t
<1>4. Rounded(t) = Append([k \in 1 .. n |-> Line(runs[k])], Line(e))
  BY <1>2, <1>3
<1> QED  BY <1>1, <1>3, <1>4 DEF Line, t

(* A frame adds what was held in it to the accumulated input, or emits that   *)
(* and begins another.                                                        *)
LEMMA CalcKeepsHeld ==
  ASSUME HeldTyped, NEW d \in Deltas, Calc(d)
  PROVE  /\ isRecordActive' /\ seen' # <<>> /\ input60' > 0
         /\ \E done \in Seq(Held) : /\ Runs(seen') = Append(done, [pad |-> accumulator', dur |-> input60'])
                                    /\ inputs' = Rounded(done)
<1> DEFINE e == [pad |-> current, dur |-> d]
<1>1. /\ d \in Nat /\ d > 0 /\ input60 \in Nat /\ accumulator \in Pads /\ current \in Pads
      /\ inputs \in Seq(Held) /\ seen \in Seq(Held) /\ isRecordActive /\ e \in Held
  BY FrameAssumption DEF HeldTyped, PadType, Calc, Held
<1>2. seen' = Append(seen, e) /\ isRecordActive'
  BY <1>1 DEF Calc
<1>3. seen' # <<>> /\ Runs(seen') = Merged(Runs(seen), e) /\ Runs(<<>>) = <<>>
  BY <1>1, <1>2, RunsNext
<1>4. accumulator' = current /\ input60' > 0
  BY <1>1 DEF Calc, StillHeld, Changed, CompletedInput
<1>5. CASE seen = <<>>
  <2>1. input60' = d /\ inputs' = inputs /\ inputs = <<>>
    BY <1>1, <1>5 DEF HeldTyped, Calc, StillHeld, Changed, CompletedInput, emitted
  <2>2. Runs(seen') = Append(<<>>, e)
    BY <1>3, <1>5 DEF Merged
  <2>3. Rounded(<<>>) = <<>> /\ <<>> \in Seq(Held)
    <3>1. <<>> \in Seq(Held)
      OBVIOUS
    <3> QED  BY <1>1, <3>1, RoundedNext
  <2>4. inputs' = Rounded(<<>>) /\ Runs(seen') = Append(<<>>, [pad |-> accumulator', dur |-> input60'])
    BY <1>4, <2>1, <2>2, <2>3
  <2> QED  BY <1>2, <1>3, <1>4, <2>3, <2>4, Zenon
<1>6. CASE seen # <<>>
  <2>1. PICK done \in Seq(Held) : Runs(seen) = Append(done, Accumulated) /\ inputs = Rounded(done)
    BY <1>1, <1>6 DEF HeldTyped
  <2>2. Accumulated \in Held /\ Accumulated.pad = accumulator /\ Accumulated.dur = input60 /\ input60 # 0
    BY <1>1, <1>6 DEF Accumulated, Held, HeldTyped
  <2>3. /\ Len(Runs(seen)) = Len(done) + 1 /\ Runs(seen)[Len(done) + 1] = Accumulated
        /\ Runs(seen) # <<>> /\ Runs(seen) \in Seq(Held)
    BY <2>1, <2>2
  <2>4. CASE StillHeld(d)
    <3>1. current = accumulator /\ input60' = input60 + d /\ inputs' = inputs
      BY <2>4 DEF StillHeld, emitted
    <3>2. Runs(seen') = [Runs(seen) EXCEPT ![Len(done) + 1] = [pad |-> current, dur |-> input60 + d]]
      BY <1>3, <2>2, <2>3, <3>1 DEF Merged
    <3>3. Runs(seen') = Append(done, [pad |-> current, dur |-> input60 + d])
      <4> DEFINE more == [pad |-> current, dur |-> input60 + d]
      <4>1. more \in Held
        BY <1>1 DEF Held
      <4> HIDE DEF more
      <4>2. \A a, b \in Held : [Append(done, a) EXCEPT ![Len(done) + 1] = b] = Append(done, b)
        <5> SUFFICES ASSUME NEW a \in Held, NEW b \in Held
                     PROVE  [Append(done, a) EXCEPT ![Len(done) + 1] = b] = Append(done, b)
          OBVIOUS
        <5> DEFINE n == Len(done) + 1
                   s == Append(done, a)
                   t == [s EXCEPT ![n] = b]
                   u == Append(done, b)
        <5>1. /\ n \in Nat /\ n \in 1 .. n /\ s \in Seq(Held) /\ Len(s) = n /\ DOMAIN s = 1 .. n
              /\ u \in Seq(Held) /\ Len(u) = n
              /\ \A k \in 1 .. n : u[k] = IF k = n THEN b ELSE s[k]
          BY <2>1
        <5> HIDE DEF n, s, u
        <5>2. t \in [1 .. n -> Held] /\ \A k \in 1 .. n : t[k] = IF k = n THEN b ELSE s[k]
          BY <5>1
        <5> HIDE DEF t
        <5>3. t \in Seq(Held) /\ Len(t) = n
          BY <5>1, <5>2
        <5>4. t = u
          BY <5>1, <5>2, <5>3, SeqEqual
        <5> QED  BY <5>4 DEF t, u, s, n
      <4>3. [Append(done, Accumulated) EXCEPT ![Len(done) + 1] = more] = Append(done, more)
        BY <2>2, <4>1, <4>2
      <4> QED  BY <2>1, <3>2, <4>3 DEF more
    <3> QED  BY <1>2, <1>3, <1>4, <2>1, <3>1, <3>3, Zenon
  <2>5. CASE Changed(d)
    <3>1. /\ current # accumulator /\ input60' = d
          /\ inputs' = Append(inputs, [pad |-> accumulator, dur |-> LogicalFrames(input60)])
      BY <2>2, <2>5 DEF Changed, CompletedInput, EmitCompletedInput
    <3>2. Runs(seen') = Append(Runs(seen), e)
      BY <1>3, <2>2, <2>3, <3>1 DEF Merged
    <3>3. inputs' = Rounded(Runs(seen))
      BY <2>1, <2>2, <3>1, RoundedNext
    <3> QED  BY <1>2, <1>3, <1>4, <2>3, <3>1, <3>2, <3>3, Zenon
  <2> QED  BY <2>4, <2>5 DEF Calc
<1> QED  BY <1>5, <1>6

(* A recording that begins has recorded nothing yet. *)
LEMMA BeginKeepsHeld ==
  ASSUME HeldTyped, NEW nx, NEW toFile, BeginDump(nx, toFile)
  PROVE  seen' = <<>> /\ input60' = 0 /\ inputs' = Rounded(Runs(seen')) /\ inputs' = <<>>
<1>1. Runs(<<>>) = <<>> /\ Rounded(<<>>) = <<>>
  <2>1. [pad |-> accumulator, dur |-> 0] \in Held
    BY DEF HeldTyped, PadType, Held
  <2>2. <<>> \in Seq(Held)
    OBVIOUS
  <2> QED  BY <2>1, <2>2, RunsNext, RoundedNext
<1>2. seen' = <<>> /\ inputs' = <<>> /\ input60' = 0
  BY DEF BeginDump, ResetTimes
<1> QED  BY <1>1, <1>2, Zenon

(* The end emits what is accumulated and leaves an input of no duration; where *)
(* no recording is active there is none to emit.                               *)
LEMMA EndKeepsHeld ==
  ASSUME HeldTyped, EndDump
  PROVE  /\ ~isRecordActive' /\ input60' = 0
         /\ inputs' = Rounded(Runs(seen')) /\ (seen' = <<>> => inputs' = <<>>)
<1>1. seen' = seen /\ input60' = 0 /\ ~isRecordActive'
  BY DEF EndDump, CompletedInput
<1>2. CASE isRecordActive /\ seen # <<>>
  <2>1. PICK done \in Seq(Held) : Runs(seen) = Append(done, Accumulated) /\ inputs = Rounded(done)
    BY <1>2 DEF HeldTyped
  <2>2. Accumulated \in Held /\ Accumulated.pad = accumulator /\ Accumulated.dur = input60 /\ input60 # 0
    BY <1>2 DEF HeldTyped, PadType, Held, Accumulated
  <2>3. inputs' = Append(inputs, [pad |-> accumulator, dur |-> LogicalFrames(input60)])
    BY <2>2 DEF EndDump, CompletedInput, EmitCompletedInput
  <2>4. inputs' = Rounded(Runs(seen))
    BY <2>1, <2>2, <2>3, RoundedNext
  <2> QED  BY <1>1, <1>2, <2>4, Zenon
<1>3. CASE ~(isRecordActive /\ seen # <<>>)
  <2>1. input60 = 0 /\ inputs = Rounded(Runs(seen)) /\ (seen = <<>> => inputs = <<>>)
    BY <1>3 DEF HeldTyped
  <2>2. inputs' = inputs
    BY <2>1 DEF EndDump, CompletedInput, emitted
  <2> QED  BY <1>1, <2>1, <2>2, Zenon
<1> QED  BY <1>2, <1>3

(* The invariant holds at first and after every step. *)
LEMMA HeldTypedCorrect == Spec => []HeldTyped
<1>1. Init => HeldTyped
  <2> SUFFICES ASSUME Init PROVE HeldTyped
    OBVIOUS
  <2>1. PadType /\ seen = <<>> /\ inputs = <<>> /\ input60 = 0
    BY InitPadType DEF Init
  <2>2. Runs(<<>>) = <<>> /\ Rounded(<<>>) = <<>>
    <3>1. [pad |-> accumulator, dur |-> 0] \in Held
      BY <2>1 DEF PadType, Held
    <3>2. <<>> \in Seq(Held)
      OBVIOUS
    <3> QED  BY <3>1, <3>2, RunsNext, RoundedNext
  <2>3. inputs = Rounded(Runs(seen))
    BY <2>1, <2>2, Zenon
  <2> QED  BY <2>1, <2>3 DEF HeldTyped
<1>2. HeldTyped /\ [Next]_vars => HeldTyped'
  <2> SUFFICES ASSUME HeldTyped, [Next]_vars PROVE HeldTyped'
    OBVIOUS
  <2>1. PadType'
    BY PadTypeStep DEF HeldTyped
  <2>2. ASSUME NEW d \in Deltas, Calc(d) PROVE HeldTyped'
    BY <2>1, <2>2, CalcKeepsHeld DEF HeldTyped, Accumulated
  <2>3. ASSUME NEW nx, NEW toFile, BeginDump(nx, toFile) PROVE HeldTyped'
    BY <2>1, <2>3, BeginKeepsHeld DEF HeldTyped
  <2>4. CASE EndDump
    BY <2>1, <2>4, EndKeepsHeld DEF HeldTyped
  <2>5. CASE ApplyCurrentInput \/ UNCHANGED vars
    <3>1. UNCHANGED <<isRecordActive, accumulator, input60, seen, inputs>>
      BY <2>5 DEF ApplyCurrentInput, accumVars, emitted, vars
    <3>2. UNCHANGED Accumulated
      BY <3>1 DEF Accumulated
    <3> QED  BY <2>1, <3>1, <3>2 DEF HeldTyped
  <2> QED  BY <2>2, <2>3, <2>4, <2>5 DEF Next, BeginPreset, ToggleDump
<1> QED  BY <1>1, <1>2, PTL DEF Spec

(* Each input of a recording that ended is emitted once, in order and for as  *)
(* long as it was held, up to the half-frame that rounding drops, and while   *)
(* it is active the last one is accumulated exactly (Record::calc,            *)
(* calcCompletedInput), however recordings were begun, toggled and ended      *)
(* before.                                                                    *)
THEOREM HeldCorrect == Spec => []RecordsWhatWasHeld
<1>1. HeldTyped => RecordsWhatWasHeld
  <2> SUFFICES ASSUME HeldTyped PROVE RecordsWhatWasHeld
    OBVIOUS
  <2>1. CASE isRecordActive /\ seen # <<>>
    <3>1. PICK done \in Seq(Held) : Runs(seen) = Append(done, Accumulated) /\ inputs = Rounded(done)
      BY <2>1 DEF HeldTyped
    <3>2. Accumulated \in Held
      BY DEF HeldTyped, PadType, Held, Accumulated
    <3>3. Front(Append(done, Accumulated)) = done /\ Last(Append(done, Accumulated)) = Accumulated
      BY <3>1, <3>2 DEF Front, Last
    <3>4. inputs = Rounded(Front(Runs(seen))) /\ Last(Runs(seen)) = [pad |-> accumulator, dur |-> input60]
      BY <3>1, <3>3, Zenon DEF Accumulated
    <3> QED  BY <2>1, <3>4, Zenon DEF RecordsWhatWasHeld
  <2>2. CASE ~(isRecordActive /\ seen # <<>>)
    <3>1. inputs = Rounded(Runs(seen))
      BY <2>2 DEF HeldTyped
    <3> QED  BY <2>2, <3>1, Zenon DEF RecordsWhatWasHeld
  <2> QED  BY <2>1, <2>2
<1> QED  BY <1>1, HeldTypedCorrect, PTL

-----------------------------------------------------------------------------
(* The file of a recording *)

(* What was emitted is in the file, which is open as long as the recording is *)
(* active, unless it could not be opened; the type is that of the chunks.     *)
FileInv == PadType /\ FileHoldsRecording /\ (~isRecordActive => input60 = 0)

(* A completed input goes to the file that is open. *)
LEMMA CompletedKeepsFile ==
  ASSUME FileInv, NEW rest, CompletedInput(rest), UNCHANGED nxTAS,
         doEmitFile, ~refused, isRecordActive \/ input60 = 0
  PROVE  written' = IF nxTAS' THEN nxLines' ELSE inputs'
<1>1. /\ written = IF nxTAS THEN nxLines ELSE inputs
      /\ isRecordActive => file = "open"
      /\ inputs \in Seq(Held) /\ nxTAS \in BOOLEAN
  BY DEF FileInv, FileHoldsRecording, PadType
<1>2. CASE input60 = 0
  BY <1>1, <1>2 DEF CompletedInput, emitted
<1>3. CASE input60 # 0
  <2> DEFINE line  == [pad |-> accumulator, dur |-> LogicalFrames(input60)]
             lines == NxEmitted(accumulator, input60, record60')
  <2>1. /\ inputs' = Append(inputs, line)
        /\ nxLines' = IF nxTAS THEN nxLines \o lines ELSE nxLines
        /\ written' = written \o (IF nxTAS THEN lines ELSE <<line>>)
    BY <1>1, <1>3 DEF CompletedInput, EmitCompletedInput, WriteChunk
  <2>2. line \in Held
    BY DEF FileInv, PadType, Held, LogicalFrames
  <2> HIDE DEF line, lines
  <2>3. inputs \o <<line>> = Append(inputs, line)
    BY <1>1, <2>2
  <2>4. CASE nxTAS
    BY <1>1, <2>1, <2>4, Zenon
  <2>5. CASE ~nxTAS
    BY <1>1, <2>1, <2>3, <2>5, Zenon
  <2> QED  BY <2>4, <2>5
<1> QED  BY <1>2, <1>3

(* The file of a recording holds what was emitted and nothing else, and is    *)
(* closed after the last input (beginDumpImpl, endDump, emitInputImpl),       *)
(* unless it could not be opened.                                             *)
THEOREM FileHoldsCorrect == Spec => []FileHoldsRecording
<1>1. Init => FileInv
  BY InitPadType DEF Init, FileInv, FileHoldsRecording
<1>2. FileInv /\ [Next]_vars => FileInv'
  <2> SUFFICES ASSUME FileInv, [Next]_vars PROVE FileInv'
    OBVIOUS
  <2>1. PadType'
    BY PadTypeStep DEF FileInv
  <2>2. ASSUME NEW d \in Deltas, Calc(d) PROVE FileInv'
    <3>1. isRecordActive /\ UNCHANGED <<isRecordActive, nxTAS, doEmitFile, file, refused>>
      BY <2>2 DEF Calc, fileVars
    <3>2. doEmitFile /\ ~refused => written' = IF nxTAS' THEN nxLines' ELSE inputs'
      <4>1. CASE StillHeld(d)
        BY <3>1, <4>1 DEF StillHeld, emitted, FileInv, FileHoldsRecording
      <4>2. CASE Changed(d)
        BY <3>1, <4>2, CompletedKeepsFile DEF Changed
      <4> QED  BY <2>2, <4>1, <4>2 DEF Calc
    <3> QED  BY <2>1, <3>1, <3>2 DEF FileInv, FileHoldsRecording
  <2>3. ASSUME NEW nx, NEW toFile, BeginDump(nx, toFile) PROVE FileInv'
    BY <2>1, <2>3 DEF BeginDump, ResetTimes, OpenFile, FileInv, FileHoldsRecording
  <2>4. CASE EndDump
    <3>1. ~isRecordActive' /\ input60' = 0 /\ UNCHANGED <<nxTAS, doEmitFile, refused>>
      BY <2>4 DEF EndDump, CompletedInput
    <3>2. doEmitFile /\ ~refused => written' = IF nxTAS' THEN nxLines' ELSE inputs'
      BY <2>4, <3>1, CompletedKeepsFile DEF EndDump, FileInv
    <3> QED  BY <2>1, <3>1, <3>2 DEF FileInv, FileHoldsRecording
  <2>5. CASE ApplyCurrentInput \/ UNCHANGED vars
    BY <2>1, <2>5 DEF ApplyCurrentInput, accumVars, fileVars, emitted, vars, FileInv, FileHoldsRecording
  <2> QED  BY <2>2, <2>3, <2>4, <2>5 DEF Next, BeginPreset, ToggleDump
<1>3. FileInv => FileHoldsRecording  BY DEF FileInv
<1> QED  BY <1>1, <1>2, <1>3, PTL DEF Spec

-----------------------------------------------------------------------------
(* An nx-TAS recording that is executed *)

(* Some numbers up to n are finitely many, and have a greatest one. *)
LEMMA Few ==
  ASSUME NEW n \in Nat, NEW s \in SUBSET (1 .. n)
  PROVE  IsFiniteSet(s) /\ Cardinality(s) \in 0 .. n
<1>1. IsFiniteSet(1 .. n) /\ Cardinality(1 .. n) = n
  <2>1. IsFiniteSet(1 .. n) /\ Cardinality(1 .. n) = IF 1 > n THEN 0 ELSE n - 1 + 1
    BY FS_Interval
  <2> QED  BY <2>1
<1>2. IsFiniteSet(s) /\ Cardinality(s) <= Cardinality(1 .. n)
  BY <1>1, FS_Subset
<1>3. Cardinality(s) \in Nat
  BY <1>2, FS_CardinalityType
<1> QED  BY <1>1, <1>2, <1>3

(* The greatest number of a set of line numbers is one of them. *)
LEMMA MaxIn ==
  ASSUME NEW n \in Nat, NEW s \in SUBSET (1 .. n), s # {}
  PROVE  Max(s) \in s
<1> DEFINE above == {m \in Nat : \A x \in s : x <= m}
<1>1. n \in above
  OBVIOUS
<1>2. PICK m \in above : \A y \in above : m <= y
  <2>1. above \subseteq Nat
    OBVIOUS
  <2> HIDE DEF above
  <2> QED  BY <1>1, <2>1, LeastNat
<1>3. m \in s
  <2> SUFFICES ASSUME m \notin s PROVE FALSE
    OBVIOUS
  <2>1. PICK x \in s : TRUE
    OBVIOUS
  <2>2. m \in Nat /\ x \in Nat /\ x >= 1 /\ x <= m
    BY <1>2
  <2>3. m - 1 \in above
    BY <1>2, <2>2
  <2> QED  BY <1>2, <2>2, <2>3
<1>4. \A y \in s : m >= y
  BY <1>2
<1> QED  BY <1>3, <1>4, Zenon DEF Max

(* Without the greatest of them there is one less. *)
LEMMA OneLess ==
  ASSUME NEW n \in Nat, NEW s \in SUBSET (1 .. n), s # {}
  PROVE  /\ s \ {Max(s)} \in SUBSET (1 .. n)
         /\ Cardinality(s) \in Nat /\ Cardinality(s \ {Max(s)}) \in Nat
         /\ Cardinality(s \ {Max(s)}) < Cardinality(s)
<1>1. IsFiniteSet(s) /\ Cardinality(s) \in Nat
  BY Few
<1>2. Cardinality(s \ {Max(s)}) = Cardinality(s) - 1 /\ s \ {Max(s)} \in SUBSET (1 .. n)
  BY <1>1, MaxIn, FS_RemoveElement
<1>3. Cardinality(s \ {Max(s)}) \in Nat
  BY <1>2, Few
<1> QED  BY <1>1, <1>2, <1>3

(* What FoldLeft is defined by: what the transpiler has collected after some  *)
(* of the lines.                                                              *)
Folds(f, lines, limit, P) ==
  f = [s \in P |-> IF s = {} THEN Nothing(Neutral)
                   ELSE Collected(f[s \ {Max(s)}], lines[Max(s)], limit)]
Fold(lines, limit) ==
  CHOOSE f : f = [s \in SUBSET DOMAIN lines |->
                    IF s = {} THEN Nothing(Neutral)
                    ELSE Collected(f[s \ {Max(s)}], lines[Max(s)], limit)]

(* The library's FoldLeft over the lines of a file is that function. *)
LEMMA FoldIter ==
  ASSUME NEW lines, NEW limit
  PROVE  FoldLeft(LAMBDA a, line : Collected(a, line, limit), Nothing(Neutral), lines)
           = Fold(lines, limit)[DOMAIN lines]
BY Zenon DEF FoldLeft, MapThenFoldSet, Fold

(* There is such a function, although its definition refers to itself. *)
LEMMA FoldExists ==
  ASSUME NEW lines, NEW limit, NEW n \in Nat, DOMAIN lines = 1 .. n
  PROVE  \E f : Folds(f, lines, limit, SUBSET DOMAIN lines)
<1> DEFINE UpTo(c) == {s \in SUBSET (1 .. n) : Cardinality(s) <= c}
           Value(f, s) == IF s = {} THEN Nothing(Neutral)
                          ELSE Collected(f[s \ {Max(s)}], lines[Max(s)], limit)
           bad == {c \in Nat : ~ \E f : Folds(f, lines, limit, UpTo(c))}
<1>1. bad = {}
  <2> SUFFICES ASSUME bad # {} PROVE FALSE
    OBVIOUS
  <2>1. PICK c \in bad : \A m \in bad : c <= m
    <3>1. bad \subseteq Nat
      OBVIOUS
    <3> HIDE DEF bad
    <3> QED  BY <3>1, LeastNat
  <2>2. c \in Nat
    OBVIOUS
  <2>3. \E f : \A s \in UpTo(c) : s # {} => f[s \ {Max(s)}] = Value(f, s \ {Max(s)})
    <3>1. CASE c = 0
      <4>1. ASSUME NEW s \in UpTo(c) PROVE s = {}
        <5>1. IsFiniteSet(s) /\ Cardinality(s) \in Nat
          BY Few
        <5> QED  BY <3>1, <5>1, FS_EmptySet
      <4> HIDE DEF UpTo
      <4> QED  BY <4>1, Zenon
    <3>2. CASE c # 0
      <4>1. c - 1 \in Nat /\ ~(c <= c - 1)
        BY <2>2, <3>2
      <4>2. c - 1 \notin bad
        <5> HIDE DEF bad
        <5> QED  BY <2>1, <4>1, Zenon
      <4>3. PICK f : Folds(f, lines, limit, UpTo(c - 1))
        BY <4>1, <4>2
      <4>4. ASSUME NEW s \in UpTo(c), s # {}
            PROVE  s \ {Max(s)} \in UpTo(c - 1)
        BY <2>2, <4>4, OneLess
      <4>5. \A s \in UpTo(c - 1) : f[s] = Value(f, s)
        BY <4>3, Zenon DEF Folds
      <4> HIDE DEF UpTo, Value
      <4> QED  BY <4>4, <4>5, Zenon
    <3> QED  BY <3>1, <3>2
  <2>4. PICK f : \A s \in UpTo(c) : s # {} => f[s \ {Max(s)}] = Value(f, s \ {Max(s)})
    <3> HIDE DEF Value
    <3> QED  BY <2>3
  <2> DEFINE g == [s \in UpTo(c) |-> Value(f, s)]
  <2>5. ASSUME NEW s \in UpTo(c) PROVE g[s] = Value(g, s)
    <3>1. CASE s = {}
      BY <3>1, Zenon
    <3>2. CASE s # {}
      <4>1. s \ {Max(s)} \in UpTo(c)
        BY <2>2, <3>2, OneLess
      <4>2. g[s \ {Max(s)}] = f[s \ {Max(s)}]
        <5> HIDE DEF UpTo, Value
        <5> QED  BY <2>4, <3>2, <4>1, Zenon
      <4> QED  BY <3>2, <4>2, Zenon
    <3> QED  BY <3>1, <3>2
  <2>6. g = [s \in UpTo(c) |-> g[s]]
    BY Zenon
  <2>7. Folds(g, lines, limit, UpTo(c))
    <3> HIDE DEF g
    <3> QED  BY <2>5, <2>6, Zenon DEF Folds
  <2> QED  BY <2>2, <2>7
<1>2. UpTo(n) = SUBSET (1 .. n)
  <2>1. ASSUME NEW s \in SUBSET (1 .. n) PROVE Cardinality(s) <= n
    BY Few
  <2> QED  BY <2>1
<1> QED  BY <1>1, <1>2

(* What is collected of the first k lines *)
Acc(lines, limit, k) == Fold(lines, limit)[1 .. k]

(* It accumulates the lines one by one. *)
LEMMA AccDef ==
  ASSUME NEW S, NEW lines \in Seq(S), NEW limit
  PROVE  /\ Acc(lines, limit, 0) = Nothing(Neutral)
         /\ \A k \in 1 .. Len(lines) :
              Acc(lines, limit, k) = Collected(Acc(lines, limit, k - 1), lines[k], limit)
<1>1. Len(lines) \in Nat /\ DOMAIN lines = 1 .. Len(lines)
  OBVIOUS
<1>2. Folds(Fold(lines, limit), lines, limit, SUBSET DOMAIN lines)
  <2>1. \E f : Folds(f, lines, limit, SUBSET DOMAIN lines)
    BY <1>1, FoldExists
  <2> QED  BY <2>1, Zenon DEF Folds, Fold
<1>3. \A s \in SUBSET DOMAIN lines :
        Fold(lines, limit)[s] =
          IF s = {} THEN Nothing(Neutral)
          ELSE Collected(Fold(lines, limit)[s \ {Max(s)}], lines[Max(s)], limit)
  <2> HIDE DEF Fold
  <2> QED  BY <1>2, Zenon DEF Folds
<1>4. Acc(lines, limit, 0) = Nothing(Neutral)
  <2>1. 1 .. 0 = {}
    OBVIOUS
  <2> QED  BY <1>3, <2>1, Zenon DEF Acc
<1>5. ASSUME NEW k \in 1 .. Len(lines)
      PROVE  Acc(lines, limit, k) = Collected(Acc(lines, limit, k - 1), lines[k], limit)
  <2>1. k \in Nat \ {0} /\ 1 .. k \in SUBSET DOMAIN lines /\ 1 .. k # {}
    <3>1. k \in Nat \ {0} /\ 1 .. k \subseteq 1 .. Len(lines) /\ k \in 1 .. k
      BY <1>1
    <3> QED  BY <1>1, <3>1
  <2>2. Max(1 .. k) = k
    <3>1. k \in 1 .. k /\ \A y \in 1 .. k : k >= y
      BY <2>1
    <3>2. Max(1 .. k) \in 1 .. k /\ \A y \in 1 .. k : Max(1 .. k) >= y
      BY <3>1, Zenon DEF Max
    <3> QED  BY <3>1, <3>2
  <2>3. (1 .. k) \ {k} = 1 .. k - 1
    BY <2>1
  <2> QED  BY <1>3, <2>1, <2>2, <2>3, Zenon DEF Acc
<1> QED  BY <1>4, <1>5
(* How many of the first numbers are in a set. *)
Count(T, k) == Cardinality({j \in 1 .. k : j \in T})

(* Counting up to one number more *)
LEMMA CountNext ==
  ASSUME NEW T, NEW n \in Nat
  PROVE  /\ Count(T, 0) = 0 /\ Count(T, n) \in Nat
         /\ Count(T, n + 1) = IF n + 1 \in T THEN Count(T, n) + 1 ELSE Count(T, n)
<1> DEFINE In(k) == {j \in 1 .. k : j \in T}
<1>1. In(0) = {} /\ In(n) \in SUBSET (1 .. n) /\ n + 1 \notin In(n)
  OBVIOUS
<1>2. In(n + 1) = IF n + 1 \in T THEN In(n) \cup {n + 1} ELSE In(n)
  OBVIOUS
<1> HIDE DEF In
<1>3. IsFiniteSet(In(n)) /\ Cardinality(In(n)) \in Nat
  BY <1>1, Few
<1>4. Cardinality(In(n) \cup {n + 1}) = Cardinality(In(n)) + 1
  BY <1>1, <1>3, FS_AddElement
<1>5. Cardinality(In(0)) = 0
  BY <1>1, FS_EmptySet
<1> QED  BY <1>2, <1>3, <1>4, <1>5 DEF Count, In

(* A line is in the run of the line before, or begins one. *)
LEMMA RunNext ==
  ASSUME NEW lines, NEW n \in Nat
  PROVE  /\ Run(lines, 0) = 0 /\ Run(lines, n) \in Nat
         /\ Run(lines, n + 1) = IF Begins(lines, n + 1) THEN Run(lines, n) + 1 ELSE Run(lines, n)
<1> DEFINE T == {j \in Nat : Begins(lines, j)}
<1>1. ASSUME NEW k \in Nat PROVE Run(lines, k) = Count(T, k)
  <2>1. {j \in 1 .. k : Begins(lines, j)} = {j \in 1 .. k : j \in T}
    OBVIOUS
  <2> QED  BY <2>1 DEF Run, Count
<1>2. n + 1 \in T <=> Begins(lines, n + 1)
  OBVIOUS
<1> HIDE DEF T
<1> QED  BY <1>1, <1>2, CountNext

(* It makes its run longer and no other. *)
LEMMA LastsNext ==
  ASSUME NEW lines, NEW n \in Nat, NEW c
  PROVE  /\ Lasts(lines, 0, c) = 0 /\ Lasts(lines, n, c) \in Nat
         /\ Lasts(lines, n + 1, c) =
              IF Run(lines, n + 1) = c THEN Lasts(lines, n, c) + 1 ELSE Lasts(lines, n, c)
<1> DEFINE T == {k \in Nat : Run(lines, k) = c}
<1>1. ASSUME NEW k \in Nat PROVE Lasts(lines, k, c) = Count(T, k)
  <2>1. {j \in 1 .. k : Run(lines, j) = c} = {j \in 1 .. k : j \in T}
    OBVIOUS
  <2> QED  BY <2>1 DEF Lasts, Count
<1>2. n + 1 \in T <=> Run(lines, n + 1) = c
  OBVIOUS
<1> HIDE DEF T
<1> QED  BY <1>1, <1>2, CountNext

(* Runs are numbered from one on, and the lines of the last one are equal. *)
Numbered(lines, n) ==
  \A k \in 1 .. n : /\ Run(lines, k) \in 1 .. Run(lines, n)
                    /\ Run(lines, k) = Run(lines, n) => lines[k] = lines[n]

(* One line more keeps the runs numbered. *)
LEMMA NumberedNext ==
  ASSUME NEW lines, NEW n \in Nat \ {0}, Numbered(lines, n)
  PROVE  Numbered(lines, n + 1)
<1>1. Begins(lines, n + 1) <=> lines[n + 1] # lines[n]
  BY DEF Begins
<1>2. Run(lines, n) \in Nat /\ Run(lines, n) >= 1
  BY RunNext DEF Numbered
<1>3. Run(lines, n + 1) = IF lines[n + 1] # lines[n] THEN Run(lines, n) + 1 ELSE Run(lines, n)
  BY <1>1, RunNext
<1>4. ASSUME NEW k \in 1 .. n + 1
      PROVE  /\ Run(lines, k) \in 1 .. Run(lines, n + 1)
             /\ Run(lines, k) = Run(lines, n + 1) => lines[k] = lines[n + 1]
  <2>1. CASE k = n + 1
    BY <1>2, <1>3, <2>1
  <2>2. CASE k \in 1 .. n
    BY <1>2, <1>3, <2>2 DEF Numbered
  <2> QED  BY <2>1, <2>2
<1> QED  BY <1>4 DEF Numbered

(* A run that has not begun has no lines. *)
LEMMA NoLines ==
  ASSUME NEW lines, NEW n \in Nat, Numbered(lines, n), Run(lines, n) \in Nat
  PROVE  Lasts(lines, n, Run(lines, n) + 1) = 0
<1>1. {k \in 1 .. n : Run(lines, k) = Run(lines, n) + 1} = {}
  BY DEF Numbered
<1> QED  BY <1>1, FS_EmptySet DEF Lasts

-----------------------------------------------------------------------------
(* What the transpiler has collected of the first n lines: a call for each run *)
(* but the last, whose lines it counts, until a call did not fit.              *)
Accs == [pad : Pads, dur : Nat, calls : Seq(Held), dstn : Nat]

Right(calls, lines, n) ==
  /\ \A k \in 1 .. n : Run(lines, k) <= Len(calls) => calls[Run(lines, k)].pad = lines[k]
  /\ \A c \in 1 .. Len(calls) : calls[c].dur \in Lasts(lines, n, c) .. Lasts(lines, n, c) + 1

Collects(a, lines, limit, n) ==
  LET r == Run(lines, n)
  IN  /\ a \in Accs /\ a.dur # 0 /\ Right(a.calls, lines, n)
      /\ IF r <= limit + 1
         THEN a.dstn = r - 1 /\ Len(a.calls) = r - 1 /\ a.pad = lines[n] /\ a.dur = Lasts(lines, n, r)
         ELSE a.dstn = limit + 1 /\ Len(a.calls) = limit

(* Calls that are written stay right when a line behind their runs follows. *)
LEMMA StillRight ==
  ASSUME NEW lines, NEW n \in Nat, NEW calls \in Seq(Held), Right(calls, lines, n),
         Run(lines, n + 1) > Len(calls)
  PROVE  Right(calls, lines, n + 1)
<1>1. Run(lines, n + 1) \in Nat /\ Len(calls) \in Nat
  BY RunNext
<1>2. \A c \in 1 .. Len(calls) : Lasts(lines, n + 1, c) = Lasts(lines, n, c)
  BY <1>1, LastsNext
<1>3. ASSUME NEW k \in 1 .. n + 1, Run(lines, k) <= Len(calls)
      PROVE  calls[Run(lines, k)].pad = lines[k]
  <2>1. k \in 1 .. n
    BY <1>1, <1>3
  <2> QED  BY <1>3, <2>1 DEF Right
<1> QED  BY <1>2, <1>3 DEF Right

(* The same of one more call, for the run that has ended. *)
LEMMA OneMoreRight ==
  ASSUME NEW lines, NEW n \in Nat \ {0}, NEW calls \in Seq(Held), Right(calls, lines, n),
         Numbered(lines, n), Run(lines, n) = Len(calls) + 1,
         Run(lines, n + 1) = Run(lines, n) + 1,
         NEW call \in Held, call.pad = lines[n], call.dur = Lasts(lines, n, Run(lines, n)) + 1
  PROVE  Right(Append(calls, call), lines, n + 1)
<1> DEFINE r == Run(lines, n)
           more == Append(calls, call)
<1>1. r \in Nat /\ Len(calls) \in Nat /\ r = Len(calls) + 1 /\ Run(lines, n + 1) = r + 1
  BY RunNext
<1>2. /\ more \in Seq(Held) /\ Len(more) = r /\ more[r] = call
      /\ \A c \in 1 .. Len(calls) : more[c] = calls[c]
  BY <1>1
<1> HIDE DEF more
<1>3. \A c \in 1 .. r : Lasts(lines, n + 1, c) = Lasts(lines, n, c) /\ Lasts(lines, n, c) \in Nat
  BY <1>1, LastsNext
<1>4. ASSUME NEW k \in 1 .. n + 1, Run(lines, k) <= r
      PROVE  more[Run(lines, k)].pad = lines[k]
  <2>1. k \in 1 .. n
    BY <1>1, <1>4
  <2>2. Run(lines, k) \in 1 .. r /\ (Run(lines, k) = r => lines[k] = lines[n])
    BY <2>1 DEF Numbered
  <2>3. CASE Run(lines, k) = r
    BY <1>2, <2>2, <2>3
  <2>4. CASE Run(lines, k) \in 1 .. Len(calls)
    BY <1>2, <2>1, <2>4 DEF Right
  <2> QED  BY <1>1, <2>2, <2>3, <2>4
<1>5. ASSUME NEW c \in 1 .. r
      PROVE  more[c].dur \in Lasts(lines, n + 1, c) .. Lasts(lines, n + 1, c) + 1
  <2>1. CASE c = r
    BY <1>2, <1>3, <2>1
  <2>2. CASE c \in 1 .. Len(calls)
    BY <1>2, <1>3, <2>2 DEF Right
  <2> QED  BY <1>1, <2>1, <2>2
<1>6. /\ \A k \in 1 .. n + 1 : Run(lines, k) <= Len(more) => more[Run(lines, k)].pad = lines[k]
      /\ \A c \in 1 .. Len(more) : more[c].dur \in Lasts(lines, n + 1, c) .. Lasts(lines, n + 1, c) + 1
  BY <1>2, <1>4, <1>5, Zenon
<1>7. Right(more, lines, n + 1)
  BY <1>6, Zenon DEF Right
<1> QED  BY <1>7 DEF more
(* The first line begins the first run. *)
LEMMA CollectsFirst ==
  ASSUME NEW lines \in Seq(Pads), NEW limit \in Nat, Len(lines) # 0
  PROVE  Collects(Collected(Nothing(Neutral), lines[1], limit), lines, limit, 1) /\ Numbered(lines, 1)
<1> DEFINE a == Collected(Nothing(Neutral), lines[1], limit)
<1>1. lines[1] \in Pads /\ 0 + 1 = 1
  OBVIOUS
<1>2. a = [pad |-> lines[1], dur |-> 1, calls |-> <<>>, dstn |-> 0]
  <2> DEFINE none == Nothing(Neutral)
             one  == [none EXCEPT !.dur = @ + 1]
             line == lines[1]
             nil  == <<>>
  <2>1. none = [pad |-> Neutral, dur |-> 0, calls |-> nil, dstn |-> 0] /\ ~(0 > limit)
    BY DEF Nothing
  <2>2. none.dur = 0 /\ none.dstn = 0
    BY <2>1
  <2>3. a = [one EXCEPT !.pad = line]
    <3> HIDE DEF none, line
    <3>1. Collected(none, line, limit) = [one EXCEPT !.pad = line]
      BY <2>1, <2>2, Zenon DEF Collected
    <3> QED  BY <3>1 DEF none, line
  <2> HIDE DEF a, none, line, nil
  <2>4. one = [pad |-> Neutral, dur |-> 1, calls |-> nil, dstn |-> 0]
    BY <2>1
  <2> HIDE DEF one
  <2>5. a = [pad |-> line, dur |-> 1, calls |-> nil, dstn |-> 0]
    BY <2>3, <2>4
  <2> QED  BY <2>5 DEF line, nil
<1>3. Run(lines, 1) = 1
  BY <1>1, RunNext DEF Begins
<1>4. Lasts(lines, 1, 1) = 1
  <2>1. Lasts(lines, 0 + 1, 1) = IF Run(lines, 0 + 1) = 1 THEN Lasts(lines, 0, 1) + 1 ELSE Lasts(lines, 0, 1)
    <3>1. \A n \in Nat : Lasts(lines, n + 1, 1)
                           = IF Run(lines, n + 1) = 1 THEN Lasts(lines, n, 1) + 1 ELSE Lasts(lines, n, 1)
      BY LastsNext
    <3> QED  BY <3>1
  <2>2. Lasts(lines, 0, 1) = 0
    BY LastsNext, Zenon
  <2> QED  BY <1>1, <1>3, <2>1, <2>2
<1>5. a \in Accs /\ a.dur = 1 /\ a.calls = <<>> /\ Len(a.calls) = 0 /\ a.dstn = 0 /\ a.pad = lines[1]
  BY <1>1, <1>2 DEF Accs
<1> HIDE DEF a
<1>6. Right(a.calls, lines, 1)
  BY <1>3, <1>5 DEF Right
<1>7. Collects(a, lines, limit, 1)
  BY <1>3, <1>4, <1>5, <1>6 DEF Collects
<1>8. Numbered(lines, 1)
  BY <1>3 DEF Numbered
<1> QED  BY <1>7, <1>8 DEF a

(* Each line after it is counted, or ends a run. *)
LEMMA CollectsNext ==
  ASSUME NEW lines \in Seq(Pads), NEW limit \in Nat, NEW n \in 1 .. Len(lines) - 1, NEW a,
         Collects(a, lines, limit, n), Numbered(lines, n)
  PROVE  Collects(Collected(a, lines[n + 1], limit), lines, limit, n + 1)
<1> DEFINE r    == Run(lines, n)
           next == Run(lines, n + 1)
           line == lines[n + 1]
           b    == Collected(a, line, limit)
           call == [pad |-> a.pad, dur |-> a.dur + 1]
<1>1. /\ n \in Nat \ {0} /\ n + 1 \in 1 .. Len(lines) /\ line \in Pads /\ lines[n] \in Pads
      /\ r \in Nat /\ next \in Nat /\ next = IF line # lines[n] THEN r + 1 ELSE r
  <2>1. n \in Nat \ {0} /\ n + 1 \in 1 .. Len(lines) /\ n \in 1 .. Len(lines)
    OBVIOUS
  <2>2. line \in Pads /\ lines[n] \in Pads
    BY <2>1
  <2>3. Begins(lines, n + 1) <=> line # lines[n]
    BY <2>1 DEF Begins
  <2>4. r \in Nat /\ n + 1 \in Nat
    BY <2>1, RunNext
  <2>5. next \in Nat
    BY <2>4, RunNext
  <2>6. next = IF line # lines[n] THEN r + 1 ELSE r
    BY <2>1, <2>3, RunNext
  <2> QED  BY <2>1, <2>2, <2>4, <2>5, <2>6
<1>2. r >= 1
  BY <1>1 DEF Numbered
<1>3. /\ a \in Accs /\ a.dur \in Nat \ {0} /\ a.pad \in Pads /\ a.dstn \in Nat
      /\ a.calls \in Seq(Held) /\ Len(a.calls) \in Nat /\ Right(a.calls, lines, n)
      /\ IF r <= limit + 1
         THEN a.dstn = r - 1 /\ Len(a.calls) = r - 1 /\ a.pad = lines[n] /\ a.dur = Lasts(lines, n, r)
         ELSE a.dstn = limit + 1 /\ Len(a.calls) = limit
  BY DEF Collects, Accs
<1>4. \A c : Lasts(lines, n + 1, c) = IF next = c THEN Lasts(lines, n, c) + 1 ELSE Lasts(lines, n, c)
  BY <1>1, LastsNext
<1>5. Lasts(lines, n, r + 1) = 0
  BY <1>1, NoLines
<1> HIDE DEF r, next, line
<1>6. CASE r > limit + 1
  <2>1. b = a
    BY <1>1, <1>3, <1>6 DEF Collected
  <2>2. Right(a.calls, lines, n + 1)
    BY <1>1, <1>3, <1>6, StillRight DEF next
  <2> HIDE DEF b
  <2>3. next > limit + 1
    BY <1>1, <1>6
  <2>4. Collects(b, lines, limit, n + 1)
    BY <1>1, <1>3, <1>6, <2>1, <2>2, <2>3 DEF Collects, next
  <2> QED  BY <2>4 DEF b, line
<1>7. CASE r <= limit + 1 /\ line = lines[n]
  <2>1. b = [a EXCEPT !.dur = @ + 1] /\ next = r
    BY <1>1, <1>3, <1>7 DEF Collected
  <2>2. /\ b \in Accs /\ b.dur = a.dur + 1 /\ b.calls = a.calls /\ b.dstn = a.dstn /\ b.pad = a.pad
    BY <1>3, <2>1 DEF Accs
  <2>3. Right(a.calls, lines, n + 1)
    BY <1>1, <1>3, <1>7, <2>1, StillRight DEF next
  <2> HIDE DEF b
  <2>4. Collects(b, lines, limit, n + 1)
    <3>1. b.dur = Lasts(lines, n + 1, next) /\ b.dur # 0
      BY <1>3, <1>4, <1>7, <2>1, <2>2
    <3>2. b.pad = lines[n + 1]
      BY <1>3, <1>7, <2>2 DEF line
    <3> QED  BY <1>3, <1>7, <2>1, <2>2, <2>3, <3>1, <3>2 DEF Collects, next
  <2> QED  BY <2>4 DEF b, line
<1>8. CASE r <= limit /\ line # lines[n]
  <2> DEFINE more == Append(a.calls, call)
  <2>1. b = [pad |-> line, dur |-> 1, calls |-> more, dstn |-> r] /\ next = r + 1
    <3>1. a = [pad |-> a.pad, dur |-> a.dur, calls |-> a.calls, dstn |-> a.dstn]
      BY <1>3 DEF Accs
    <3>2. a.dstn + 1 = r /\ ~(a.dstn > limit) /\ ~(r > limit) /\ a.dur # 0 /\ line # a.pad
      BY <1>1, <1>2, <1>3, <1>8
    <3>3. next = r + 1
      BY <1>1, <1>8
    <3> QED  BY <3>1, <3>2, <3>3 DEF Collected, Emitted
  <2>2. call \in Held /\ call.pad = lines[n] /\ call.dur = Lasts(lines, n, r) + 1
    BY <1>1, <1>3, <1>8 DEF Held
  <2>3. Right(more, lines, n + 1)
    <3> HIDE DEF call, b
    <3>1. /\ n \in Nat \ {0} /\ a.calls \in Seq(Held) /\ Right(a.calls, lines, n)
          /\ r = Len(a.calls) + 1 /\ next = r + 1
      BY <1>1, <1>3, <1>8, <2>1
    <3> QED  BY <2>2, <3>1, OneMoreRight, Zenon DEF r, next
  <2>4. more \in Seq(Held) /\ Len(more) = r
    BY <1>1, <1>2, <1>3, <1>8, <2>2
  <2> HIDE DEF more
  <2>5. b \in Accs /\ b.dur = 1 /\ b.calls = more /\ b.dstn = r /\ b.pad = line
    BY <1>1, <2>1, <2>4 DEF Accs
  <2> HIDE DEF b
  <2>6. Lasts(lines, n + 1, next) = 1
    BY <1>4, <1>5, <2>1
  <2>7. Collects(b, lines, limit, n + 1)
    BY <1>1, <1>8, <2>1, <2>3, <2>4, <2>5, <2>6 DEF Collects, next, line
  <2> QED  BY <2>7 DEF b, line
<1>9. CASE r = limit + 1 /\ line # lines[n]
  <2>1. b = [pad |-> a.pad, dur |-> a.dur + 1, calls |-> a.calls, dstn |-> r] /\ next = r + 1
    <3>1. a = [pad |-> a.pad, dur |-> a.dur, calls |-> a.calls, dstn |-> a.dstn]
      BY <1>3 DEF Accs
    <3>2. a.dstn + 1 = r /\ ~(a.dstn > limit) /\ r > limit /\ a.dur # 0 /\ line # a.pad
      BY <1>1, <1>2, <1>3, <1>9
    <3>3. next = r + 1
      BY <1>1, <1>9
    <3> QED  BY <3>1, <3>2, <3>3 DEF Collected, Emitted
  <2>2. Right(a.calls, lines, n + 1)
    BY <1>1, <1>3, <1>9, <2>1, StillRight DEF next
  <2> HIDE DEF b
  <2>3. /\ b \in Accs /\ b.dur = a.dur + 1 /\ b.calls = a.calls /\ b.dstn = limit + 1
    BY <1>1, <1>3, <1>9, <2>1 DEF Accs
  <2>4. Collects(b, lines, limit, n + 1)
    BY <1>1, <1>3, <1>9, <2>1, <2>2, <2>3 DEF Collects, next
  <2> QED  BY <2>4 DEF b, line
<1> QED  BY <1>1, <1>6, <1>7, <1>8, <1>9

(* All of the lines are collected. *)
LEMMA CollectsAll ==
  ASSUME NEW lines \in Seq(Pads), NEW limit \in Nat, Len(lines) # 0
  PROVE  /\ Collects(Acc(lines, limit, Len(lines)), lines, limit, Len(lines))
         /\ Numbered(lines, Len(lines))
<1> DEFINE Good(n) == Collects(Acc(lines, limit, n), lines, limit, n) /\ Numbered(lines, n)
           bad == {n \in 1 .. Len(lines) : ~Good(n)}
<1>1. Len(lines) \in Nat /\ Len(lines) \in 1 .. Len(lines) /\ 1 \in 1 .. Len(lines)
  OBVIOUS
<1>2. Good(1)
  <2>1. Acc(lines, limit, 1) = Collected(Acc(lines, limit, 1 - 1), lines[1], limit) /\ 1 - 1 = 0
    BY <1>1, AccDef
  <2>2. Acc(lines, limit, 0) = Nothing(Neutral)
    BY AccDef
  <2> QED  BY <2>1, <2>2, CollectsFirst
<1>3. ASSUME NEW n \in 1 .. Len(lines) - 1, Good(n) PROVE Good(n + 1)
  <2>1. n \in Nat \ {0} /\ n + 1 \in 1 .. Len(lines) /\ (n + 1) - 1 = n
    BY <1>1
  <2>2. Acc(lines, limit, n + 1) = Collected(Acc(lines, limit, n), lines[n + 1], limit)
    BY <2>1, AccDef
  <2>3. Collects(Acc(lines, limit, n + 1), lines, limit, n + 1)
    BY <1>3, <2>2, CollectsNext
  <2>4. Numbered(lines, n + 1)
    BY <1>3, <2>1, NumberedNext
  <2> QED  BY <2>3, <2>4
<1> HIDE DEF Good
<1>4. bad = {}
  <2> SUFFICES ASSUME bad # {} PROVE FALSE
    OBVIOUS
  <2>1. PICK n \in bad : \A m \in bad : n <= m
    <3>1. bad \subseteq Nat
      OBVIOUS
    <3> HIDE DEF bad
    <3> QED  BY <3>1, LeastNat
  <2>2. n \in 1 .. Len(lines) /\ ~Good(n) /\ n # 1
    BY <1>2
  <2>3. n - 1 \in 1 .. Len(lines) - 1 /\ n - 1 \in 1 .. Len(lines) /\ ~(n <= n - 1) /\ (n - 1) + 1 = n
    BY <1>1, <2>2
  <2>4. Good(n - 1)
    BY <2>1, <2>3
  <2> QED  BY <1>3, <2>2, <2>3, <2>4
<1> QED  BY <1>1, <1>4 DEF Good

(* The script plays the runs of any file, as far as its calls fit. *)
LEMMA PlaysAnyFile ==
  ASSUME NEW lines \in Seq(Pads), NEW limit \in Nat
  PROVE  PlaysRuns(Transpiled(lines, Neutral, limit), lines, limit)
<1> DEFINE a == Acc(lines, limit, Len(lines))
           n == Len(lines)
           r == Run(lines, n)
           calls == IF a.dur = 0 THEN <<>> ELSE Emitted(a, limit).calls
<1>1. Transpiled(lines, Neutral, limit) = calls
  <2>1. DOMAIN lines = 1 .. Len(lines)
    OBVIOUS
  <2>2. FoldLeft(LAMBDA x, line : Collected(x, line, limit), Nothing(Neutral), lines) = a
    BY <2>1, FoldIter, Zenon DEF Acc
  <2> HIDE DEF a
  <2> QED  BY <2>2, Zenon DEF Transpiled
<1>2. n \in Nat /\ r \in Nat
  BY RunNext
<1>3. CASE n = 0
  <2>1. a.dur = 0
    <3>1. Acc(lines, limit, 0) = Nothing(Neutral)
      BY AccDef, Zenon
    <3>2. a = Nothing(Neutral)
      BY <1>3, <3>1
    <3> HIDE DEF a
    <3> QED  BY <3>2 DEF Nothing
  <2>2. calls = <<>> /\ r = 0
    BY <1>3, <2>1, RunNext
  <2> HIDE DEF a, calls
  <2>3. PlaysRuns(calls, lines, limit)
    BY <1>3, <2>2 DEF PlaysRuns
  <2> QED  BY <1>1, <2>3
<1>4. CASE n # 0
  <2>1. Collects(a, lines, limit, n) /\ Numbered(lines, n)
    BY <1>4, CollectsAll
  <2> HIDE DEF a, n
  <2>2. /\ a \in Accs /\ a.dur \in Nat \ {0} /\ a.pad \in Pads /\ a.dstn \in Nat
        /\ a.calls \in Seq(Held) /\ Len(a.calls) \in Nat /\ Right(a.calls, lines, n)
        /\ IF r <= limit + 1
           THEN a.dstn = r - 1 /\ Len(a.calls) = r - 1 /\ a.pad = lines[n] /\ a.dur = Lasts(lines, n, r)
           ELSE a.dstn = limit + 1 /\ Len(a.calls) = limit
    BY <2>1 DEF Collects, Accs
  <2>3. n \in 1 .. n /\ r >= 1
    BY <1>2, <1>4, <2>1 DEF Numbered
  <2> HIDE DEF r
  <2> DEFINE call == [pad |-> a.pad, dur |-> a.dur]
             more == Append(a.calls, call)
  <2>4. calls = IF a.dstn + 1 > limit THEN a.calls ELSE more
    BY <2>2 DEF Emitted, Accs
  <2> HIDE DEF calls
  <2>5. CASE r <= limit
    <3>1. calls = more /\ Len(a.calls) = r - 1
      BY <1>2, <2>2, <2>3, <2>4, <2>5
    <3>2. call \in Held /\ call.pad = lines[n] /\ call.dur = Lasts(lines, n, r) /\ call.dur \in Nat
      BY <1>2, <2>2, <2>5 DEF Held
    <3> HIDE DEF call
    <3>3. Len(more) = r /\ more[r] = call /\ \A c \in 1 .. r - 1 : more[c] = a.calls[c]
      BY <1>2, <2>2, <2>3, <3>1, <3>2
    <3> HIDE DEF more
    <3>4. ASSUME NEW k \in 1 .. n PROVE more[Run(lines, k)].pad = lines[k]
      <4>1. Run(lines, k) \in 1 .. r /\ (Run(lines, k) = r => lines[k] = lines[n])
        BY <2>1 DEF Numbered, r
      <4>2. CASE Run(lines, k) = r
        <5>1. more[r].pad = call.pad
          BY <3>3, Zenon
        <5>2. lines[k] = call.pad
          BY <3>2, <4>1, <4>2, Zenon
        <5> QED  BY <4>2, <5>1, <5>2, Zenon
      <4>3. CASE Run(lines, k) \in 1 .. r - 1
        <5>1. Run(lines, k) <= Len(a.calls)
          BY <1>2, <3>1, <4>3
        <5>2. a.calls[Run(lines, k)].pad = lines[k]
          BY <2>2, <5>1, Zenon DEF Right
        <5>3. more[Run(lines, k)] = a.calls[Run(lines, k)]
          BY <3>3, <4>3, Zenon
        <5> QED  BY <5>2, <5>3, Zenon
      <4> QED  BY <1>2, <4>1, <4>2, <4>3
    <3>5. ASSUME NEW c \in 1 .. r PROVE more[c].dur \in Lasts(lines, n, c) .. Lasts(lines, n, c) + 1
      <4>1. CASE c = r
        BY <3>2, <3>3, <4>1
      <4>2. CASE c \in 1 .. r - 1
        BY <2>2, <3>1, <3>3, <4>2 DEF Right
      <4> QED  BY <1>2, <4>1, <4>2
    <3>6. Len(calls) = IF limit < r THEN limit ELSE r
      BY <1>2, <2>5, <3>1, <3>3
    <3>7. PlaysRuns(calls, lines, limit)
      BY <3>1, <3>3, <3>4, <3>5, <3>6 DEF PlaysRuns, n, r
    <3> QED  BY <1>1, <3>7
  <2>6. CASE r > limit
    <3>1. calls = a.calls /\ Len(a.calls) = limit
      BY <1>2, <2>2, <2>3, <2>4, <2>6
    <3>2. Len(calls) = IF limit < r THEN limit ELSE r
      BY <1>2, <2>6, <3>1
    <3>3. Right(calls, lines, n)
      BY <2>2, <3>1
    <3>4. PlaysRuns(calls, lines, limit)
      BY <3>2, <3>3 DEF PlaysRuns, Right, n, r
    <3> QED  BY <1>1, <3>4
  <2> QED  BY <1>2, <2>5, <2>6
<1> QED  BY <1>3, <1>4

(* The lines that are emitted are a sequence, whatever the labels are. *)
LEMMA EmittedLines ==
  ASSUME NEW pad \in Pads, NEW m \in Nat, NEW n \in Nat
  PROVE  NxEmitted(pad, m, n) \in Seq(NxLine)
<1> DEFINE fr   == (LogicalFrames(n) - LogicalFrames(m) - 1) % Word
           last == (LogicalFrames(n) - 1) % Word
           d    == last - fr
           s    == [k \in 1 .. d |-> [fr |-> fr + k - 1, pad |-> pad]]
<1>1. fr \in Int /\ d \in Int
  <2>1. LogicalFrames(n) \in Int /\ LogicalFrames(m) \in Int
    BY DEF LogicalFrames
  <2>2. \A x \in Int : x % Word \in Int
    BY FrameAssumption
  <2> QED  BY <2>1, <2>2
<1>2. NxEmitted(pad, m, n) = s
  BY Zenon DEF NxEmitted
<1> HIDE DEF fr, d
<1>3. s \in [1 .. d -> NxLine]
  BY <1>1 DEF NxLine
<1>4. \E l \in Nat : 1 .. d = 1 .. l
  <2>1. CASE d \in Nat
    BY <2>1
  <2>2. CASE d \notin Nat
    BY <1>1, <2>2
  <2> QED  BY <2>1, <2>2
<1> HIDE DEF s
<1>5. PICK l \in Nat : s \in [1 .. l -> NxLine]
  BY <1>3, <1>4, Zenon
<1>6. s \in Seq(NxLine)
  BY <1>5
<1> QED  BY <1>2, <1>6

LinesType == PadType /\ record60 \in Nat /\ nxLines \in Seq(NxLine)

(* What is emitted is a sequence of lines with inputs. *)
LEMMA LinesTypeStep == LinesType /\ [Next]_vars => LinesType'
<1> SUFFICES ASSUME LinesType, [Next]_vars PROVE record60' \in Nat /\ nxLines' \in Seq(NxLine)
  BY PadTypeStep DEF LinesType
<1>1. ASSUME NEW rest, CompletedInput(rest), record60' \in Nat PROVE nxLines' \in Seq(NxLine)
  <2>1. NxEmitted(accumulator, input60, record60') \in Seq(NxLine)
    BY <1>1, EmittedLines DEF LinesType, PadType
  <2>2. nxLines \o NxEmitted(accumulator, input60, record60') \in Seq(NxLine)
    BY <2>1 DEF LinesType
  <2> QED  BY <1>1, <2>2 DEF CompletedInput, EmitCompletedInput, emitted, LinesType
<1>2. ASSUME NEW d \in Deltas, Calc(d) PROVE record60' \in Nat /\ nxLines' \in Seq(NxLine)
  <2>1. record60' \in Nat
    BY <1>2, FrameAssumption DEF Calc, LinesType
  <2> QED  BY <1>1, <1>2, <2>1 DEF Calc, StillHeld, Changed, emitted, LinesType
<1>3. ASSUME NEW nx, NEW toFile, BeginDump(nx, toFile) PROVE record60' \in Nat /\ nxLines' \in Seq(NxLine)
  BY <1>3 DEF BeginDump, ResetTimes
<1>4. CASE EndDump
  BY <1>1, <1>4 DEF EndDump, LinesType
<1>5. CASE ApplyCurrentInput \/ UNCHANGED vars
  BY <1>5 DEF ApplyCurrentInput, accumVars, emitted, vars, LinesType
<1> QED  BY <1>2, <1>3, <1>4, <1>5 DEF Next, BeginPreset, ToggleDump

(* Executed, an nx-TAS recording plays its inputs in order, each once and for  *)
(* as long as it was held or one frame longer; if the buffer is too short,     *)
(* inputs are missing at the end and nowhere else (transpileImpl_nxtas_to_as). *)
THEOREM TranspiledCorrect == Spec => []TranspiledInOrder
<1>1. Init => LinesType
  BY InitPadType DEF Init, LinesType
<1>2. LinesType /\ [Next]_vars => LinesType'
  BY LinesTypeStep
<1>3. LinesType => TranspiledInOrder
  <2> SUFFICES ASSUME LinesType, NEW limit \in 0 .. MaxFrames
               PROVE  PlaysRuns(Transpiled(NxFile, Neutral, limit), NxFile, limit)
    BY DEF TranspiledInOrder
  <2>1. NxFile \in Seq(Pads)
    <3>1. Len(nxLines) \in Nat /\ \A k \in 1 .. Len(nxLines) : nxLines[k].pad \in Pads
      <4>1. Len(nxLines) \in Nat /\ \A k \in 1 .. Len(nxLines) : nxLines[k] \in NxLine
        BY DEF LinesType
      <4>2. \A l \in NxLine : l.pad \in Pads
        BY DEF NxLine
      <4> QED  BY <4>1, <4>2, Zenon
    <3>2. NxFile \in [1 .. Len(nxLines) -> Pads]
      BY <3>1, Zenon DEF NxFile
    <3> QED  BY <3>1, <3>2
  <2> QED  BY <2>1, FrameAssumption, PlaysAnyFile
<1> QED  BY <1>1, <1>2, <1>3, PTL DEF Spec
=============================================================================
