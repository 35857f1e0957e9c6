---------------------------- MODULE ControlsProofs ----------------------------
(***************************************************************************)
(* What is proved about the frame as a whole.  First the script scheduler, *)
(* alone (specification Spec of module Schedule), for every stack depth,   *)
(* set of modules, pauses and durations; then, under ControlsSpec and from *)
(* the same lemmas, the hotkeys, whatever else happens; what becomes of    *)
(* the input a script schedules, whatever hotkeys and the frontend start   *)
(* in between; and what is recorded of it.                                 *)
(***************************************************************************)
EXTENDS ControlsProperties, ScheduleProperties, SequenceTheorems, WellFoundedInduction, TLAPS

Assumptions == /\ MaxDepth \in Nat \ {0} /\ NoModule \notin Handles
               /\ DebugPause \in Keys /\ LoadingPause \in Keys
               /\ Vanilla \in Pads
               /\ Durations \subseteq Nat /\ Deltas \subseteq Nat \ {0}
               /\ ElapsedMod \in Nat \ {0}
               /\ MaxPause \in Nat /\ MaxBypass \in Nat /\ MaxHostPush \in Nat /\ PushDepth \in Nat

(* The assumptions on the constants, in the form the leaves use them. *)
LEMMA ConstantsOK == Assumptions
BY DepthAssumption, ModuleAssumption, KeyAssumption, PadAssumption, TimeAssumption, BoundAssumption
   DEF Assumptions

PauseCounts == [Keys -> 0 .. MaxPause]

(* Requests and releases of a pause keep the counts in their bounds. *)
LEMMA PauseType ==
  ASSUME NEW p \in PauseCounts, NEW k \in Keys
  PROVE  /\ Requested(p, k) \in PauseCounts /\ Released(p, k) \in PauseCounts
BY ConstantsOK DEF Assumptions, Requested, Released, PauseCounts

(* resetState yields a state, and so does setting its blockOnDebugPause. *)
LEMMA ResetType ==
  ASSUME NEW pad \in Pads, NEW b \in BOOLEAN
  PROVE  /\ ResetState(pad) \in SchedState
         /\ [ResetState(pad) EXCEPT !.debug = b] \in SchedState
         /\ [ResetState(pad) EXCEPT !.debug = FALSE, !.loading = FALSE] \in SchedState
BY DEF ResetState, SchedState, Waits

(* isBlockedFromScheduling changes only the awaits of the state. *)
LEMMA SchedulableType ==
  ASSUME NEW s \in SchedState
  PROVE  Schedulable(s)[2] \in SchedState
<1>1. EndAwaitOf(DebugPause, s) \in SchedState
  BY DEF EndAwaitOf, SchedState, Waits
<1>2. AfterDebug(s) \in SchedState
  BY <1>1 DEF AfterDebug
<1>3. ASSUME NEW t \in SchedState
      PROVE  /\ AfterLoading(t) \in SchedState
             /\ AfterRequest(t) \in SchedState
             /\ AfterTarget(t) \in SchedState
  BY <1>3 DEF AfterLoading, EndAwaitOf, AfterRequest, AfterTarget, SchedState, Waits
<1> QED
  BY <1>2, <1>3 DEF Schedulable

FrameOutcome == [play : BOOLEAN, count : BOOLEAN, bypass : 0 .. MaxBypass, pause : PauseCounts]

(* Frame advance keeps its counter and the pause counts in their bounds. *)
LEMMA FrameAdvanceType ==
  ASSUME TypeOK, NEW b \in BOOLEAN
  PROVE  FrameAdvance(b) \in FrameOutcome
<1>1. pause \in PauseCounts /\ bypass \in 0 .. MaxBypass /\ delta \in Nat
  BY DEF TypeOK, PauseCounts
<1>2. Requested(pause, DebugPause) \in PauseCounts /\ Released(pause, DebugPause) \in PauseCounts
  BY <1>1, PauseType, ConstantsOK DEF Assumptions
<1>3. LeftOfStep \in 0 .. MaxBypass
  BY <1>1, ConstantsOK DEF LeftOfStep, Assumptions
<1>4. PauseAfterStep \in PauseCounts
  BY <1>1, <1>2 DEF PauseAfterStep
<1>5. 0 \in 0 .. MaxBypass
  BY ConstantsOK DEF Assumptions
<1> QED
  BY <1>1, <1>2, <1>3, <1>4, <1>5 DEF FrameAdvance, FrameOutcome

-----------------------------------------------------------------------------
(* Type correctness.  A script that executes, or to which a system call      *)
(* returns, has a calcCtx that executes it.                                  *)
TypeInv == TypeOK /\ (pc \in {"script", "sysret"} => native # <<>>)

(* Taking the innermost calcCtx call off the nest, or adding one, keeps it a sequence of slots. *)
LEMMA NativeType ==
  ASSUME native \in Seq(Slots), native # <<>>
  PROVE  /\ Running \in Slots /\ Outer \in Seq(Slots)
         /\ Len(native) \in Nat \ {0} /\ Len(Outer) = Len(native) - 1
         /\ \A k \in 1 .. Len(Outer) : Outer[k] = native[k]
<1>1. Len(native) \in Nat \ {0}
  OBVIOUS
<1>2. Running \in Slots
  BY <1>1 DEF Running
<1>3. \A i \in 1 .. Len(native) - 1 : native[i] \in Slots
  BY <1>1
<1>4. /\ Outer \in Seq(Slots) /\ Len(Outer) = Len(native) - 1
      /\ \A k \in 1 .. Len(Outer) : Outer[k] = native[k]
  <2> DEFINE n == Len(native) - 1
  <2>1. n \in Int /\ 1 \in Int /\ n >= 0
    BY <1>1
  <2>2. /\ SubSeq(native, 1, n) \in Seq(Slots)
        /\ Len(SubSeq(native, 1, n)) = IF 1 <= n THEN n - 1 + 1 ELSE 0
        /\ \A i \in 1 .. n - 1 + 1 : SubSeq(native, 1, n)[i] = native[1 + i - 1]
    BY <1>3, <2>1, SubSeqProperties
  <2>3. Outer = SubSeq(native, 1, n)
    BY DEF Outer
  <2> HIDE DEF n
  <2>4. Outer \in Seq(Slots) /\ Len(Outer) = n
    BY <2>1, <2>2, <2>3
  <2>5. ASSUME NEW k \in 1 .. n PROVE Outer[k] = native[k]
    BY <2>1, <2>2, <2>3
  <2> QED
    BY <2>1, <2>4, <2>5 DEF n
<1> QED
  BY <1>1, <1>2, <1>4

(* The initial state is well typed. *)
LEMMA TypeInvInit == Init => TypeInv
<1> SUFFICES ASSUME Init PROVE TypeInv
  OBVIOUS
<1>1. [ResetState(Vanilla) EXCEPT !.debug = FALSE, !.loading = FALSE] \in SchedState
  BY ResetType, ConstantsOK DEF Assumptions
<1>2. sched \in [Slots -> SchedState]
  BY <1>1 DEF Init
<1>3. sp \in Slots /\ elapsed \in 0 .. ElapsedMod - 1 /\ delta \in Nat
  BY ConstantsOK DEF Init, Assumptions, Slots
<1>4. /\ bypass \in 0 .. MaxBypass /\ pushes \in 0 .. MaxHostPush
      /\ pause \in [Keys -> 0 .. MaxPause]
  BY ConstantsOK DEF Init, Assumptions
<1>5. native \in Seq(Slots)
  BY DEF Init
<1> QED
  BY <1>2, <1>3, <1>4, <1>5 DEF Init, TypeInv, TypeOK, CtxStatus

(* An abort request keeps the types. *)
LEMMA AbortReqType ==
  ASSUME NEW c \in [Slots -> CtxStatus], AbortStackReq(c)
  PROVE  /\ abortReq' \in BOOLEAN /\ ctx' \in [Slots -> CtxStatus]
         /\ susp' \in [Slots -> BOOLEAN] /\ abrt' \in [Slots -> BOOLEAN]
BY DEF AbortStackReq, CtxStatus

(* The variables a push works on, in their types. *)
StackTypeOK ==
  /\ sp \in Slots
  /\ active \in BOOLEAN /\ pending \in BOOLEAN /\ abortReq \in BOOLEAN
  /\ mod \in [Slots -> Handles \cup {NoModule}]
  /\ sched \in [Slots -> SchedState]
  /\ ctx \in [Slots -> CtxStatus]
  /\ susp \in [Slots -> BOOLEAN] /\ abrt \in [Slots -> BOOLEAN]

(* pushExecModuleEntryPoint keeps types in each of its four outcomes. *)
LEMMA PushEntryType ==
  ASSUME StackTypeOK, NEW h \in Handles, NEW hasEntry \in BOOLEAN,
         NEW imm \in BOOLEAN, NEW block \in BOOLEAN, NEW ret \in {"push", "sysret"},
         PushEntryPoint(h, hasEntry, imm, block, ret)
  PROVE  /\ StackTypeOK'
         /\ pc' \in {ret, "enter", "corrupt"}
         /\ UNCHANGED <<native, elapsed>>
<1> DEFINE grow  == mod[sp] # NoModule
           top   == IF grow THEN sp + 1 ELSE sp
           fresh == ResetState(IF grow THEN sched[sp].pad ELSE Vanilla)
           ready == ctx[top] \notin {"active", "suspended"}
<1>1. (IF grow THEN sched[sp].pad ELSE Vanilla) \in Pads
  BY ConstantsOK DEF StackTypeOK, SchedState, Assumptions
<1>2. fresh \in SchedState /\ [fresh EXCEPT !.debug = block] \in SchedState
  BY <1>1, ResetType
<1> HIDE DEF fresh
<1>3. CASE /\ top \notin Slots
           /\ pc' = "corrupt"
           /\ UNCHANGED <<native, sp, playVars, mod, sched, ctxVars>>
  BY <1>3 DEF StackTypeOK, playVars, ctxVars
<1>4. CASE /\ top \in Slots /\ grow /\ mod[top] # NoModule
           /\ sched' = [sched EXCEPT ![top] = fresh]
           /\ AbortStackReq(ctx)
           /\ pc' = ret
           /\ UNCHANGED <<native, sp, active, pending, elapsed, mod>>
  BY <1>2, <1>4, AbortReqType DEF StackTypeOK
<1>5. CASE /\ top \in Slots /\ mod[top] = NoModule /\ ~hasEntry
           /\ mod' = [mod EXCEPT ![top] = h]
           /\ sched' = [sched EXCEPT ![top] = [fresh EXCEPT !.debug = block]]
           /\ AbortStackReq(ctx)
           /\ pc' = ret
           /\ UNCHANGED <<native, sp, active, pending, elapsed>>
  BY <1>2, <1>5, AbortReqType DEF StackTypeOK
<1>6. CASE /\ top \in Slots /\ mod[top] = NoModule /\ hasEntry
           /\ mod' = [mod EXCEPT ![top] = h]
           /\ sched' = [sched EXCEPT ![top] = [fresh EXCEPT !.debug = block]]
           /\ ctx'  = [ctx  EXCEPT ![top] = IF ready THEN "prepared" ELSE @]
           /\ susp' = [SuspendOngoing EXCEPT ![top] = @ /\ ~ready]
           /\ abrt' = [abrt EXCEPT ![top] = @ /\ ~ready]
           /\ sp' = top
           /\ pending' = (pending \/ ~imm)
           /\ pc' = IF imm THEN "enter" ELSE ret
           /\ UNCHANGED <<native, active, abortReq, elapsed>>
  <2>1. mod' \in [Slots -> Handles \cup {NoModule}] /\ sched' \in [Slots -> SchedState]
    BY <1>2, <1>6 DEF StackTypeOK
  <2>2. ctx' \in [Slots -> CtxStatus] /\ abrt' \in [Slots -> BOOLEAN]
    BY <1>6 DEF StackTypeOK, CtxStatus
  <2>3. SuspendOngoing \in [Slots -> BOOLEAN]
    BY DEF SuspendOngoing, StackTypeOK
  <2>4. susp' \in [Slots -> BOOLEAN]
    BY <1>6, <2>3
  <2> QED
    BY <1>6, <2>1, <2>2, <2>4 DEF StackTypeOK
<1> QED
  BY <1>3, <1>4, <1>5, <1>6 DEF PushEntryPoint, fresh

(* Pushing a script keeps the types, whoever pushes it. *)
LEMMA PushType ==
  ASSUME StackTypeOK, registry \in [Names -> Handles \cup {NoModule}],
         NEW n \in Names, NEW imm \in BOOLEAN, NEW block \in BOOLEAN,
         NEW ret \in {"push", "sysret"}, PushScript(n, imm, block, ret)
  PROVE  /\ StackTypeOK'
         /\ registry' \in [Names -> Handles \cup {NoModule}]
         /\ pc' \in {ret, "enter", "corrupt"}
         /\ UNCHANGED <<native, elapsed>>
<1>1. CASE /\ AbortStackReq(ctx) /\ pc' = ret
           /\ UNCHANGED <<native, sp, active, pending, elapsed, mod, sched, registry>>
  BY <1>1, AbortReqType DEF StackTypeOK
<1>2. ASSUME NEW h \in Handles,
             registry' = registry \/ registry' = [registry EXCEPT ![n] = h],
             PushEntryPoint(h, n \notin NoEntry, imm, block, ret)
      PROVE  /\ StackTypeOK'
             /\ registry' \in [Names -> Handles \cup {NoModule}]
             /\ pc' \in {ret, "enter", "corrupt"}
             /\ UNCHANGED <<native, elapsed>>
  <2>1. (n \notin NoEntry) \in BOOLEAN
    OBVIOUS
  <2> QED
    BY <1>2, <2>1, PushEntryType
<1> QED
  BY <1>1, <1>2 DEF PushScript

(* calcCtx returns, or pops the frame it executed. *)
LEMMA CalcReturnType ==
  ASSUME TypeInv, NEW n \in Seq(Slots), NEW done \in BOOLEAN, CalcReturn(n, done)
  PROVE  /\ native' \in Seq(Slots) /\ active' \in BOOLEAN
         /\ pc' \in {"game", "sysret"} /\ (pc' = "sysret" => native' # <<>>)
BY DEF CalcReturn, TypeInv, TypeOK

(* Types are kept by a push by the websocket or a hotkey. *)
LEMMA HostPushTypeInv == TypeInv /\ HostPush => TypeInv'
<1> SUFFICES ASSUME TypeInv, HostPush PROVE TypeInv'
  OBVIOUS
<1>1. PICK n \in Names, block \in BOOLEAN : PushScript(n, FALSE, block, "push")
  BY DEF HostPush
<1>2. StackTypeOK /\ registry \in [Names -> Handles \cup {NoModule}]
  BY DEF TypeInv, TypeOK, StackTypeOK
<1>3. /\ StackTypeOK' /\ registry' \in [Names -> Handles \cup {NoModule}]
      /\ pc' \in {"push", "enter", "corrupt"} /\ UNCHANGED <<native, elapsed>>
  BY <1>1, <1>2, PushType
<1>4. pushes' \in 0 .. MaxHostPush
  BY ConstantsOK DEF HostPush, TypeInv, TypeOK, Assumptions
<1> QED
  BY <1>3, <1>4 DEF HostPush, TypeInv, TypeOK, StackTypeOK, advVars

(* Types are kept by a push by the running script. *)
LEMMA PushFromScriptTypeInv == TypeInv /\ PushFromScript => TypeInv'
<1> SUFFICES ASSUME TypeInv, PushFromScript PROVE TypeInv'
  OBVIOUS
<1>1. PICK n \in Names, imm \in BOOLEAN, block \in BOOLEAN : PushScript(n, imm, block, "sysret")
  BY DEF PushFromScript
<1>2. StackTypeOK /\ registry \in [Names -> Handles \cup {NoModule}]
  BY DEF TypeInv, TypeOK, StackTypeOK
<1>3. /\ StackTypeOK' /\ registry' \in [Names -> Handles \cup {NoModule}]
      /\ pc' \in {"sysret", "enter", "corrupt"} /\ UNCHANGED <<native, elapsed>>
  BY <1>1, <1>2, PushType
<1>4. native # <<>>
  BY DEF PushFromScript, TypeInv
<1> QED
  BY <1>3, <1>4 DEF PushFromScript, TypeInv, TypeOK, StackTypeOK, advVars, envVars

(* Types are kept by Playback::calc, which may process an abort. *)
LEMMA PlaybackCalcTypeInv == TypeInv /\ PlaybackCalc => TypeInv'
<1> SUFFICES ASSUME TypeInv, PlaybackCalc PROVE TypeInv'
  OBVIOUS
<1>1. CASE abortReq /\ AbortStackImpl
  <2>1. ctx' \in [Slots -> CtxStatus]
    BY <1>1 DEF AbortStackImpl, AbortFrames, TypeInv, TypeOK, CtxStatus
  <2>2. susp' \in [Slots -> BOOLEAN] /\ abrt' \in [Slots -> BOOLEAN]
    BY <1>1 DEF AbortStackImpl, AbortFrames, TypeInv, TypeOK
  <2>3. /\ mod' \in [Slots -> Handles \cup {NoModule}]
        /\ registry' \in [Names -> Handles \cup {NoModule}]
    BY <1>1 DEF AbortStackImpl, AbortFrames, TypeInv, TypeOK
  <2>4. abortReq' = FALSE /\ active' = FALSE /\ sp' = 0
    BY <1>1 DEF AbortStackImpl, AbortFrames
  <2>5. 0 \in Slots
    BY ConstantsOK DEF Assumptions, Slots
  <2> QED
    BY <2>1, <2>2, <2>3, <2>4, <2>5 DEF PlaybackCalc, TypeInv, TypeOK, advVars
<1>2. CASE ~abortReq /\ UNCHANGED <<abortReq, active, sp, mod, registry, ctxVars>>
  BY <1>2 DEF PlaybackCalc, TypeInv, TypeOK, advVars, ctxVars
<1> QED
  BY <1>1, <1>2 DEF PlaybackCalc

(* Types are kept by calcCtx on a frame that cannot be executed. *)
LEMMA CtxInvalidTypeInv == TypeInv /\ CtxInvalid => TypeInv'
<1> SUFFICES ASSUME TypeInv, CtxInvalid PROVE TypeInv'
  OBVIOUS
<1>1. /\ abortReq' \in BOOLEAN /\ ctx' \in [Slots -> CtxStatus]
      /\ susp' \in [Slots -> BOOLEAN] /\ abrt' \in [Slots -> BOOLEAN]
  BY AbortReqType DEF CtxInvalid, TypeInv, TypeOK
<1>2. /\ native' \in Seq(Slots) /\ active' \in BOOLEAN
      /\ pc' \in {"game", "sysret"} /\ (pc' = "sysret" => native' # <<>>)
  BY CalcReturnType DEF CtxInvalid, TypeInv, TypeOK
<1> QED
  BY <1>1, <1>2 DEF CtxInvalid, TypeInv, TypeOK, advVars, envVars

(* Types are kept by calcCtx on a frame held by a pause or an await. *)
LEMMA CtxBlockedTypeInv == TypeInv /\ CtxBlocked => TypeInv'
<1> SUFFICES ASSUME TypeInv, CtxBlocked PROVE TypeInv'
  OBVIOUS
<1>1. Schedulable(sched[sp])[2] \in SchedState
  BY SchedulableType DEF TypeInv, TypeOK
<1>2. sched' \in [Slots -> SchedState]
  BY <1>1 DEF CtxBlocked, TypeInv, TypeOK
<1>3. /\ native' \in Seq(Slots) /\ active' \in BOOLEAN
      /\ pc' \in {"game", "sysret"} /\ (pc' = "sysret" => native' # <<>>)
  BY CalcReturnType DEF CtxBlocked, TypeInv, TypeOK
<1> QED
  BY <1>2, <1>3 DEF CtxBlocked, TypeInv, TypeOK, advVars, envVars, ctxVars

(* Charging the time of the frame keeps the types. *)
LEMMA CtxSchedulableType ==
  ASSUME TypeInv, CtxSchedulable
  PROVE  /\ sched' \in [Slots -> SchedState] /\ elapsed' \in 0 .. ElapsedMod - 1
         /\ bypass' \in 0 .. MaxBypass /\ pause' \in PauseCounts
<1> DEFINE st == [sched EXCEPT ![sp] = Schedulable(sched[sp])[2]]
           f  == FrameAdvance(st[Charged].debug)
<1>1. st \in [Slots -> SchedState]
  <2>1. Schedulable(sched[sp])[2] \in SchedState
    BY SchedulableType DEF TypeInv, TypeOK
  <2> QED
    BY <2>1 DEF TypeInv, TypeOK
<1>2. Charged \in Slots
  BY ConstantsOK DEF Charged, TypeInv, TypeOK, Slots, Assumptions
<1>3. f \in FrameOutcome
  <2>1. st[Charged].debug \in BOOLEAN
    BY <1>1, <1>2 DEF SchedState
  <2> QED
    BY <2>1, FrameAdvanceType DEF TypeInv
<1>4. ConsumeFrametime(st)
  BY DEF CtxSchedulable
<1> HIDE DEF st
<1>5. (IF f.play THEN Played(st[Charged].ttl) ELSE st[Charged].ttl) \in Nat
  BY <1>1, <1>2 DEF Played, SchedState, TypeInv, TypeOK
<1>6. sched' \in [Slots -> SchedState]
  <2>1. sched' = [st EXCEPT ![Charged] = [st[Charged] EXCEPT !.ttl = IF f.play THEN Played(st[Charged].ttl) ELSE st[Charged].ttl]]
    BY <1>1, <1>2, <1>4 DEF ConsumeFrametime
  <2>2. [st[Charged] EXCEPT !.ttl = IF f.play THEN Played(st[Charged].ttl) ELSE st[Charged].ttl] \in SchedState
    BY <1>1, <1>2, <1>5 DEF SchedState
  <2> QED
    BY <1>1, <2>1, <2>2
<1>7. elapsed' \in 0 .. ElapsedMod - 1
  <2>1. (elapsed + delta) % ElapsedMod \in 0 .. ElapsedMod - 1
    BY ConstantsOK DEF TypeInv, TypeOK, Assumptions
  <2> QED
    BY <1>4, <2>1 DEF ConsumeFrametime, TypeInv, TypeOK
<1> QED
  BY <1>3, <1>4, <1>6, <1>7 DEF ConsumeFrametime, FrameOutcome

(* Types are kept by calcCtx on a frame with input left to play. *)
LEMMA CtxWaitTypeInv == TypeInv /\ CtxWait => TypeInv'
<1> SUFFICES ASSUME TypeInv, CtxWait PROVE TypeInv'
  OBVIOUS
<1>1. /\ sched' \in [Slots -> SchedState] /\ elapsed' \in 0 .. ElapsedMod - 1
      /\ bypass' \in 0 .. MaxBypass /\ pause' \in PauseCounts
  BY CtxSchedulableType DEF CtxWait
<1>2. /\ native' \in Seq(Slots) /\ active' \in BOOLEAN
      /\ pc' \in {"game", "sysret"} /\ (pc' = "sysret" => native' # <<>>)
  BY CalcReturnType DEF CtxWait, TypeInv, TypeOK
<1> QED
  BY <1>1, <1>2 DEF CtxWait, CtxSchedulable, TypeInv, TypeOK, PauseCounts

(* Types are kept by calcCtx entering Execute. *)
LEMMA CtxResumeTypeInv == TypeInv /\ CtxResume => TypeInv'
<1> SUFFICES ASSUME TypeInv, CtxResume PROVE TypeInv'
  OBVIOUS
<1>1. /\ sched' \in [Slots -> SchedState] /\ elapsed' \in 0 .. ElapsedMod - 1
      /\ bypass' \in 0 .. MaxBypass /\ pause' \in PauseCounts
  BY CtxSchedulableType DEF CtxResume
<1>2. native' \in Seq(Slots) /\ native' # <<>>
  BY AppendProperties DEF CtxResume, TypeInv, TypeOK
<1>3. ctx' \in [Slots -> CtxStatus]
  BY DEF CtxResume, CtxStatus, TypeInv, TypeOK
<1> QED
  BY <1>1, <1>2, <1>3
     DEF CtxResume, CtxSchedulable, PendingEnds, DeltaConsumed, TypeInv, TypeOK, PauseCounts

(* Discarding a module keeps the modules and the registry well typed. *)
LEMMA TryDiscardType ==
  ASSUME TypeInv, TryDiscardLastModule
  PROVE  /\ mod' \in [Slots -> Handles \cup {NoModule}]
         /\ registry' \in [Names -> Handles \cup {NoModule}]
BY DEF TryDiscardLastModule, Unregister, TypeInv, TypeOK

(* Types are kept by a script finishing. *)
LEMMA ScriptReturnTypeInv == TypeInv /\ ScriptReturn => TypeInv'
<1> SUFFICES ASSUME TypeInv, ScriptReturn PROVE TypeInv'
  OBVIOUS
<1>1. native # <<>> /\ Outer \in Seq(Slots) /\ Running \in Slots
  BY NativeType DEF ScriptReturn, TypeInv, TypeOK
<1>2. /\ ctx' \in [Slots -> CtxStatus] /\ susp' \in [Slots -> BOOLEAN]
      /\ mod' \in [Slots -> Handles \cup {NoModule}]
      /\ registry' \in [Names -> Handles \cup {NoModule}]
  <2>1. ctx' \in [Slots -> CtxStatus]
    BY DEF ScriptReturn, TypeInv, TypeOK, CtxStatus
  <2>2. susp' \in [Slots -> BOOLEAN]
    BY DEF ScriptReturn, TypeInv, TypeOK
  <2>3. /\ mod' \in [Slots -> Handles \cup {NoModule}]
        /\ registry' \in [Names -> Handles \cup {NoModule}]
    BY TryDiscardType DEF ScriptReturn
  <2> QED
    BY <2>1, <2>2, <2>3
<1>3. /\ pending' \in BOOLEAN /\ abortReq' \in BOOLEAN /\ elapsed' \in 0 .. ElapsedMod - 1
      /\ frameAdv' \in BOOLEAN /\ bypass' \in 0 .. MaxBypass /\ delta' \in Nat
      /\ abrt' \in [Slots -> BOOLEAN] /\ pause' \in [Keys -> 0 .. MaxPause]
      /\ targets' \in SUBSET Targets /\ pushes' \in 0 .. MaxHostPush /\ ran' \in BOOLEAN
  BY DEF ScriptReturn, TypeInv, TypeOK, advVars, envVars
<1>4. CASE sp = 0 /\ CalcReturn(Outer, TRUE) /\ UNCHANGED <<sp, sched>>
  <2>1. /\ native' \in Seq(Slots) /\ active' \in BOOLEAN
        /\ pc' \in {"game", "sysret"} /\ (pc' = "sysret" => native' # <<>>)
    BY <1>1, <1>4, CalcReturnType
  <2>2. sp' \in Slots /\ sched' \in [Slots -> SchedState]
    BY <1>4 DEF TypeInv, TypeOK
  <2> QED
    BY <1>2, <1>3, <2>1, <2>2 DEF TypeInv, TypeOK
<1>5. CASE /\ sp > 0
           /\ sched' = [sched EXCEPT ![Running - 1].pad =
                          PadInherited(sched[Running - 1], sched[Running])]
           /\ sp' = sp - 1 /\ native' = Outer /\ pc' = "enter" /\ UNCHANGED active
  <2>1. sp' \in Slots
    <3>1. sp \in Slots /\ MaxDepth \in Nat
      BY ConstantsOK DEF TypeInv, TypeOK, Assumptions
    <3>2. sp > 0 /\ sp' = sp - 1
      BY <1>5
    <3> QED
      BY <3>1, <3>2 DEF Slots
  <2>2. sched' \in [Slots -> SchedState]
    <3>1. CASE Running - 1 \in Slots
      <4> DEFINE pad == PadInherited(sched[Running - 1], sched[Running])
      <4>1. sched \in [Slots -> SchedState]
        BY DEF TypeInv, TypeOK
      <4>2. sched[Running - 1] \in SchedState /\ sched[Running] \in SchedState
        BY <1>1, <3>1, <4>1
      <4>3. pad \in Pads
        BY <4>2 DEF PadInherited, SchedState
      <4>4. sched' = [sched EXCEPT ![Running - 1].pad = pad]
        BY <1>5
      <4> HIDE DEF pad
      <4>5. [sched[Running - 1] EXCEPT !.pad = pad] \in SchedState
        BY <4>2, <4>3 DEF SchedState
      <4> QED
        BY <4>1, <4>4, <4>5
    <3>2. CASE Running - 1 \notin Slots
      BY <1>5, <3>2 DEF TypeInv, TypeOK
    <3> QED
      BY <3>1, <3>2
  <2>3. native' \in Seq(Slots) /\ active' \in BOOLEAN /\ pc' = "enter"
    BY <1>1, <1>5 DEF TypeInv, TypeOK
  <2> QED
    BY <1>2, <1>3, <2>1, <2>2, <2>3 DEF TypeInv, TypeOK
<1> QED
  BY <1>4, <1>5 DEF ScriptReturn

(* Types are kept by a script throwing. *)
LEMMA ScriptThrowTypeInv == TypeInv /\ ScriptThrow => TypeInv'
<1> SUFFICES ASSUME TypeInv, ScriptThrow PROVE TypeInv'
  OBVIOUS
<1>1. native # <<>> /\ Outer \in Seq(Slots) /\ Running \in Slots
  BY NativeType DEF ScriptThrow, TypeInv, TypeOK
<1>2. [ctx EXCEPT ![Running] = "exception"] \in [Slots -> CtxStatus]
  BY <1>1 DEF TypeInv, TypeOK, CtxStatus
<1>3. /\ abortReq' \in BOOLEAN /\ ctx' \in [Slots -> CtxStatus]
      /\ susp' \in [Slots -> BOOLEAN] /\ abrt' \in [Slots -> BOOLEAN]
  BY <1>2, AbortReqType DEF ScriptThrow
<1>4. /\ native' \in Seq(Slots) /\ active' \in BOOLEAN
      /\ pc' \in {"game", "sysret"} /\ (pc' = "sysret" => native' # <<>>)
  BY <1>1, CalcReturnType DEF ScriptThrow
<1> QED
  BY <1>3, <1>4 DEF ScriptThrow, TypeInv, TypeOK, advVars, envVars

(* Types are kept by a binding returning to its script. *)
LEMMA SysReturnTypeInv == TypeInv /\ SysReturn => TypeInv'
<1> SUFFICES ASSUME TypeInv, SysReturn PROVE TypeInv'
  OBVIOUS
<1>1. native # <<>> /\ Outer \in Seq(Slots) /\ Running \in Slots
  BY NativeType DEF SysReturn, TypeInv, TypeOK
<1>2. CASE ~susp[Running] /\ pc' = "script" /\ UNCHANGED <<native, active, ctxVars>>
  BY <1>1, <1>2 DEF SysReturn, TypeInv, TypeOK, advVars, envVars, ctxVars
<1>3. CASE /\ susp[Running]
           /\ susp' = [susp EXCEPT ![Running] = FALSE]
           /\ ctx'  = [ctx EXCEPT ![Running] = IF abrt[Running] THEN "aborted" ELSE "suspended"]
           /\ abrt' = [abrt EXCEPT ![Running] = FALSE]
           /\ CalcReturn(Outer, abrt[Running])
  <2>1. /\ ctx' \in [Slots -> CtxStatus]
        /\ susp' \in [Slots -> BOOLEAN] /\ abrt' \in [Slots -> BOOLEAN]
    BY <1>3 DEF TypeInv, TypeOK, CtxStatus
  <2>2. abrt[Running] \in BOOLEAN
    BY <1>1 DEF TypeInv, TypeOK
  <2>3. /\ native' \in Seq(Slots) /\ active' \in BOOLEAN
        /\ pc' \in {"game", "sysret"} /\ (pc' = "sysret" => native' # <<>>)
    BY <1>1, <1>3, <2>2, CalcReturnType
  <2> QED
    BY <2>1, <2>3 DEF SysReturn, TypeInv, TypeOK, advVars, envVars
<1> QED
  BY <1>2, <1>3 DEF SysReturn

(* The bindings that only change their frame, the pauses or the abort request *)
LEMMA BindingsTypeInv ==
  TypeInv /\ (\/ SetCurrentInput \/ ScheduleAwait \/ BlockOnPause \/ Yield
              \/ BeginFrameAdvance \/ StepFrameAdvance \/ EndFrameAdvance
              \/ PauseFromScript \/ AbortFromScript)
    => TypeInv'
<1> SUFFICES ASSUME TypeInv PROVE (\/ SetCurrentInput \/ ScheduleAwait \/ BlockOnPause \/ Yield
              \/ BeginFrameAdvance \/ StepFrameAdvance \/ EndFrameAdvance
              \/ PauseFromScript \/ AbortFromScript) => TypeInv'
  OBVIOUS
<1> USE DEF ScriptCall
<1>1. pc = "script" => native # <<>>
  BY DEF TypeInv
<1>2. SuspendTop => susp' \in [Slots -> BOOLEAN]
  BY DEF SuspendTop, TypeInv, TypeOK
<1>3. ASSUME SetCurrentInput PROVE TypeInv'
  <2> PICK d \in Durations, pad \in Pads :
           /\ sched' = [sched EXCEPT ![sp] = [@ EXCEPT !.ttl = d, !.pad = pad]]
           /\ IF d > 0 THEN SuspendTop ELSE UNCHANGED susp
    BY <1>3 DEF SetCurrentInput
  <2>3. [sched[sp] EXCEPT !.ttl = d, !.pad = pad] \in SchedState
    <3>1. sched[sp] \in SchedState
      BY DEF TypeInv, TypeOK
    <3>2. d \in Nat
      BY ConstantsOK DEF Assumptions
    <3> QED
      BY <3>1, <3>2 DEF SchedState
  <2>1. sched' \in [Slots -> SchedState] /\ susp' \in [Slots -> BOOLEAN]
    <3>1. sched' \in [Slots -> SchedState]
      BY <2>3 DEF TypeInv, TypeOK
    <3>2. susp' \in [Slots -> BOOLEAN]
      BY <1>2 DEF TypeInv, TypeOK
    <3> QED
      BY <3>1, <3>2
  <2>2. elapsed' \in 0 .. ElapsedMod - 1
    BY <1>3, ConstantsOK DEF SetCurrentInput, TypeInv, TypeOK, Assumptions
  <2>4. /\ frameAdv' \in BOOLEAN /\ bypass' \in 0 .. MaxBypass /\ delta' \in Nat
        /\ pause' \in [Keys -> 0 .. MaxPause] /\ targets' \in SUBSET Targets
        /\ pushes' \in 0 .. MaxHostPush /\ ran' \in BOOLEAN
    BY <1>3 DEF SetCurrentInput, TypeInv, TypeOK, advVars, envVars
  <2>5. /\ native' \in Seq(Slots) /\ native' # <<>> /\ sp' \in Slots
        /\ pending' \in BOOLEAN /\ abortReq' \in BOOLEAN /\ active' \in BOOLEAN
        /\ mod' \in [Slots -> Handles \cup {NoModule}] /\ ctx' \in [Slots -> CtxStatus]
        /\ abrt' \in [Slots -> BOOLEAN] /\ registry' \in [Names -> Handles \cup {NoModule}]
        /\ pc' = "sysret"
    BY <1>1, <1>3 DEF SetCurrentInput, TypeInv, TypeOK
  <2> QED
    BY <2>1, <2>2, <2>4, <2>5 DEF TypeInv, TypeOK
<1>4. ASSUME ScheduleAwait PROVE TypeInv'
  <2>1. sched' \in [Slots -> SchedState]
    <3>1. PICK val \in BOOLEAN :
             \/ \E k \in Keys :
                  sched' = [sched EXCEPT ![sp] = [@ EXCEPT !.val = val, !.req = k]]
             \/ \E t \in Targets :
                  sched' = [sched EXCEPT ![sp] = [@ EXCEPT !.val = val, !.tgt = t]]
      BY <1>4 DEF ScheduleAwait
    <3>2. /\ \A k \in Keys : [sched[sp] EXCEPT !.val = val, !.req = k] \in SchedState
          /\ \A t \in Targets : [sched[sp] EXCEPT !.val = val, !.tgt = t] \in SchedState
      <4>1. sched[sp] \in SchedState
        BY DEF TypeInv, TypeOK
      <4>2. ASSUME NEW k \in Keys PROVE [sched[sp] EXCEPT !.val = val, !.req = k] \in SchedState
        BY <4>1 DEF SchedState, Waits
      <4>3. ASSUME NEW t \in Targets PROVE [sched[sp] EXCEPT !.val = val, !.tgt = t] \in SchedState
        BY <4>1 DEF SchedState
      <4> QED
        BY <4>2, <4>3
    <3> QED
      BY <3>1, <3>2 DEF TypeInv, TypeOK
  <2> QED
    BY <1>1, <1>2, <1>4, <2>1 DEF ScheduleAwait, TypeInv, TypeOK, advVars, envVars
<1>5. ASSUME BlockOnPause PROVE TypeInv'
  <2>1. sched' \in [Slots -> SchedState]
    <3>1. PICK v \in BOOLEAN : \/ sched' = [sched EXCEPT ![sp].debug = v]
                               \/ sched' = [sched EXCEPT ![sp].loading = v]
      BY <1>5 DEF BlockOnPause
    <3>2. /\ [sched[sp] EXCEPT !.debug = v] \in SchedState
          /\ [sched[sp] EXCEPT !.loading = v] \in SchedState
      <4>1. sched[sp] \in SchedState
        BY DEF TypeInv, TypeOK
      <4> QED
        BY <4>1 DEF SchedState
    <3> QED
      BY <3>1, <3>2 DEF TypeInv, TypeOK
  <2> QED
    BY <1>1, <1>5, <2>1 DEF BlockOnPause, TypeInv, TypeOK, playVars, advVars, ctxVars, envVars
<1>6. ASSUME Yield PROVE TypeInv'
  BY <1>1, <1>6 DEF Yield, TypeInv, TypeOK, playVars, advVars, envVars
<1>7. /\ Requested(pause, DebugPause) \in PauseCounts
      /\ Released(pause, DebugPause) \in PauseCounts
  BY PauseType, ConstantsOK DEF TypeInv, TypeOK, PauseCounts, Assumptions
<1>8. ASSUME BeginFrameAdvance PROVE TypeInv'
  BY <1>1, <1>7, <1>8, ConstantsOK
     DEF BeginFrameAdvance, TypeInv, TypeOK, playVars, ctxVars, PauseCounts, Assumptions
<1>9. ASSUME StepFrameAdvance PROVE TypeInv'
  <2>1. bypass' \in 0 .. MaxBypass
    BY <1>9, ConstantsOK DEF StepFrameAdvance, TypeInv, TypeOK, Assumptions
  <2> QED
    BY <1>1, <1>7, <1>9, <2>1
       DEF StepFrameAdvance, TypeInv, TypeOK, playVars, ctxVars, PauseCounts
<1>10. ASSUME EndFrameAdvance PROVE TypeInv'
  <2>1. frameAdv' = FALSE /\ bypass' = 0 /\ pause' \in PauseCounts
    BY <1>7, <1>10 DEF EndFrameAdvance
  <2>2. 0 \in 0 .. MaxBypass
    BY ConstantsOK DEF Assumptions
  <2> QED
    BY <1>1, <1>10, <2>1, <2>2
       DEF EndFrameAdvance, TypeInv, TypeOK, playVars, ctxVars, PauseCounts
<1>11. ASSUME PauseFromScript PROVE TypeInv'
  <2>1. pause' \in PauseCounts
    <3>1. PICK k \in ScriptKeys : pause' \in {Requested(pause, k), Released(pause, k)}
      BY <1>11 DEF PauseFromScript
    <3>2. k \in Keys /\ pause \in PauseCounts
      BY KeyAssumption DEF TypeInv, TypeOK, PauseCounts
    <3> QED  BY <3>1, <3>2, PauseType
  <2> QED
    BY <1>1, <1>11, <2>1
       DEF PauseFromScript, TypeInv, TypeOK, playVars, advVars, ctxVars, PauseCounts
<1>12. ASSUME AbortFromScript PROVE TypeInv'
  BY <1>1, <1>12, AbortReqType DEF AbortFromScript, TypeInv, TypeOK, advVars, envVars
<1> QED
  BY <1>3, <1>4, <1>5, <1>6, <1>8, <1>9, <1>10, <1>11, <1>12

(* Types are kept by the frame between two calcs. *)
LEMMA GameFrameTypeInv == TypeInv /\ GameFrame => TypeInv'
<1> SUFFICES ASSUME TypeInv, GameFrame PROVE TypeInv'
  OBVIOUS
<1>1. pause' \in PauseCounts
  BY PauseType DEF GameFrame, TypeInv, TypeOK, PauseCounts
<1>2. delta' \in Nat /\ pushes' \in 0 .. MaxHostPush
  BY ConstantsOK DEF GameFrame, Assumptions
<1> QED
  BY <1>1, <1>2 DEF GameFrame, TypeInv, TypeOK, playVars, advVars, ctxVars, PauseCounts

(* Every step keeps the types: one case per action. *)
LEMMA TypeInvStep == TypeInv /\ [Next]_vars => TypeInv'
<1>1. TypeInv /\ HostPushDone => TypeInv'
  BY DEF HostPushDone, TypeInv, TypeOK, playVars, advVars, ctxVars, envVars
<1>2. TypeInv /\ UNCHANGED vars => TypeInv'
  BY DEF vars, TypeInv, TypeOK, playVars, advVars, ctxVars, envVars
<1> QED
  BY <1>1, <1>2, HostPushTypeInv, PushFromScriptTypeInv, PlaybackCalcTypeInv,
     CtxInvalidTypeInv, CtxBlockedTypeInv, CtxWaitTypeInv, CtxResumeTypeInv,
     ScriptReturnTypeInv, ScriptThrowTypeInv, SysReturnTypeInv, BindingsTypeInv,
     GameFrameTypeInv
     DEF Next, MainLoop, CtxStep, ScriptStep

(* The scheduler's variables keep their types, and moduleStackIndex stays    *)
(* inside moduleStack, until a push finds the stack full.                    *)
THEOREM TypeCorrect == Spec => []TypeOK
<1>1. TypeInv => TypeOK
  BY DEF TypeInv
<1> QED
  BY <1>1, TypeInvInit, TypeInvStep, PTL DEF Spec

-----------------------------------------------------------------------------
(* The nest of scripts inside Execute and the module stack agree, whatever   *)
(* is pushed, aborted, thrown or suspended at whatever depth; and the shape  *)
(* of the module stack between aborts, and what an abort leaves.             *)

(* The scripts inside Execute are slots of the stack. *)
LEMMA ExecutingSlots == TypeInv => Executing \subseteq Slots /\ Slots \subseteq Int
<1> SUFFICES ASSUME TypeInv PROVE Executing \subseteq Slots /\ Slots \subseteq Int
  OBVIOUS
<1>1. \A k \in 1 .. Len(native) : native[k] \in Slots
  BY DEF TypeInv, TypeOK
<1>2. Executing \subseteq Slots
  BY <1>1 DEF Executing
<1>3. Slots \subseteq Int
  BY ConstantsOK DEF Slots, Assumptions
<1> QED
  BY <1>2, <1>3

(* The innermost calcCtx returns: what it executed leaves the nest. *)
LEMMA PopNested ==
  ASSUME TypeInv, NestingMatchesStack, native # <<>>, native' = Outer
  PROVE  /\ Running \in Slots /\ Running \in Executing
         /\ \A j, k \in 1 .. Len(native') : j < k => native'[j] < native'[k]
         /\ \A i : i \in Executing' <=> i \in Executing /\ i # Running
         /\ \A i \in Executing' : i < Running
<1>1. native \in Seq(Slots)
  BY DEF TypeInv, TypeOK
<1>2. /\ Running \in Slots /\ Outer \in Seq(Slots)
      /\ Len(native) \in Nat \ {0} /\ Len(Outer) = Len(native) - 1
      /\ \A k \in 1 .. Len(Outer) : Outer[k] = native[k]
  BY <1>1, NativeType
<1>3. Slots \subseteq Int
  BY ConstantsOK DEF Slots, Assumptions
<1>4. \A k \in 1 .. Len(native) : native[k] \in Int
  <2>1. \A k \in 1 .. Len(native) : native[k] \in Slots
    BY <1>1
  <2> QED
    BY <1>3, <2>1
<1>5. \A j, k \in 1 .. Len(native) : j < k => native[j] < native[k]
  BY DEF NestingMatchesStack
<1>6. Running \in Executing
  BY <1>2 DEF Running, Executing
<1>7. \A j, k \in 1 .. Len(native') : j < k => native'[j] < native'[k]
  BY <1>2, <1>5
<1>8. \A k \in 1 .. Len(native') : native'[k] = native[k] /\ native[k] < Running
  BY <1>2, <1>5 DEF Running
<1>9. ASSUME NEW i PROVE i \in Executing' <=> i \in Executing /\ i # Running
  <2>1. i \in Executing' => i \in Executing /\ i # Running
    BY <1>2, <1>4, <1>8 DEF Executing
  <2>2. i \in Executing /\ i # Running => i \in Executing'
    BY <1>2 DEF Executing, Running
  <2> QED
    BY <2>1, <2>2
<1>10. \A i \in Executing' : i < Running
  BY <1>8 DEF Executing
<1> QED
  BY <1>2, <1>6, <1>7, <1>9, <1>10

(* Nothing is inside Execute at the start. *)
LEMMA InitNestInv == Init => NestInv
<1> SUFFICES ASSUME Init PROVE NestInv
  OBVIOUS
<1>1. native = <<>> /\ Len(native) = 0 /\ pc = "push"
  BY DEF Init
<1>2. Executing = {}
  BY <1>1 DEF Executing
<1>3. \A i \in Slots : ctx[i] = "uninit"
  BY DEF Init
<1> QED
  BY <1>1, <1>2, <1>3
     DEF NestInv, NestingMatchesStack, RunsOnTop, OthersSuspended, IdleOutside, CalledFromStack

(* A requested abort: every script inside Execute is told to suspend. *)
LEMMA AbortNest ==
  ASSUME TypeInv, NestInv, NEW c \in [Slots -> CtxStatus],
         \A i \in Slots : c[i] = "active" <=> i \in Executing',
         \A j, k \in 1 .. Len(native') : j < k => native'[j] < native'[k],
         \A i \in Executing' : i <= sp',
         AbortStackReq(c)
  PROVE  NestingMatchesStack' /\ OthersSuspended'
<1>1. /\ \A i \in Slots : ctx'[i] = "active" <=> i \in Executing'
      /\ \A i \in Slots : susp'[i] = TRUE
  BY DEF AbortStackReq
<1> QED
  BY <1>1 DEF NestingMatchesStack, OthersSuspended

(* The nest and the stack pointer stay as they are. *)
LEMMA SameNest ==
  ASSUME NestInv, UNCHANGED <<native, sp>>,
         \A i \in Slots : ctx'[i] = "active" <=> ctx[i] = "active"
  PROVE  NestingMatchesStack'
BY DEF NestInv, NestingMatchesStack, Executing

(* pushExecModuleEntryPoint suspends the ongoing script, so that what is inside Execute stays right. *)
LEMMA PushEntryNest ==
  ASSUME TypeInv, NestInv, NEW h \in Handles, NEW hasEntry \in BOOLEAN,
         NEW imm \in BOOLEAN, NEW block \in BOOLEAN, NEW ret \in {"push", "sysret"},
         pc \in {"push", "script"},
         PushEntryPoint(h, hasEntry, imm, block, ret)
  PROVE  NestingMatchesStack' /\ OthersSuspended' /\ UNCHANGED native /\ pc' \in {ret, "enter", "corrupt"}
<1> DEFINE grow  == mod[sp] # NoModule
           top   == IF grow THEN sp + 1 ELSE sp
           fresh == ResetState(IF grow THEN sched[sp].pad ELSE Vanilla)
           ready == ctx[top] \notin {"active", "suspended"}
<1> USE DEF TypeInv, TypeOK
<1>1. /\ \A i \in Slots : ctx[i] = "active" <=> i \in Executing
      /\ \A j, k \in 1 .. Len(native) : j < k => native[j] < native[k]
      /\ \A i \in Executing : i <= sp
  BY DEF NestInv, NestingMatchesStack
<1>2. ASSUME UNCHANGED native PROVE Executing' = Executing
  BY <1>2 DEF Executing
<1>3. CASE /\ top \notin Slots
           /\ pc' = "corrupt"
           /\ UNCHANGED <<native, sp, playVars, mod, sched, ctxVars>>
  <2>1. OthersSuspended'
    BY <1>3 DEF NestInv, OthersSuspended, playVars, ctxVars
  <2> QED
    BY <1>3, <2>1, SameNest DEF ctxVars
<1>4. CASE AbortStackReq(ctx) /\ pc' = ret /\ UNCHANGED <<native, sp>>
  BY <1>1, <1>2, <1>4, AbortNest
<1>5. CASE /\ top \in Slots /\ mod[top] = NoModule /\ hasEntry
           /\ mod' = [mod EXCEPT ![top] = h]
           /\ sched' = [sched EXCEPT ![top] = [fresh EXCEPT !.debug = block]]
           /\ ctx'  = [ctx  EXCEPT ![top] = IF ready THEN "prepared" ELSE @]
           /\ susp' = [SuspendOngoing EXCEPT ![top] = @ /\ ~ready]
           /\ abrt' = [abrt EXCEPT ![top] = @ /\ ~ready]
           /\ sp' = top
           /\ pending' = (pending \/ ~imm)
           /\ pc' = IF imm THEN "enter" ELSE ret
           /\ UNCHANGED <<native, active, abortReq, elapsed>>
  <2>1. \A i \in Slots : ctx'[i] = "active" <=> ctx[i] = "active"
    BY <1>5
  <2>2. \A i \in Executing : i <= sp'
    <3>1. sp \in Int /\ \A i \in Executing : i \in Int
      BY ExecutingSlots
    <3>2. sp <= sp' /\ sp' \in Int
      BY <1>5, <3>1
    <3> QED
      BY <1>1, <3>1, <3>2
  <2>3. NestingMatchesStack'
    BY <1>1, <1>2, <1>5, <2>1, <2>2 DEF NestingMatchesStack
  <2>4. ASSUME NEW i \in Slots, ctx'[i] = "active" PROVE susp'[i]
    <3>1. ctx[i] = "active" /\ (susp[i] \/ i = sp)
      BY <2>1, <2>4 DEF NestInv, OthersSuspended
    <3>2. SuspendOngoing[i] = TRUE
      BY <3>1 DEF SuspendOngoing
    <3>3. SuspendOngoing \in [Slots -> BOOLEAN]
      BY DEF SuspendOngoing
    <3> QED
      BY <1>5, <3>1, <3>2, <3>3
  <2> QED
    BY <1>5, <2>3, <2>4 DEF OthersSuspended
<1> QED
  BY <1>3, <1>4, <1>5 DEF PushEntryPoint

(* The same for a whole push, the build included. *)
LEMMA PushNest ==
  ASSUME TypeInv, NestInv, NEW n \in Names, NEW imm \in BOOLEAN, NEW block \in BOOLEAN,
         NEW ret \in {"push", "sysret"}, pc \in {"push", "script"},
         PushScript(n, imm, block, ret)
  PROVE  NestingMatchesStack' /\ OthersSuspended' /\ UNCHANGED native /\ pc' \in {ret, "enter", "corrupt"}
<1>1. CASE AbortStackReq(ctx) /\ pc' = ret /\ UNCHANGED <<native, sp>>
  <2>1. Executing' = Executing
    BY <1>1 DEF Executing
  <2>2. /\ \A i \in Slots : ctx[i] = "active" <=> i \in Executing'
        /\ \A j, k \in 1 .. Len(native') : j < k => native'[j] < native'[k]
        /\ \A i \in Executing' : i <= sp'
    BY <1>1, <2>1 DEF NestInv, NestingMatchesStack
  <2>3. ctx \in [Slots -> CtxStatus]
    BY DEF TypeInv, TypeOK
  <2> QED
    BY <1>1, <2>2, <2>3, AbortNest
<1>2. ASSUME NEW h \in Handles, PushEntryPoint(h, n \notin NoEntry, imm, block, ret)
      PROVE  /\ NestingMatchesStack' /\ OthersSuspended' /\ UNCHANGED native
             /\ pc' \in {ret, "enter", "corrupt"}
  <2>1. (n \notin NoEntry) \in BOOLEAN
    OBVIOUS
  <2> QED
    BY <1>2, <2>1, PushEntryNest
<1> QED
  BY <1>1, <1>2 DEF PushScript

-----------------------------------------------------------------------------
(* One lemma per action *)

(* The nest is kept by a push by the websocket or a hotkey. *)
LEMMA HostPushNest == TypeInv /\ NestInv /\ HostPush => NestInv'
<1> SUFFICES ASSUME TypeInv, NestInv, HostPush PROVE NestInv'
  OBVIOUS
<1>1. PICK n \in Names, block \in BOOLEAN : PushScript(n, FALSE, block, "push")
  BY DEF HostPush
<1>2. /\ NestingMatchesStack' /\ OthersSuspended' /\ UNCHANGED native
      /\ pc' \in {"push", "enter", "corrupt"}
  BY <1>1, PushNest DEF HostPush
<1> QED
  BY <1>2 DEF HostPush, NestInv, RunsOnTop, IdleOutside, CalledFromStack

(* The nest is kept by a push by the running script. *)
LEMMA PushFromScriptNest == TypeInv /\ NestInv /\ PushFromScript => NestInv'
<1> SUFFICES ASSUME TypeInv, NestInv, PushFromScript PROVE NestInv'
  OBVIOUS
<1>1. PICK n \in Names, imm \in BOOLEAN, block \in BOOLEAN : PushScript(n, imm, block, "sysret")
  BY DEF PushFromScript
<1>2. /\ NestingMatchesStack' /\ OthersSuspended' /\ UNCHANGED native
      /\ pc' \in {"sysret", "enter", "corrupt"}
  BY <1>1, PushNest DEF PushFromScript
<1> QED
  BY <1>2 DEF PushFromScript, NestInv, RunsOnTop, IdleOutside, CalledFromStack

(* The nest is kept by Playback::calc, which may process an abort. *)
LEMMA PlaybackCalcNest == TypeInv /\ NestInv /\ PlaybackCalc => NestInv'
<1> SUFFICES ASSUME TypeInv, NestInv, PlaybackCalc PROVE NestInv'
  OBVIOUS
<1>1. native = <<>> /\ native' = <<>> /\ pc' \in {"enter", "game"}
  BY DEF PlaybackCalc, NestInv, IdleOutside
<1>2. Executing = {} /\ Executing' = {} /\ Len(native') = 0
  BY <1>1 DEF Executing
<1>3. \A i \in Slots : ctx[i] # "active"
  BY <1>2 DEF NestInv, NestingMatchesStack
<1>4. \A i \in Slots : ctx'[i] # "active"
  BY <1>3 DEF PlaybackCalc, AbortStackImpl, AbortFrames, ctxVars
<1> QED
  BY <1>1, <1>2, <1>4
     DEF NestInv, NestingMatchesStack, RunsOnTop, OthersSuspended, IdleOutside, CalledFromStack

(* The nest is kept by calcCtx on a frame that cannot be executed. *)
LEMMA CtxInvalidNest == TypeInv /\ NestInv /\ CtxInvalid => NestInv'
<1> SUFFICES ASSUME TypeInv, NestInv, CtxInvalid PROVE NestInv'
  OBVIOUS
<1>1. UNCHANGED <<native, sp>> /\ pc' = IF native = <<>> THEN "game" ELSE "sysret"
  BY DEF CtxInvalid, CalcReturn
<1>2. Executing' = Executing
  BY <1>1 DEF Executing
<1>3. NestingMatchesStack' /\ OthersSuspended'
  <2>1. /\ \A i \in Slots : ctx[i] = "active" <=> i \in Executing'
        /\ \A j, k \in 1 .. Len(native') : j < k => native'[j] < native'[k]
        /\ \A i \in Executing' : i <= sp'
    BY <1>1, <1>2 DEF NestInv, NestingMatchesStack
  <2> QED
    BY <2>1, AbortNest DEF CtxInvalid, TypeInv, TypeOK
<1> QED
  BY <1>1, <1>3 DEF NestInv, RunsOnTop, IdleOutside, CalledFromStack

(* calcCtx returns without having resumed the script. *)
LEMMA NotResumedNest ==
  ASSUME TypeInv, NestInv, pc = "enter", CalcReturn(native, FALSE), UNCHANGED <<sp, ctx, susp, abortReq>>
  PROVE  NestInv'
<1>1. UNCHANGED native /\ pc' = IF native = <<>> THEN "game" ELSE "sysret"
  BY DEF CalcReturn
<1>2. NestingMatchesStack'
  BY <1>1, SameNest
<1>3. \A i \in Slots : ctx'[i] = "active" => susp'[i]
  BY DEF NestInv, OthersSuspended
<1> QED
  BY <1>1, <1>2, <1>3 DEF NestInv, RunsOnTop, OthersSuspended, IdleOutside, CalledFromStack

(* The nest is kept by calcCtx on a frame with input left to play. *)
LEMMA CtxWaitNest == TypeInv /\ NestInv /\ (CtxBlocked \/ CtxWait) => NestInv'
<1> SUFFICES ASSUME TypeInv, NestInv, CtxBlocked \/ CtxWait PROVE NestInv'
  OBVIOUS
<1>1. pc = "enter" /\ CalcReturn(native, FALSE) /\ UNCHANGED <<sp, ctx, susp, abortReq>>
  BY DEF CtxBlocked, CtxWait, CtxSchedulable, ctxVars
<1> QED
  BY <1>1, NotResumedNest

(* The nest is kept by calcCtx entering Execute. *)
LEMMA CtxResumeNest == TypeInv /\ NestInv /\ CtxResume => NestInv'
<1> SUFFICES ASSUME TypeInv, NestInv, CtxResume PROVE NestInv'
  OBVIOUS
<1>1. /\ pc = "enter" /\ pc' = "script" /\ ~abortReq /\ ctx[sp] # "active"
      /\ native' = Append(native, sp) /\ ctx' = [ctx EXCEPT ![sp] = "active"]
      /\ UNCHANGED <<sp, susp, abortReq>>
  BY DEF CtxResume, CtxSchedulable, IsValidForExecution
<1>2. native \in Seq(Slots) /\ sp \in Slots /\ ctx \in [Slots -> CtxStatus]
  BY DEF TypeInv, TypeOK
<1>3. /\ Len(native) \in Nat /\ Len(native') = Len(native) + 1
      /\ native' # <<>> /\ native'[Len(native) + 1] = sp
      /\ \A k \in 1 .. Len(native) : native'[k] = native[k]
  BY <1>1, <1>2, AppendProperties
<1>4. \A i : i \in Executing' <=> i \in Executing \/ i = sp
  BY <1>3 DEF Executing
<1>5. /\ \A i \in Slots : ctx[i] = "active" <=> i \in Executing
      /\ \A j, k \in 1 .. Len(native) : j < k => native[j] < native[k]
      /\ \A i \in Executing : i <= sp
  BY DEF NestInv, NestingMatchesStack
<1>6. \A i \in Executing : i < sp
  BY <1>1, <1>2, <1>5, ExecutingSlots
<1>7. \A j, k \in 1 .. Len(native') : j < k => native'[j] < native'[k]
  <2> SUFFICES ASSUME NEW j \in 1 .. Len(native'), NEW k \in 1 .. Len(native'), j < k
               PROVE  native'[j] < native'[k]
    OBVIOUS
  <2>1. j \in 1 .. Len(native) /\ native'[j] = native[j] /\ native[j] \in Executing
    BY <1>3 DEF Executing
  <2>2. CASE k = Len(native) + 1
    BY <1>3, <1>6, <2>1, <2>2
  <2>3. CASE k # Len(native) + 1
    <3>1. k \in 1 .. Len(native)
      BY <1>3, <2>3
    <3> QED
      BY <1>3, <1>5, <2>1, <3>1
  <2> QED
    BY <2>2, <2>3
<1>8. \A i \in Executing' : i <= sp'
  <2>1. sp \in Int
    BY <1>2, ExecutingSlots
  <2> QED
    BY <1>1, <1>4, <1>5, <2>1
<1>9. NestingMatchesStack'
  BY <1>1, <1>2, <1>4, <1>5, <1>7, <1>8 DEF NestingMatchesStack
<1>10. RunsOnTop'
  BY <1>1, <1>3 DEF RunsOnTop, Running
<1>11. OthersSuspended'
  BY <1>1, <1>2 DEF NestInv, OthersSuspended
<1> QED
  BY <1>1, <1>3, <1>9, <1>10, <1>11 DEF NestInv, IdleOutside, CalledFromStack

(* The nest is kept by a script finishing. *)
LEMMA ScriptReturnNest == TypeInv /\ NestInv /\ ScriptReturn => NestInv'
<1> SUFFICES ASSUME TypeInv, NestInv, ScriptReturn PROVE NestInv'
  OBVIOUS
<1>1. /\ pc = "script" /\ native # <<>> /\ Running = sp /\ ~abortReq
      /\ native' = Outer /\ ctx' = [ctx EXCEPT ![Running] = "uninit"]
      /\ susp' = [susp EXCEPT ![Running] = FALSE] /\ UNCHANGED abortReq
  BY DEF ScriptReturn, NestInv, RunsOnTop, CalledFromStack, CalcReturn
<1>2. sp \in Slots /\ ctx \in [Slots -> CtxStatus] /\ susp \in [Slots -> BOOLEAN]
  BY DEF TypeInv, TypeOK
<1>3. /\ Running \in Slots /\ Running \in Executing
      /\ \A j, k \in 1 .. Len(native') : j < k => native'[j] < native'[k]
      /\ \A i : i \in Executing' <=> i \in Executing /\ i # Running
      /\ \A i \in Executing' : i < Running
  BY <1>1, PopNested DEF NestInv
<1>4. \A i \in Slots : ctx'[i] = "active" <=> i \in Executing'
  BY <1>1, <1>2, <1>3 DEF NestInv, NestingMatchesStack
<1>5. ASSUME NEW i \in Slots, ctx'[i] = "active" PROVE susp'[i]
  BY <1>1, <1>2, <1>5 DEF NestInv, OthersSuspended
<1>6. CASE /\ sp = 0
           /\ CalcReturn(Outer, TRUE) /\ UNCHANGED sp
  <2>1. Executing' = {}
    <3> SUFFICES ASSUME NEW i \in Executing' PROVE FALSE
      OBVIOUS
    <3>1. i \in Slots /\ i < 0
      BY <1>1, <1>3, <1>6, ExecutingSlots
    <3> QED
      BY <3>1, ConstantsOK DEF Slots, Assumptions
  <2>2. native' = <<>>
    <3>1. native' \in Seq(Slots)
      BY <1>1, NativeType DEF TypeInv, TypeOK
    <3>2. native' # <<>> => native'[1] \in Executing'
      BY <3>1 DEF Executing
    <3> QED
      BY <2>1, <3>2
  <2>3. pc' = "game"
    BY <1>1, <1>6, <2>2 DEF CalcReturn
  <2> QED
    BY <1>3, <1>4, <1>5, <2>1, <2>2, <2>3
       DEF NestInv, NestingMatchesStack, RunsOnTop, OthersSuspended, IdleOutside, CalledFromStack
<1>7. CASE sp > 0 /\ sp' = sp - 1 /\ pc' = "enter"
  <2>1. \A i \in Executing' : i <= sp'
    BY <1>1, <1>2, <1>3, <1>7, ExecutingSlots
  <2> QED
    BY <1>3, <1>4, <1>5, <1>7, <2>1
       DEF NestInv, NestingMatchesStack, RunsOnTop, OthersSuspended, IdleOutside, CalledFromStack
<1> QED
  BY <1>6, <1>7 DEF ScriptReturn

(* The nest is kept by a script throwing. *)
LEMMA ScriptThrowNest == TypeInv /\ NestInv /\ ScriptThrow => NestInv'
<1> SUFFICES ASSUME TypeInv, NestInv, ScriptThrow PROVE NestInv'
  OBVIOUS
<1>1. /\ pc = "script" /\ native # <<>> /\ native' = Outer /\ UNCHANGED sp
      /\ pc' = IF native' = <<>> THEN "game" ELSE "sysret"
      /\ AbortStackReq([ctx EXCEPT ![Running] = "exception"])
  BY DEF ScriptThrow, NestInv, CalledFromStack, CalcReturn
<1>2. /\ Running \in Slots
      /\ \A j, k \in 1 .. Len(native') : j < k => native'[j] < native'[k]
      /\ \A i : i \in Executing' <=> i \in Executing /\ i # Running
  BY <1>1, PopNested DEF NestInv
<1>3. [ctx EXCEPT ![Running] = "exception"] \in [Slots -> CtxStatus]
  BY <1>2 DEF TypeInv, TypeOK, CtxStatus
<1>4. \A i \in Slots : [ctx EXCEPT ![Running] = "exception"][i] = "active" <=> i \in Executing'
  BY <1>2 DEF TypeInv, TypeOK, NestInv, NestingMatchesStack
<1>5. \A i \in Executing' : i <= sp'
  BY <1>1, <1>2 DEF NestInv, NestingMatchesStack
<1>6. NestingMatchesStack' /\ OthersSuspended'
  BY <1>1, <1>2, <1>3, <1>4, <1>5, AbortNest
<1> QED
  BY <1>1, <1>6 DEF NestInv, RunsOnTop, IdleOutside, CalledFromStack

(* The nest is kept by a binding returning to its script. *)
LEMMA SysReturnNest == TypeInv /\ NestInv /\ SysReturn => NestInv'
<1> SUFFICES ASSUME TypeInv, NestInv, SysReturn PROVE NestInv'
  OBVIOUS
<1>1. pc = "sysret" /\ native # <<>> /\ UNCHANGED <<sp, abortReq>>
  BY DEF SysReturn, NestInv, CalledFromStack
<1>2. Running \in Slots /\ Running \in Executing /\ ctx[Running] = "active"
  <2>1. native \in Seq(Slots)
    BY DEF TypeInv, TypeOK
  <2>2. Len(native) \in Nat \ {0} /\ Running \in Slots
    BY <1>1, <2>1, NativeType
  <2>3. Running \in Executing
    BY <2>2 DEF Running, Executing
  <2> QED
    BY <2>2, <2>3 DEF NestInv, NestingMatchesStack
<1>3. CASE ~susp[Running] /\ pc' = "script" /\ UNCHANGED <<native, active, ctxVars>>
  <2>1. Running = sp /\ ~abortReq
    BY <1>2, <1>3 DEF NestInv, OthersSuspended
  <2>2. NestingMatchesStack'
    BY <1>1, <1>3, SameNest DEF ctxVars
  <2>3. RunsOnTop'
    BY <1>1, <1>3, <2>1 DEF RunsOnTop, Running
  <2>4. OthersSuspended'
    BY <1>1, <1>3, <2>1 DEF NestInv, OthersSuspended, ctxVars
  <2> QED
    BY <1>1, <1>3, <2>2, <2>3, <2>4 DEF NestInv, IdleOutside, CalledFromStack
<1>4. CASE /\ susp[Running]
           /\ susp' = [susp EXCEPT ![Running] = FALSE]
           /\ ctx'  = [ctx EXCEPT ![Running] = IF abrt[Running] THEN "aborted" ELSE "suspended"]
           /\ CalcReturn(Outer, abrt[Running])
  <2>1. native' = Outer /\ pc' = IF native' = <<>> THEN "game" ELSE "sysret"
    BY <1>4 DEF CalcReturn
  <2>2. /\ \A j, k \in 1 .. Len(native') : j < k => native'[j] < native'[k]
        /\ \A i : i \in Executing' <=> i \in Executing /\ i # Running
        /\ \A i \in Executing' : i < Running
    BY <1>1, <2>1, PopNested DEF NestInv
  <2>3. \A i \in Slots : ctx'[i] = "active" <=> i \in Executing'
    BY <1>2, <1>4, <2>2 DEF TypeInv, TypeOK, NestInv, NestingMatchesStack
  <2>4. \A i \in Executing' : i <= sp'
    BY <1>1, <2>2 DEF NestInv, NestingMatchesStack
  <2>5. ASSUME NEW i \in Slots, ctx'[i] = "active" PROVE susp'[i]
    <3>1. i \in Executing /\ i # Running /\ i < Running /\ ctx[i] = "active"
      BY <2>2, <2>3, <2>5 DEF NestInv, NestingMatchesStack
    <3>2. Running <= sp /\ i \in Int /\ Running \in Int /\ sp \in Int
      BY <1>2, ExecutingSlots DEF NestInv, NestingMatchesStack, TypeInv, TypeOK
    <3>3. i # sp
      BY <3>1, <3>2
    <3>4. susp[i]
      BY <3>1, <3>3 DEF NestInv, OthersSuspended
    <3> QED
      BY <1>4, <3>1, <3>4 DEF TypeInv, TypeOK
  <2> QED
    BY <2>1, <2>2, <2>3, <2>4, <2>5
       DEF NestInv, NestingMatchesStack, RunsOnTop, OthersSuspended, IdleOutside, CalledFromStack
<1> QED
  BY <1>3, <1>4 DEF SysReturn

(* A binding that leaves the nest alone and takes back no suspension *)
LEMMA BindingNest ==
  ASSUME TypeInv, NestInv, pc = "script", pc' = "sysret", UNCHANGED <<native, sp, ctx, abortReq>>,
         \A i \in Slots : susp[i] => susp'[i]
  PROVE  NestInv'
<1>1. NestingMatchesStack'
  BY SameNest
<1>2. OthersSuspended'
  BY DEF NestInv, OthersSuspended
<1> QED
  BY <1>1, <1>2 DEF NestInv, RunsOnTop, IdleOutside, CalledFromStack

(* The bindings that touch input, awaits, pauses and frame advance are such. *)
LEMMA BindingsNest ==
  TypeInv /\ NestInv /\ (\/ SetCurrentInput \/ ScheduleAwait \/ BlockOnPause \/ Yield
                         \/ BeginFrameAdvance \/ StepFrameAdvance \/ EndFrameAdvance
                         \/ PauseFromScript)
    => NestInv'
<1> SUFFICES ASSUME TypeInv, NestInv, \/ SetCurrentInput \/ ScheduleAwait \/ BlockOnPause \/ Yield
                         \/ BeginFrameAdvance \/ StepFrameAdvance \/ EndFrameAdvance
                         \/ PauseFromScript
             PROVE NestInv'
  OBVIOUS
<1>1. pc = "script" /\ pc' = "sysret" /\ UNCHANGED <<native, sp, ctx, abortReq>>
  BY DEF ScriptCall, SetCurrentInput, ScheduleAwait, BlockOnPause, Yield, BeginFrameAdvance,
         StepFrameAdvance, EndFrameAdvance, PauseFromScript, playVars, ctxVars
<1>2. \/ UNCHANGED susp
      \/ susp' = [susp EXCEPT ![sp] = TRUE]
      \/ susp' = [susp EXCEPT ![Running] = TRUE]
  BY DEF SetCurrentInput, ScheduleAwait, BlockOnPause, Yield, BeginFrameAdvance,
         StepFrameAdvance, EndFrameAdvance, PauseFromScript, ctxVars, SuspendTop
<1>3. \A i \in Slots : susp[i] => susp'[i]
  BY <1>2 DEF TypeInv, TypeOK
<1> QED
  BY <1>1, <1>3, BindingNest

(* The nest is kept by tas::abort. *)
LEMMA AbortFromScriptNest == TypeInv /\ NestInv /\ AbortFromScript => NestInv'
<1> SUFFICES ASSUME TypeInv, NestInv, AbortFromScript PROVE NestInv'
  OBVIOUS
<1>1. pc = "script" /\ pc' = "sysret" /\ UNCHANGED <<native, sp>> /\ AbortStackReq(ctx)
  BY DEF AbortFromScript, ScriptCall
<1>2. Executing' = Executing
  BY <1>1 DEF Executing
<1>3. NestingMatchesStack' /\ OthersSuspended'
  <2>1. /\ \A i \in Slots : ctx[i] = "active" <=> i \in Executing'
        /\ \A j, k \in 1 .. Len(native') : j < k => native'[j] < native'[k]
        /\ \A i \in Executing' : i <= sp'
    BY <1>1, <1>2 DEF NestInv, NestingMatchesStack
  <2> QED
    BY <1>1, <2>1, AbortNest DEF TypeInv, TypeOK
<1> QED
  BY <1>1, <1>3 DEF NestInv, RunsOnTop, IdleOutside, CalledFromStack

(* Steps between which no script is inside Execute *)
LEMMA OutsideNest == TypeInv /\ NestInv /\ (HostPushDone \/ GameFrame) => NestInv'
<1> SUFFICES ASSUME TypeInv, NestInv, HostPushDone \/ GameFrame PROVE NestInv'
  OBVIOUS
<1>1. /\ pc \in {"push", "game"} /\ pc' \in {"push", "calc"}
      /\ UNCHANGED <<native, sp, ctx, susp, abortReq>>
  BY DEF HostPushDone, GameFrame, playVars, ctxVars
<1>2. NestingMatchesStack'
  BY <1>1, SameNest
<1>3. OthersSuspended'
  BY <1>1 DEF NestInv, OthersSuspended
<1> QED
  BY <1>1, <1>2, <1>3 DEF NestInv, RunsOnTop, IdleOutside, CalledFromStack

(* Every step keeps the nest: one case per action. *)
LEMMA NestInvStep == TypeInv /\ NestInv /\ [Next]_vars => NestInv'
<1>1. TypeInv /\ NestInv /\ UNCHANGED vars => NestInv'
  BY DEF vars, playVars, ctxVars, NestInv, NestingMatchesStack, Executing, RunsOnTop, Running,
         OthersSuspended, IdleOutside, CalledFromStack
<1> QED
  BY <1>1, HostPushNest, PushFromScriptNest, PlaybackCalcNest, CtxInvalidNest, CtxWaitNest,
     CtxResumeNest, ScriptReturnNest, ScriptThrowNest, SysReturnNest, BindingsNest,
     AbortFromScriptNest, OutsideNest
     DEF Next, MainLoop, CtxStep, ScriptStep

(* Types and nest together are inductive. *)
LEMMA NestInvariant == Spec => [](TypeInv /\ NestInv)
BY TypeInvInit, TypeInvStep, InitNestInv, NestInvStep, PTL DEF Spec

(* The contexts inside Execute are the nested calcCtx calls, up the stack.   *)
THEOREM NestingCorrect == Spec => []NestingMatchesStack
<1>1. TypeInv /\ NestInv => NestingMatchesStack
  BY DEF NestInv
<1> QED
  BY <1>1, NestInvariant, PTL

(* A script that executes is the one at the stack pointer, so that the       *)
(* bindings of Playback.cpp write to the frame of the script that calls them.*)
THEOREM RunningCorrect == Spec => []RunningIsTop
<1>1. TypeInv /\ NestInv => RunningIsTop
  <2> SUFFICES ASSUME TypeInv, NestInv, pc = "script"
               PROVE  Len(native) > 0 /\ Running = sp
    BY DEF RunningIsTop
  <2>1. native # <<>> /\ native \in Seq(Slots)
    BY DEF TypeInv, TypeOK
  <2>2. Len(native) \in Nat \ {0}
    BY <2>1, NativeType
  <2> QED
    BY <2>2 DEF NestInv, RunsOnTop
<1> QED
  BY <1>1, NestInvariant, PTL

-----------------------------------------------------------------------------
(* The shape of the module stack *)

StackTypes ==
  /\ sp \in Slots /\ Slots \subseteq Int
  /\ mod \in [Slots -> Handles \cup {NoModule}] /\ ctx \in [Slots -> CtxStatus]
  /\ susp \in [Slots -> BOOLEAN] /\ abrt \in [Slots -> BOOLEAN]

(* The part of the types the proofs below use. *)
LEMMA StackTypesOK == TypeInv => StackTypes
BY ExecutingSlots DEF TypeInv, TypeOK, StackTypes

(* The empty stack has the shape. *)
LEMMA InitStackInv == Init => StackInv
<1> SUFFICES ASSUME Init PROVE StackInv
  OBVIOUS
<1>1. sp = 0 /\ 0 \in Slots /\ \A i \in Slots : i \in Int /\ ~(i < 0)
  BY ConstantsOK DEF Init, Slots, Assumptions
<1>2. \A i \in Slots : Empty(i)
  BY DEF Init, Empty
<1>3. \A i \in Slots : ctx[i] = "uninit"
  BY DEF Init
<1> QED
  BY <1>1, <1>2, <1>3 DEF StackInv

(* Nothing the invariant speaks of changes, or an abort is requested. *)
LEMMA SameStack ==
  ASSUME StackInv, abortReq' \/ UNCHANGED <<sp, mod, ctx, abrt, abortReq>>
  PROVE  StackInv'
BY DEF StackInv, Usable, Empty

(* One context changes from one usable status to another. *)
LEMMA SameShape ==
  ASSUME TypeInv, StackInv, UNCHANGED <<sp, mod, abortReq>>,
         NEW i \in Slots, ctx[i] \in {"prepared", "suspended", "active"},
         NEW c \in {"suspended", "active"}, ctx' = [ctx EXCEPT ![i] = c],
         \A j \in Slots : abrt'[j] => abrt[j]
  PROVE  StackInv'
<1> SUFFICES ASSUME ~abortReq PROVE StackInv'
  BY DEF StackInv
<1>1. StackTypes
  BY StackTypesOK
<1>2. \A j \in Slots : (Usable(j) => Usable(j)') /\ (Empty(j) => Empty(j)')
  BY <1>1 DEF StackTypes, Usable, Empty
<1>3. \A j \in Slots : ctx'[j] # "uninit" => ctx[j] # "uninit"
  BY <1>1 DEF StackTypes
<1> QED
  BY <1>1, <1>2, <1>3 DEF StackInv, StackTypes

(* A push fills exactly one slot, or requests an abort. *)
LEMMA PushStack ==
  ASSUME TypeInv, NestInv, StackInv, NEW n \in Names, NEW imm \in BOOLEAN, NEW block \in BOOLEAN,
         NEW ret \in {"push", "sysret"}, PushScript(n, imm, block, ret)
  PROVE  StackInv'
<1>1. StackTypes
  BY StackTypesOK
<1>2. CASE AbortStackReq(ctx)
  BY <1>2, SameStack DEF AbortStackReq
<1>3. ASSUME NEW h \in Handles, PushEntryPoint(h, n \notin NoEntry, imm, block, ret) PROVE StackInv'
  <2> DEFINE grow  == mod[sp] # NoModule
             top   == IF grow THEN sp + 1 ELSE sp
             fresh == ResetState(IF grow THEN sched[sp].pad ELSE Vanilla)
             ready == ctx[top] \notin {"active", "suspended"}
  <2>1. CASE /\ pc' = "corrupt"
             /\ UNCHANGED <<native, sp, playVars, mod, sched, ctxVars>>
    BY <2>1, SameStack DEF playVars, ctxVars
  <2>2. CASE AbortStackReq(ctx)
    BY <2>2, SameStack DEF AbortStackReq
  <2>3. CASE /\ top \in Slots /\ mod[top] = NoModule /\ n \notin NoEntry
             /\ mod' = [mod EXCEPT ![top] = h]
             /\ sched' = [sched EXCEPT ![top] = [fresh EXCEPT !.debug = block]]
             /\ ctx'  = [ctx  EXCEPT ![top] = IF ready THEN "prepared" ELSE @]
             /\ susp' = [SuspendOngoing EXCEPT ![top] = @ /\ ~ready]
             /\ abrt' = [abrt EXCEPT ![top] = @ /\ ~ready]
             /\ sp' = top
             /\ pending' = (pending \/ ~imm)
             /\ pc' = IF imm THEN "enter" ELSE ret
             /\ UNCHANGED <<native, active, abortReq, elapsed>>
    <3> SUFFICES ASSUME ~abortReq PROVE StackInv'
      BY <2>3 DEF StackInv
    <3>1. /\ \A i \in Slots : (i < sp => Usable(i)) /\ (i > sp => Empty(i))
          /\ Usable(sp) \/ (sp = 0 /\ Empty(sp))
          /\ \A i \in Slots : ctx[i] # "uninit" => ~abrt[i]
      BY DEF StackInv
    <3>2. Empty(top)
      <4>1. CASE grow
        <5>1. sp \in Int /\ sp + 1 \in Slots /\ sp + 1 > sp
          BY <1>1, <2>3, <4>1 DEF StackTypes
        <5>2. Empty(sp + 1)
          BY <3>1, <5>1
        <5> QED
          BY <4>1, <5>2
      <4>2. CASE ~grow
        BY <3>1, <4>2 DEF Usable
      <4> QED
        BY <4>1, <4>2
    <3>3. grow => Usable(sp)
      BY <3>1 DEF Empty
    <3>4. ~grow => top = 0
      BY <3>1 DEF Usable
    <3>5. ready
      BY <3>2 DEF Empty
    <3>6. mod'[top] = h /\ ctx'[top] = "prepared" /\ abrt'[top] = FALSE
      BY <1>1, <2>3, <3>5 DEF StackTypes
    <3>7. \A i \in Slots : i # top => mod'[i] = mod[i] /\ ctx'[i] = ctx[i] /\ abrt'[i] = abrt[i]
      BY <1>1, <2>3 DEF StackTypes
    <3>8. Usable(sp)'
      BY <2>3, <3>6, ConstantsOK DEF Usable, Assumptions
    <3>9. ASSUME NEW i \in Slots PROVE (i < sp' => Usable(i)') /\ (i > sp' => Empty(i)')
      <4>1. sp' = top /\ sp \in Int /\ i \in Int
        BY <1>1, <2>3 DEF StackTypes
      <4>2. i < top => Usable(i)
        <5>1. CASE grow
          BY <3>1, <3>3, <4>1, <5>1
        <5>2. CASE ~grow
          BY <3>1, <4>1, <5>2
        <5> QED
          BY <5>1, <5>2
      <4>3. i > top => Empty(i)
        <5>1. CASE grow
          BY <3>1, <4>1, <5>1
        <5>2. CASE ~grow
          BY <3>1, <4>1, <5>2
        <5> QED
          BY <5>1, <5>2
      <4>4. i # top => (Usable(i) => Usable(i)') /\ (Empty(i) => Empty(i)')
        BY <3>7 DEF Usable, Empty
      <4> HIDE DEF top
      <4>5. top \in Int
        BY <1>1, <2>3 DEF StackTypes
      <4> QED
        BY <4>1, <4>2, <4>3, <4>4, <4>5
    <3>10. \A i \in Slots : ctx'[i] # "uninit" => ~abrt'[i]
      BY <3>1, <3>6, <3>7
    <3> HIDE DEF top
    <3> QED
      BY <2>3, <3>8, <3>9, <3>10 DEF StackInv
  <2> QED
    BY <1>3, <2>1, <2>2, <2>3 DEF PushEntryPoint
<1> QED
  BY <1>2, <1>3 DEF PushScript

(* abortStackImpl, with no script inside Execute, empties every frame. *)
LEMMA AbortEmpties ==
  ASSUME TypeInv, NestInv, pc = "calc", AbortStackImpl
  PROVE  sp' = 0 /\ \A i \in Slots : Empty(i)'
<1>1. \A i \in Slots : ctx[i] # "active"
  <2>1. Executing = {}
    BY DEF NestInv, IdleOutside, Executing
  <2> QED
    BY <2>1 DEF NestInv, NestingMatchesStack
<1>2. sp' = 0
  BY DEF AbortStackImpl, AbortFrames
<1>3. \A i \in Slots : mod'[i] = NoModule /\ ctx'[i] = "uninit"
  BY <1>1 DEF AbortStackImpl, AbortFrames, Slots
<1> QED
  BY <1>2, <1>3 DEF Empty

(* The stack's shape is kept by Playback::calc, which may process an abort. *)
LEMMA PlaybackCalcStack == TypeInv /\ NestInv /\ StackInv /\ PlaybackCalc => StackInv'
<1> SUFFICES ASSUME TypeInv, NestInv, StackInv, PlaybackCalc PROVE StackInv'
  OBVIOUS
<1>1. CASE abortReq /\ AbortStackImpl
  <2>1. sp' = 0 /\ \A i \in Slots : Empty(i)'
    BY <1>1, AbortEmpties DEF PlaybackCalc
  <2>2. /\ \A i \in Slots : i \in Int /\ ~(i < 0)
        /\ 0 \in Slots
    BY ConstantsOK DEF Slots, Assumptions
  <2>3. Empty(sp)' /\ \A i \in Slots : ctx'[i] = "uninit"
    BY <2>1, <2>2 DEF Empty
  <2> QED
    BY <2>1, <2>2, <2>3 DEF StackInv
<1>2. CASE UNCHANGED <<abortReq, active, sp, mod, registry, ctxVars>>
  BY <1>2, SameStack DEF ctxVars
<1> QED
  BY <1>1, <1>2 DEF PlaybackCalc

(* The stack's shape is kept by calcCtx entering Execute. *)
LEMMA CtxResumeStack == TypeInv /\ StackInv /\ CtxResume => StackInv'
<1> SUFFICES ASSUME TypeInv, StackInv, CtxResume PROVE StackInv'
  OBVIOUS
<1>1. /\ sp \in Slots /\ ctx[sp] \in {"suspended", "prepared"}
      /\ ctx' = [ctx EXCEPT ![sp] = "active"] /\ UNCHANGED <<sp, mod, abortReq, abrt>>
  BY DEF CtxResume, CtxSchedulable, IsValidForExecution, TypeInv, TypeOK
<1> QED
  BY <1>1, SameShape

(* The stack's shape is kept by a binding returning to its script. *)
LEMMA SysReturnStack == TypeInv /\ NestInv /\ StackInv /\ SysReturn => StackInv'
<1> SUFFICES ASSUME TypeInv, NestInv, StackInv, SysReturn PROVE StackInv'
  OBVIOUS
<1>1. CASE UNCHANGED <<native, active, ctxVars>>
  BY <1>1, SameStack DEF SysReturn, ctxVars
<1>2. CASE /\ ctx'  = [ctx EXCEPT ![Running] = IF abrt[Running] THEN "aborted" ELSE "suspended"]
           /\ abrt' = [abrt EXCEPT ![Running] = FALSE]
  <2> SUFFICES ASSUME ~abortReq PROVE StackInv'
    BY SameStack DEF SysReturn
  <2>1. native # <<>> /\ native \in Seq(Slots)
    BY DEF SysReturn, TypeInv, TypeOK
  <2>2. Running \in Slots /\ ctx[Running] = "active"
    <3>1. Len(native) \in Nat \ {0} /\ Running \in Slots
      BY <2>1, NativeType
    <3>2. Running \in Executing
      BY <3>1 DEF Executing, Running
    <3> QED
      BY <3>1, <3>2 DEF NestInv, NestingMatchesStack
  <2>3. ~abrt[Running]
    BY <2>2 DEF StackInv
  <2>4. ctx' = [ctx EXCEPT ![Running] = "suspended"] /\ UNCHANGED <<sp, mod, abortReq>>
    BY <1>2, <2>3 DEF SysReturn
  <2>5. \A j \in Slots : abrt'[j] => abrt[j]
    BY <1>2, <2>2 DEF TypeInv, TypeOK
  <2> QED
    BY <2>2, <2>4, <2>5, SameShape
<1> QED
  BY <1>1, <1>2 DEF SysReturn

(* The stack's shape is kept by a script finishing. *)
LEMMA ScriptReturnStack == TypeInv /\ NestInv /\ StackInv /\ ScriptReturn => StackInv'
<1> SUFFICES ASSUME TypeInv, NestInv, StackInv, ScriptReturn PROVE StackInv'
  OBVIOUS
<1>1. StackTypes
  BY StackTypesOK
<1>2. /\ Running = sp /\ ~abortReq /\ UNCHANGED <<abortReq, abrt>>
      /\ ctx' = [ctx EXCEPT ![sp] = "uninit"] /\ mod' = [mod EXCEPT ![sp] = NoModule]
  BY DEF ScriptReturn, TryDiscardLastModule, NestInv, RunsOnTop
<1>3. /\ \A i \in Slots : (i < sp => Usable(i)) /\ (i > sp => Empty(i))
      /\ \A i \in Slots : ctx[i] # "uninit" => ~abrt[i]
  BY <1>2 DEF StackInv
<1>4. mod'[sp] = NoModule /\ ctx'[sp] = "uninit"
  BY <1>1, <1>2 DEF StackTypes
<1>5. \A i \in Slots : i # sp => mod'[i] = mod[i] /\ ctx'[i] = ctx[i]
  BY <1>1, <1>2 DEF StackTypes
<1>6. \A i \in Slots : (i < sp => Usable(i)') /\ (i >= sp => Empty(i)')
  <2> SUFFICES ASSUME NEW i \in Slots PROVE (i < sp => Usable(i)') /\ (i >= sp => Empty(i)')
    OBVIOUS
  <2>1. i \in Int /\ sp \in Int
    BY <1>1 DEF StackTypes
  <2>2. i < sp => Usable(i)'
    BY <1>3, <1>5, <2>1 DEF Usable
  <2>3. i >= sp => Empty(i)'
    BY <1>3, <1>4, <1>5, <2>1 DEF Empty
  <2> QED
    BY <2>2, <2>3
<1>7. \A i \in Slots : ctx'[i] # "uninit" => ~abrt'[i]
  BY <1>2, <1>3, <1>4, <1>5
<1>8. CASE sp = 0 /\ UNCHANGED sp
  <2>1. Empty(sp)'
    BY <1>4, <1>8 DEF Empty
  <2>2. \A i \in Slots : (i < sp' => Usable(i)') /\ (i > sp' => Empty(i)')
    BY <1>1, <1>6, <1>8 DEF StackTypes
  <2> QED
    BY <1>7, <1>8, <2>1, <2>2 DEF StackInv
<1>9. CASE sp > 0 /\ sp' = sp - 1
  <2>1. sp - 1 \in Slots /\ sp \in Int
    BY <1>1, <1>9, ConstantsOK DEF StackTypes, Slots, Assumptions
  <2>2. mod'[sp - 1] # NoModule /\ ctx'[sp - 1] \in {"prepared", "suspended", "active"}
    BY <1>6, <1>9, <2>1 DEF Usable
  <2>3. Usable(sp)'
    BY <1>9, <2>2 DEF Usable
  <2>4. \A i \in Slots : (i < sp' => Usable(i)') /\ (i > sp' => Empty(i)')
    BY <1>1, <1>6, <1>9, <2>1 DEF StackTypes
  <2> QED
    BY <1>7, <2>3, <2>4 DEF StackInv
<1> QED
  BY <1>8, <1>9 DEF ScriptReturn

(* Every step keeps the shape: one case per action. *)
LEMMA StackInvStep == TypeInv /\ NestInv /\ StackInv /\ [Next]_vars => StackInv'
<1> SUFFICES ASSUME TypeInv, NestInv, StackInv, [Next]_vars PROVE StackInv'
  OBVIOUS
<1>1. CASE HostPush \/ PushFromScript
  BY <1>1, PushStack DEF HostPush, PushFromScript
<1>2. CASE CtxInvalid \/ ScriptThrow \/ AbortFromScript
  <2>1. abortReq' = TRUE
    BY <1>2 DEF CtxInvalid, ScriptThrow, AbortFromScript, AbortStackReq
  <2> QED
    BY <2>1, SameStack
<1>3. CASE \/ HostPushDone \/ GameFrame \/ CtxBlocked \/ CtxWait
           \/ SetCurrentInput \/ ScheduleAwait \/ BlockOnPause \/ Yield
           \/ BeginFrameAdvance \/ StepFrameAdvance \/ EndFrameAdvance
           \/ PauseFromScript \/ UNCHANGED vars
  <2>1. UNCHANGED <<sp, mod, ctx, abrt, abortReq>>
    BY <1>3 DEF HostPushDone, GameFrame, CtxBlocked, CtxWait, CtxSchedulable,
         SetCurrentInput, ScheduleAwait, BlockOnPause, Yield, BeginFrameAdvance,
         StepFrameAdvance, EndFrameAdvance, PauseFromScript, vars, playVars, ctxVars
  <2> QED
    BY <2>1, SameStack
<1> QED
  BY <1>1, <1>2, <1>3, PlaybackCalcStack, CtxResumeStack, SysReturnStack, ScriptReturnStack
     DEF Next, MainLoop, CtxStep, ScriptStep

(* Types, nest and shape together are inductive. *)
LEMMA StackInvariant == Spec => [](TypeInv /\ NestInv /\ StackInv)
BY TypeInvInit, TypeInvStep, InitNestInv, NestInvStep, InitStackInv, StackInvStep, PTL DEF Spec

(* Unless an abort is under way, the frames below the stack pointer hold a   *)
(* module and a context that can go on, and those above it are empty, as     *)
(* pushExecModuleEntryPoint and calcCtx take for granted.                    *)
THEOREM StackShapeCorrect == Spec => []StackShape
<1>1. TypeInv /\ NestInv /\ StackInv => StackShape
  BY DEF StackInv, StackShape
<1> QED
  BY <1>1, StackInvariant, PTL

(* abortStackImpl never meets a context inside Execute: when it is done no   *)
(* frame has a module or a context that can run.                             *)
THEOREM AbortCorrect == Spec => AbortClearsStack
<1>1. TypeInv /\ NestInv /\ [Next]_vars
        => [abortReq /\ ~abortReq' => \A i \in Slots : mod'[i] = NoModule /\ ctx'[i] = "uninit"]_vars
  <2> SUFFICES ASSUME TypeInv, NestInv, [Next]_vars, abortReq, ~abortReq'
               PROVE  \A i \in Slots : mod'[i] = NoModule /\ ctx'[i] = "uninit"
    OBVIOUS
  <2>1. CASE PlaybackCalc
    <3>1. pc = "calc" /\ AbortStackImpl
      BY <2>1 DEF PlaybackCalc
    <3>2. \A i \in Slots : Empty(i)'
      BY <3>1, AbortEmpties
    <3> QED
      BY <3>2 DEF Empty
  <2>2. CASE HostPush \/ PushFromScript
    <3>1. abortReq' = TRUE \/ UNCHANGED abortReq
      BY <2>2 DEF HostPush, PushFromScript, PushScript, PushEntryPoint, AbortStackReq, playVars
    <3> QED
      BY <3>1
  <2>3. CASE CtxInvalid \/ ScriptThrow \/ AbortFromScript
    BY <2>3 DEF CtxInvalid, ScriptThrow, AbortFromScript, AbortStackReq
  <2>4. CASE \/ HostPushDone \/ GameFrame \/ CtxBlocked \/ CtxWait \/ CtxResume
             \/ SetCurrentInput \/ ScheduleAwait \/ BlockOnPause \/ Yield
             \/ BeginFrameAdvance \/ StepFrameAdvance \/ EndFrameAdvance
             \/ PauseFromScript \/ ScriptReturn \/ SysReturn \/ UNCHANGED vars
    <3>1. UNCHANGED abortReq
      BY <2>4 DEF HostPushDone, GameFrame, CtxBlocked, CtxWait, CtxResume, CtxSchedulable,
           SetCurrentInput, ScheduleAwait, BlockOnPause, Yield, BeginFrameAdvance,
           StepFrameAdvance, EndFrameAdvance, PauseFromScript, ScriptReturn, SysReturn,
           vars, playVars
    <3> QED
      BY <3>1
  <2> QED
    BY <2>1, <2>2, <2>3, <2>4 DEF Next, MainLoop, CtxStep, ScriptStep
<1> QED
  BY <1>1, NestInvariant, PTL DEF Spec, AbortClearsStack

-----------------------------------------------------------------------------
(* What a step of the scheduler may never do: resume a paused script, end an *)
(* await that has not come about, charge the time of a frame twice, replace  *)
(* an input that is being played, or discard a module in use; and that its   *)
(* steps are those of module ScriptStack.                                    *)

(* The slot a push works on. *)
PushTop == IF mod[sp] # NoModule THEN sp + 1 ELSE sp

(* With no abort requested, the slot a push works on is empty. *)
LEMMA PushTopEmpty ==
  ASSUME TypeInv, StackInv, ~abortReq, PushTop \in Slots
  PROVE  Empty(PushTop)
<1>1. StackTypes
  BY StackTypesOK
<1>2. /\ \A i \in Slots : i > sp => Empty(i)
      /\ Usable(sp) \/ (sp = 0 /\ Empty(sp))
  BY DEF StackInv
<1>3. CASE mod[sp] # NoModule
  <2>1. PushTop = sp + 1 /\ sp \in Int /\ PushTop > sp
    BY <1>1, <1>3 DEF PushTop, StackTypes
  <2> QED
    BY <1>2, <2>1
<1>4. CASE mod[sp] = NoModule
  BY <1>2, <1>4 DEF PushTop, Usable
<1> QED
  BY <1>3, <1>4

(* What pushExecModuleEntryPoint does to the frames: nothing but at PushTop,  *)
(* where the frame stays, or is replaced by one that awaits nothing.  There   *)
(* the module is another one afterwards, or the slot is above the stack.      *)
PushedFrames ==
  /\ \A i \in Slots : i # PushTop => mod'[i] = mod[i] /\ sched'[i] = sched[i]
  /\ PushTop \in Slots =>
       \/ mod'[PushTop] = mod[PushTop] /\ sched'[PushTop] = sched[PushTop]
       \/ /\ mod'[PushTop] # NoModule
          /\ mod'[PushTop] # mod[PushTop] \/ PushTop = sp + 1
          /\ sched'[PushTop].req = NoKey /\ sched'[PushTop].tgt = NoKey
  /\ \/ UNCHANGED sp
     \/ sp' = PushTop /\ PushTop \in Slots /\ mod'[PushTop] # NoModule

(* ... and to what says whether the frame on top is still to be started. *)
PushedPending ==
  \/ abortReq' = TRUE
  \/ UNCHANGED <<sp, pending, abortReq, mod, ctx>>
  \/ /\ UNCHANGED abortReq /\ sp' = PushTop /\ PushTop \in Slots /\ mod'[sp'] # NoModule
     /\ \A i \in Slots : i # PushTop => ctx'[i] = ctx[i]
     /\ Empty(PushTop) => ctx'[sp'] = "prepared"

(* Both hold of a push by whoever pushes, the build included. *)
LEMMA PushOutcome ==
  ASSUME TypeInv, NEW n \in Names, NEW imm \in BOOLEAN, NEW block \in BOOLEAN,
         NEW ret \in {"push", "sysret"}, PushScript(n, imm, block, ret)
  PROVE  /\ PushedFrames /\ PushedPending
         /\ \A m \in Names : registry[m] # NoModule => registry'[m] = registry[m]
         /\ \A i \in Slots : ctx[i] = "suspended" => ctx'[i] # "active"
         /\ pc' \in {ret, "enter", "corrupt"} /\ (pc' = "enter" => imm)
<1> DEFINE fresh == ResetState(IF mod[sp] # NoModule THEN sched[sp].pad ELSE Vanilla)
           ready == ctx[PushTop] \notin {"active", "suspended"}
<1>1. StackTypes /\ sched \in [Slots -> SchedState]
  BY StackTypesOK DEF TypeInv, TypeOK
<1>2. ASSUME AbortStackReq(ctx)
      PROVE  /\ abortReq' = TRUE
             /\ \A i \in Slots : ctx[i] = "suspended" => ctx'[i] # "active"
  BY <1>2 DEF AbortStackReq
<1>3. CASE /\ AbortStackReq(ctx) /\ pc' = ret
           /\ UNCHANGED <<native, sp, active, pending, elapsed, mod, sched, registry>>
  BY <1>2, <1>3 DEF PushedFrames, PushedPending
<1>4. ASSUME NEW h \in Handles, PushEntryPoint(h, n \notin NoEntry, imm, block, ret)
      PROVE  /\ PushedFrames /\ PushedPending
             /\ \A i \in Slots : ctx[i] = "suspended" => ctx'[i] # "active"
             /\ pc' \in {ret, "enter", "corrupt"} /\ (pc' = "enter" => imm)
  <2>1. /\ fresh.req = NoKey /\ fresh.tgt = NoKey
        /\ [fresh EXCEPT !.debug = block].req = NoKey
        /\ [fresh EXCEPT !.debug = block].tgt = NoKey
    BY DEF ResetState
  <2> HIDE DEF fresh
  <2>2. h # NoModule
    BY ConstantsOK DEF Assumptions
  <2>3. CASE /\ PushTop \notin Slots
             /\ pc' = "corrupt"
             /\ UNCHANGED <<native, sp, playVars, mod, sched, ctxVars>>
    BY <2>3 DEF PushedFrames, PushedPending, playVars, ctxVars
  <2>4. CASE /\ PushTop \in Slots /\ mod[sp] # NoModule /\ mod[PushTop] # NoModule
             /\ sched' = [sched EXCEPT ![PushTop] = fresh]
             /\ AbortStackReq(ctx)
             /\ pc' = ret
             /\ UNCHANGED <<native, sp, active, pending, elapsed, mod>>
    <3>1. PushTop = sp + 1
      BY <2>4 DEF PushTop
    <3>2. /\ \A i \in Slots : i # PushTop => sched'[i] = sched[i]
          /\ sched'[PushTop] = fresh
      BY <1>1, <2>4
    <3>3. PushedFrames
      BY <2>1, <2>4, <3>1, <3>2 DEF PushedFrames
    <3> QED
      BY <1>2, <2>4, <3>3 DEF PushedPending
  <2>5. ASSUME PushTop \in Slots, mod[PushTop] = NoModule,
               mod' = [mod EXCEPT ![PushTop] = h],
               sched' = [sched EXCEPT ![PushTop] = [fresh EXCEPT !.debug = block]],
               UNCHANGED sp \/ sp' = PushTop
        PROVE  PushedFrames
    <3>1. /\ \A i \in Slots : i # PushTop => mod'[i] = mod[i] /\ sched'[i] = sched[i]
          /\ mod'[PushTop] = h /\ sched'[PushTop] = [fresh EXCEPT !.debug = block]
      BY <1>1, <2>5 DEF StackTypes
    <3> QED
      BY <2>1, <2>2, <2>5, <3>1 DEF PushedFrames
  <2>6. CASE /\ PushTop \in Slots /\ mod[PushTop] = NoModule /\ n \in NoEntry
             /\ mod' = [mod EXCEPT ![PushTop] = h]
             /\ sched' = [sched EXCEPT ![PushTop] = [fresh EXCEPT !.debug = block]]
             /\ AbortStackReq(ctx)
             /\ pc' = ret
             /\ UNCHANGED <<native, sp, active, pending, elapsed>>
    BY <1>2, <2>5, <2>6 DEF PushedPending
  <2>7. CASE /\ PushTop \in Slots /\ mod[PushTop] = NoModule /\ n \notin NoEntry
             /\ mod' = [mod EXCEPT ![PushTop] = h]
             /\ sched' = [sched EXCEPT ![PushTop] = [fresh EXCEPT !.debug = block]]
             /\ ctx'  = [ctx  EXCEPT ![PushTop] = IF ready THEN "prepared" ELSE @]
             /\ susp' = [SuspendOngoing EXCEPT ![PushTop] = @ /\ ~ready]
             /\ abrt' = [abrt EXCEPT ![PushTop] = @ /\ ~ready]
             /\ sp' = PushTop
             /\ pending' = (pending \/ ~imm)
             /\ pc' = IF imm THEN "enter" ELSE ret
             /\ UNCHANGED <<native, active, abortReq, elapsed>>
    <3>1. PushedFrames
      BY <2>5, <2>7
    <3>2. PushedPending
      <4>1. ctx \in [Slots -> CtxStatus] /\ mod \in [Slots -> Handles \cup {NoModule}]
        BY <1>1 DEF StackTypes
      <4>2. mod'[PushTop] # NoModule /\ \A i \in Slots : i # PushTop => ctx'[i] = ctx[i]
        BY <2>2, <2>7, <4>1
      <4>3. Empty(PushTop) => ctx'[PushTop] = "prepared"
        BY <2>7, <4>1 DEF Empty
      <4> QED
        BY <2>7, <4>2, <4>3 DEF PushedPending
    <3>3. \A i \in Slots : ctx[i] = "suspended" => ctx'[i] # "active"
      BY <1>1, <2>7 DEF StackTypes
    <3> QED
      BY <2>7, <3>1, <3>2, <3>3
  <2> QED
    BY <1>4, <2>3, <2>4, <2>6, <2>7 DEF PushEntryPoint, PushTop, fresh
<1>5. \A m \in Names : registry[m] # NoModule => registry'[m] = registry[m]
  BY DEF PushScript, TypeInv, TypeOK
<1>6. CASE \E h \in Handles : PushEntryPoint(h, n \notin NoEntry, imm, block, ret)
  BY <1>4, <1>5, <1>6
<1> QED
  BY <1>3, <1>5, <1>6 DEF PushScript

-----------------------------------------------------------------------------
(* What calcCtx does to the frames *)

(* An await of frame i that is over in this step has come about. *)
AwaitEnds(i) ==
  /\ sched[i].req # NoKey /\ sched'[i].req = NoKey => sched[i].val = Paused(sched[i].req)
  /\ sched[i].tgt # NoKey /\ sched'[i].tgt = NoKey => sched[i].val = (sched[i].tgt \in targets)

(* isBlockedFromScheduling only ends awaits, and only those that have come about. *)
LEMMA SchedulableAwaits ==
  ASSUME NEW s \in SchedState
  PROVE  LET t == Schedulable(s)[2]
         IN  /\ t.ttl = s.ttl /\ t.pad = s.pad /\ t.debug = s.debug /\ t.loading = s.loading
             /\ t.req \in {s.req, NoKey} /\ t.tgt \in {s.tgt, NoKey}
             /\ s.req # NoKey /\ t.req = NoKey => s.val = Paused(s.req)
             /\ s.tgt # NoKey /\ t.tgt = NoKey => s.val = (s.tgt \in targets)
<1> DEFINE Rest(t)  == t.ttl = s.ttl /\ t.pad = s.pad /\ t.debug = s.debug
                       /\ t.loading = s.loading /\ t.val = s.val
           Req(t)   == /\ t.req \in {s.req, NoKey}
                       /\ s.req # NoKey /\ t.req = NoKey => s.val = Paused(s.req)
           Tgt(t)   == /\ t.tgt \in {s.tgt, NoKey}
                       /\ s.tgt # NoKey /\ t.tgt = NoKey => s.val = (s.tgt \in targets)
           Ends(t)  == t \in SchedState /\ Rest(t) /\ Req(t) /\ Tgt(t)
<1>1. Ends(s)
  OBVIOUS
<1>2. ASSUME NEW t, Ends(t), NEW k \in Keys, Paused(k)
      PROVE  Ends(EndAwaitOf(k, t))
  <2>1. CASE t.req = k /\ t.val
    <3>1. EndAwaitOf(k, t) = [t EXCEPT !.req = NoKey]
      BY <2>1 DEF EndAwaitOf
    <3>2. /\ [t EXCEPT !.req = NoKey] \in SchedState
          /\ [t EXCEPT !.req = NoKey].req = NoKey
          /\ Rest([t EXCEPT !.req = NoKey]) /\ Tgt([t EXCEPT !.req = NoKey])
      BY <1>2 DEF SchedState, Waits
    <3>3. s.req # NoKey => s.val = Paused(s.req)
      <4>1. k # NoKey
        BY <1>2, KeyAssumption
      <4>2. s.val = TRUE /\ s.req = k
        BY <1>2, <2>1, <4>1 DEF SchedState
      <4> QED
        BY <1>2, <4>2 DEF Paused
    <3> QED
      BY <3>1, <3>2, <3>3
  <2>2. CASE ~(t.req = k /\ t.val)
    BY <1>2, <2>2 DEF EndAwaitOf
  <2> QED
    BY <2>1, <2>2
<1>3. ASSUME NEW t, Ends(t) PROVE Ends(AfterDebug(t)) /\ Ends(AfterLoading(t))
  BY <1>2, <1>3, ConstantsOK DEF AfterDebug, AfterLoading, DebugPauses, LoadingPauses, Assumptions
<1>4. ASSUME NEW t, Ends(t) PROVE Ends(AfterRequest(t))
  <2>1. CASE AwaitsRequest(t)
    BY <1>4, <2>1 DEF AfterRequest
  <2>2. CASE ~AwaitsRequest(t)
    <3>1. AfterRequest(t) = [t EXCEPT !.req = NoKey]
      BY <2>2 DEF AfterRequest
    <3>2. t.req = NoKey \/ t.val = Paused(t.req)
      BY <2>2 DEF AwaitsRequest
    <3>3. /\ [t EXCEPT !.req = NoKey] \in SchedState
          /\ [t EXCEPT !.req = NoKey].req = NoKey
          /\ Rest([t EXCEPT !.req = NoKey]) /\ Tgt([t EXCEPT !.req = NoKey])
      BY <1>4 DEF SchedState, Waits
    <3>4. s.req # NoKey => s.val = Paused(s.req)
      BY <1>4, <3>2
    <3> QED
      BY <3>1, <3>3, <3>4
  <2> QED
    BY <2>1, <2>2
<1>5. ASSUME NEW t, Ends(t) PROVE Ends(AfterTarget(t))
  <2>1. CASE AwaitsTarget(t)
    BY <1>5, <2>1 DEF AfterTarget
  <2>2. CASE ~AwaitsTarget(t)
    <3>1. AfterTarget(t) = [t EXCEPT !.tgt = NoKey]
      BY <2>2 DEF AfterTarget
    <3>2. t.tgt = NoKey \/ t.val = (t.tgt \in targets)
      BY <2>2 DEF AwaitsTarget
    <3>3. /\ [t EXCEPT !.tgt = NoKey] \in SchedState
          /\ [t EXCEPT !.tgt = NoKey].tgt = NoKey
          /\ Rest([t EXCEPT !.tgt = NoKey]) /\ Req([t EXCEPT !.tgt = NoKey])
      BY <1>5 DEF SchedState, Waits
    <3>4. s.tgt # NoKey => s.val = (s.tgt \in targets)
      BY <1>5, <3>2
    <3> QED
      BY <3>1, <3>3, <3>4
  <2> QED
    BY <2>1, <2>2
<1> HIDE DEF Ends
<1>6. Ends(Schedulable(s)[2])
  BY <1>1, <1>3, <1>4, <1>5 DEF Schedulable
<1> QED
  BY <1>6 DEF Ends

(* A frame that may be scheduled, and is not pending, is held by no pause. *)
LEMMA NotHeld ==
  ASSUME NEW s \in SchedState, ~pending, ~Schedulable(s)[1]
  PROVE  (DebugPauses(s) => Stepping) /\ ~LoadingPauses(s)
<1>1. DebugPauses(s) => Stepping
  BY DEF Schedulable
<1>2. ~LoadingPauses(AfterDebug(s))
  BY <1>1 DEF Schedulable
<1>3. AfterDebug(s).loading = s.loading
  BY DEF AfterDebug, EndAwaitOf, SchedState
<1> QED
  BY <1>1, <1>2, <1>3 DEF LoadingPauses

(* A script that is held gets its awaits updated; one that is not is charged *)
(* the frame, which is nothing if its time is used up.                       *)
LEMMA CtxFrames ==
  ASSUME TypeInv, CtxBlocked \/ CtxSchedulable
  PROVE  /\ \A i \in Slots : sched'[i].pad = sched[i].pad /\ AwaitEnds(i)
         /\ \A i \in Slots : /\ sched'[i].req \in {sched[i].req, NoKey}
                            /\ sched'[i].tgt \in {sched[i].tgt, NoKey}
         /\ delta = 0 => /\ \A i \in Slots : sched'[i].ttl = sched[i].ttl
                         /\ bypass' = bypass /\ elapsed' = elapsed
<1> DEFINE t  == Schedulable(sched[sp])[2]
           st == [sched EXCEPT ![sp] = t]
           f  == FrameAdvance(st[Charged].debug)
<1>1. sched \in [Slots -> SchedState] /\ sp \in Slots /\ sched[sp] \in SchedState
  BY DEF TypeInv, TypeOK
<1>2. /\ t.ttl = sched[sp].ttl /\ t.pad = sched[sp].pad
      /\ t.req \in {sched[sp].req, NoKey} /\ t.tgt \in {sched[sp].tgt, NoKey}
      /\ sched[sp].req # NoKey /\ t.req = NoKey => sched[sp].val = Paused(sched[sp].req)
      /\ sched[sp].tgt # NoKey /\ t.tgt = NoKey => sched[sp].val = (sched[sp].tgt \in targets)
  BY <1>1, SchedulableAwaits
<1>3. t \in SchedState
  BY <1>1, SchedulableType
<1> HIDE DEF t
<1>4. st \in [Slots -> SchedState] /\ st[sp] = t /\ \A i \in Slots : i # sp => st[i] = sched[i]
  BY <1>1, <1>3
<1>5. CASE CtxBlocked
  <2>1. sched' = st /\ UNCHANGED <<bypass, elapsed>>
    BY <1>5 DEF CtxBlocked, advVars, t
  <2> QED
    BY <1>2, <1>4, <2>1 DEF AwaitEnds
<1>6. CASE CtxSchedulable
  <2>1. ConsumeFrametime(st)
    BY <1>6 DEF CtxSchedulable, t
  <2> HIDE DEF st
  <2>2. Charged \in Slots
    BY ConstantsOK DEF Charged, TypeInv, TypeOK, Slots, Assumptions
  <2>3. sched' = [st EXCEPT ![Charged] =
                   [st[Charged] EXCEPT !.ttl = IF f.play THEN Played(st[Charged].ttl) ELSE st[Charged].ttl]]
    BY <1>4, <2>1, <2>2 DEF ConsumeFrametime
  <2>4. \A i \in Slots : /\ sched'[i].pad = st[i].pad /\ sched'[i].req = st[i].req
                         /\ sched'[i].tgt = st[i].tgt
    BY <1>4, <2>2, <2>3 DEF SchedState
  <2>5. ASSUME delta = 0
        PROVE  /\ \A i \in Slots : sched'[i].ttl = st[i].ttl
               /\ bypass' = bypass /\ elapsed' = elapsed
    <3>1. st[Charged].ttl \in Nat /\ bypass \in Nat
      BY <1>4, <2>2, ConstantsOK DEF SchedState, TypeInv, TypeOK, Assumptions
    <3>2. Played(st[Charged].ttl) = st[Charged].ttl /\ LeftOfStep = bypass
      BY <2>5, <3>1 DEF Played, LeftOfStep
    <3>3. \A i \in Slots : sched'[i].ttl = st[i].ttl
      BY <1>4, <2>2, <2>3, <3>2 DEF SchedState
    <3>4. f.bypass = bypass
      BY <3>2 DEF FrameAdvance
    <3>5. (elapsed + delta) % ElapsedMod = elapsed
      <4>1. elapsed \in 0 .. ElapsedMod - 1 /\ ElapsedMod \in Nat \ {0} /\ elapsed + delta = elapsed
        BY <2>5, ConstantsOK DEF TypeInv, TypeOK, Assumptions
      <4> QED
        BY <4>1
    <3> QED
      BY <2>1, <3>3, <3>4, <3>5 DEF ConsumeFrametime
  <2> QED
    BY <1>2, <1>4, <2>4, <2>5 DEF AwaitEnds
<1> QED
  BY <1>5, <1>6

-----------------------------------------------------------------------------
(* The invariant behind the promises *)

(* It holds of the empty stack. *)
LEMMA InitStepInv == Init => StepInv
<1> SUFFICES ASSUME Init PROVE StepInv
  OBVIOUS
<1>1. sp = 0 /\ \A i \in Slots : ~(i < 0)
  BY ConstantsOK DEF Init, Slots, Assumptions
<1>2. \A i \in Slots : mod[i] = NoModule
  BY DEF Init
<1> QED
  BY <1>1, <1>2 DEF Init, StepInv, PendingPrepared, FilledBelow, NoAwaitAbove, TimeUsedUp

(* The frames stay, but for awaits that end and inputs that change. *)
LEMMA SameFrames ==
  ASSUME FilledBelow, NoAwaitAbove, UNCHANGED <<sp, mod>>,
         \A i \in Slots : i > sp =>
           sched'[i].req \in {sched[i].req, NoKey} /\ sched'[i].tgt \in {sched[i].tgt, NoKey}
  PROVE  FilledBelow' /\ NoAwaitAbove'
BY DEF FilledBelow, NoAwaitAbove

(* A script that finishes leaves its payload to the frame below, unless that *)
(* has input of its own left, and nothing else.                              *)
LEMMA ReturnFrames ==
  ASSUME TypeInv, ScriptReturn, Running = sp
  PROVE  \A i \in Slots : /\ sched'[i].req = sched[i].req /\ sched'[i].tgt = sched[i].tgt
                          /\ sched'[i].ttl = sched[i].ttl
                          /\ sched[i].ttl > 0 => sched'[i].pad = sched[i].pad
<1>1. sched \in [Slots -> SchedState] /\ sp \in Slots
  BY DEF TypeInv, TypeOK
<1>2. CASE UNCHANGED sched
  BY <1>2
<1>3. CASE sched' = [sched EXCEPT ![sp - 1].pad = PadInherited(sched[sp - 1], sched[sp])]
  <2> DEFINE pad == PadInherited(sched[sp - 1], sched[sp])
  <2>1. sched[sp - 1].ttl > 0 /\ sched[sp - 1].ttl \in Nat => pad = sched[sp - 1].pad
    BY DEF PadInherited
  <2>2. sched' = [sched EXCEPT ![sp - 1].pad = pad]
    BY <1>3
  <2> HIDE DEF pad
  <2>3. \A i \in Slots : i # sp - 1 => sched'[i] = sched[i]
    BY <1>1, <2>2
  <2>4. sp - 1 \in Slots => sched'[sp - 1] = [sched[sp - 1] EXCEPT !.pad = pad]
    BY <1>1, <2>2
  <2>5. sp - 1 \in Slots => sched[sp - 1] \in SchedState
    BY <1>1
  <2> QED
    BY <2>1, <2>3, <2>4, <2>5 DEF SchedState
<1> QED
  BY <1>2, <1>3 DEF ScriptReturn

(* A push leaves no gap below the stack pointer and no await above it. *)
LEMMA PushStepInv ==
  ASSUME TypeInv, StackInv, StepInv, PushedFrames, PushedPending
  PROVE  PendingPrepared' /\ FilledBelow' /\ NoAwaitAbove'
<1>1. StackTypes
  BY StackTypesOK
<1>2. sp \in Int /\ PushTop \in Int /\ (PushTop = sp \/ PushTop = sp + 1)
  BY <1>1 DEF StackTypes, PushTop
<1>3. PushTop = sp + 1 => mod[sp] # NoModule
  BY <1>2 DEF PushTop
<1>4. PendingPrepared'
  <2>1. CASE abortReq' = TRUE \/ UNCHANGED <<sp, pending, abortReq, mod, ctx>>
    BY <2>1 DEF StepInv, PendingPrepared
  <2>2. CASE UNCHANGED abortReq /\ sp' = PushTop /\ (Empty(PushTop) => ctx'[sp'] = "prepared")
    <3>1. PushTop \in Slots
      BY <1>1, <1>2, <2>2 DEF PushedFrames, StackTypes
    <3> QED
      BY <2>2, <3>1, PushTopEmpty DEF PendingPrepared
  <2> QED
    BY <2>1, <2>2 DEF PushedPending
<1>5. ASSUME NEW i \in Slots, i < sp' PROVE mod'[i] # NoModule
  <2>1. i \in Int /\ (sp' = sp \/ sp' = PushTop)
    BY <1>1 DEF StackTypes, PushedFrames
  <2>2. CASE i = PushTop
    <3>1. PushTop = sp /\ sp' = sp
      BY <1>2, <1>5, <2>1, <2>2
    <3> QED
      BY <1>2, <1>5, <2>2, <3>1
  <2>3. CASE i # PushTop
    <3>1. mod'[i] = mod[i] /\ i <= sp
      BY <1>2, <1>5, <2>1, <2>3 DEF PushedFrames
    <3>2. CASE i = sp
      BY <1>2, <1>3, <2>3, <3>1, <3>2
    <3>3. CASE i < sp
      BY <3>1, <3>3 DEF StepInv, FilledBelow
    <3> QED
      BY <1>2, <2>1, <3>1, <3>2, <3>3
  <2> QED
    BY <2>2, <2>3
<1>6. ASSUME NEW i \in Slots, i > sp', mod'[i] # NoModule
      PROVE  sched'[i].req = NoKey /\ sched'[i].tgt = NoKey
  <2>1. i \in Int /\ i > sp
    BY <1>1, <1>2, <1>6 DEF StackTypes, PushedFrames
  <2>2. \/ mod'[i] = mod[i] /\ sched'[i] = sched[i]
        \/ sched'[i].req = NoKey /\ sched'[i].tgt = NoKey
    BY DEF PushedFrames
  <2> QED
    BY <1>6, <2>1, <2>2 DEF StepInv, NoAwaitAbove
<1> QED
  BY <1>4, <1>5, <1>6 DEF FilledBelow, NoAwaitAbove

(* Every step keeps the invariant: one case per action. *)
LEMMA StepInvStep == TypeInv /\ NestInv /\ StackInv /\ StepInv /\ [Next]_vars => StepInv'
<1> SUFFICES ASSUME TypeInv, NestInv, StackInv, StepInv, [Next]_vars PROVE StepInv'
  OBVIOUS
<1>1. StackTypes /\ sched \in [Slots -> SchedState]
  BY StackTypesOK DEF TypeInv, TypeOK
<1>2. PendingPrepared /\ FilledBelow /\ NoAwaitAbove /\ TimeUsedUp
  BY DEF StepInv
<1>3. CASE HostPush
  <2>1. PICK n \in Names, block \in BOOLEAN : PushScript(n, FALSE, block, "push")
    BY <1>3 DEF HostPush
  <2>2. PushedFrames /\ PushedPending /\ pc' \in {"push", "corrupt"}
    BY <2>1, PushOutcome
  <2>3. TimeUsedUp'
    BY <2>2 DEF TimeUsedUp
  <2> QED
    BY <2>2, <2>3, PushStepInv DEF StepInv
<1>4. CASE PushFromScript
  <2>1. PICK n \in Names, imm \in BOOLEAN, block \in BOOLEAN : PushScript(n, imm, block, "sysret")
    BY <1>4 DEF PushFromScript
  <2>2. PushedFrames /\ PushedPending
    BY <2>1, PushOutcome
  <2>3. TimeUsedUp'
    BY <1>2, <1>4 DEF PushFromScript, TimeUsedUp, envVars
  <2> QED
    BY <2>2, <2>3, PushStepInv DEF StepInv
<1>5. CASE PlaybackCalc
  <2>1. TimeUsedUp'
    BY <1>5 DEF PlaybackCalc, TimeUsedUp
  <2>2. CASE abortReq /\ AbortStackImpl
    <3>1. sp' = 0 /\ \A i \in Slots : mod'[i] = NoModule
      BY <1>5, <2>2, AbortEmpties DEF PlaybackCalc, Empty
    <3>2. 0 \in Slots /\ \A i \in Slots : ~(i < 0)
      BY ConstantsOK DEF Slots, Assumptions
    <3> QED
      BY <2>1, <3>1, <3>2 DEF StepInv, PendingPrepared, FilledBelow, NoAwaitAbove
  <2>3. CASE UNCHANGED <<abortReq, active, sp, mod, registry, ctxVars>>
    <3>1. UNCHANGED <<abortReq, sp, mod, sched, ctx, pending>>
      BY <1>5, <2>3 DEF PlaybackCalc, ctxVars
    <3> QED
      BY <1>2, <2>1, <3>1 DEF StepInv, PendingPrepared, FilledBelow, NoAwaitAbove
  <2> QED
    BY <1>5, <2>2, <2>3 DEF PlaybackCalc
<1>6. CASE CtxInvalid \/ ScriptThrow \/ AbortFromScript
  <2>1. abortReq' = TRUE /\ UNCHANGED <<sp, mod, sched, delta, ran>> /\ pc \in {"enter", "script"}
    BY <1>6 DEF CtxInvalid, ScriptThrow, AbortFromScript, AbortStackReq, ScriptCall, envVars
  <2> QED
    BY <1>2, <2>1 DEF StepInv, PendingPrepared, FilledBelow, NoAwaitAbove, TimeUsedUp
<1>7. CASE CtxBlocked \/ CtxWait
  <2>1. FilledBelow' /\ NoAwaitAbove'
    <3>1. UNCHANGED <<sp, mod>>
      BY <1>7 DEF CtxBlocked, CtxWait, CtxSchedulable
    <3>2. CtxBlocked \/ CtxSchedulable
      BY <1>7 DEF CtxWait
    <3> QED
      BY <1>2, <3>1, <3>2, CtxFrames, SameFrames
  <2>2. UNCHANGED <<sp, mod, ctx, pending, abortReq, delta, ran>> /\ pc = "enter"
    BY <1>7 DEF CtxBlocked, CtxWait, CtxSchedulable, ctxVars, envVars
  <2> QED
    BY <1>2, <2>1, <2>2 DEF StepInv, PendingPrepared, TimeUsedUp
<1>8. CASE CtxResume
  <2>1. FilledBelow' /\ NoAwaitAbove'
    <3>1. UNCHANGED <<sp, mod>> /\ CtxSchedulable
      BY <1>8 DEF CtxResume, CtxSchedulable
    <3> QED
      BY <1>2, <3>1, CtxFrames, SameFrames
  <2>2. pending' = FALSE /\ delta' = 0
    BY <1>8 DEF CtxResume, PendingEnds, DeltaConsumed
  <2> QED
    BY <2>1, <2>2 DEF StepInv, PendingPrepared, TimeUsedUp
<1>9. CASE ScriptReturn
  <2>1. /\ Running = sp /\ ~abortReq /\ pc = "script" /\ mod' = [mod EXCEPT ![sp] = NoModule]
        /\ UNCHANGED <<pending, abortReq, delta, ran>>
    BY <1>9 DEF ScriptReturn, TryDiscardLastModule, NestInv, RunsOnTop, envVars
  <2>2. TimeUsedUp'
    BY <1>2, <2>1 DEF TimeUsedUp
  <2>3. ctx[sp] = "active"
    <3>1. native # <<>> /\ native \in Seq(Slots)
      BY <2>1 DEF TypeInv, TypeOK
    <3>2. sp \in Executing
      BY <2>1, <3>1, NativeType DEF Executing, Running
    <3> QED
      BY <1>1, <3>2 DEF NestInv, NestingMatchesStack, StackTypes
  <2>4. ~pending
    BY <1>2, <2>1, <2>3 DEF PendingPrepared, StackInv, Usable, Empty
  <2>5. PendingPrepared'
    BY <2>1, <2>4 DEF PendingPrepared
  <2>6. /\ mod'[sp] = NoModule
        /\ \A i \in Slots : i # sp => mod'[i] = mod[i]
    BY <1>1, <2>1 DEF StackTypes
  <2>7. sp' <= sp /\ sp' >= sp - 1 /\ sp' \in Int /\ sp \in Int
    <3>1. sp \in Int /\ (sp' = sp \/ sp' = sp - 1)
      BY <1>1, <1>9 DEF ScriptReturn, StackTypes
    <3> QED
      BY <3>1
  <2>8. FilledBelow'
    BY <1>1, <1>2, <2>6, <2>7 DEF FilledBelow, StackTypes
  <2>9. NoAwaitAbove'
    <3>1. \A i \in Slots : sched'[i].req = sched[i].req /\ sched'[i].tgt = sched[i].tgt
      BY <1>9, <2>1, ReturnFrames
    <3>2. ASSUME NEW i \in Slots, i > sp', mod'[i] # NoModule PROVE i > sp /\ mod[i] # NoModule
      BY <1>1, <2>6, <2>7, <3>2 DEF StackTypes
    <3> QED
      BY <1>2, <3>1, <3>2 DEF NoAwaitAbove
  <2> QED
    BY <2>2, <2>5, <2>8, <2>9 DEF StepInv
<1>10. CASE SysReturn
  <2>1. UNCHANGED <<sp, mod, sched, pending, abortReq, delta, ran>> /\ pc = "sysret"
    BY <1>10 DEF SysReturn, envVars
  <2>2. \A i \in Slots : ctx[i] = "prepared" => ctx'[i] = "prepared"
    <3>1. native # <<>> /\ native \in Seq(Slots)
      BY <2>1 DEF TypeInv, TypeOK
    <3>2. Running \in Slots /\ ctx[Running] = "active"
      <4>1. Running \in Slots /\ Running \in Executing
        BY <3>1, NativeType DEF Executing, Running
      <4> QED
        BY <4>1 DEF NestInv, NestingMatchesStack
    <3> QED
      BY <1>1, <1>10, <3>2 DEF SysReturn, ctxVars, StackTypes
  <2>3. sp \in Slots
    BY <1>1 DEF StackTypes
  <2> QED
    BY <1>2, <2>1, <2>2, <2>3 DEF StepInv, PendingPrepared, FilledBelow, NoAwaitAbove, TimeUsedUp
<1>11. CASE SetCurrentInput \/ ScheduleAwait \/ BlockOnPause
  <2>1. UNCHANGED <<sp, mod, ctx, pending, abortReq, delta, ran>> /\ pc = "script"
    BY <1>11 DEF SetCurrentInput, ScheduleAwait, BlockOnPause, ScriptCall, playVars, ctxVars, envVars
  <2>2. \A i \in Slots : i # sp => sched'[i] = sched[i]
    BY <1>1, <1>11 DEF SetCurrentInput, ScheduleAwait, BlockOnPause
  <2>3. NoAwaitAbove'
    BY <1>1, <1>2, <2>1, <2>2 DEF NoAwaitAbove, StackTypes
  <2> QED
    BY <1>2, <2>1, <2>3 DEF StepInv, PendingPrepared, FilledBelow, TimeUsedUp
<1>12. CASE \/ HostPushDone \/ GameFrame \/ Yield \/ BeginFrameAdvance \/ StepFrameAdvance
            \/ EndFrameAdvance \/ PauseFromScript \/ UNCHANGED vars
  <2>1. UNCHANGED <<sp, mod, sched, ctx, pending, abortReq>>
    BY <1>12 DEF HostPushDone, GameFrame, Yield, BeginFrameAdvance, StepFrameAdvance,
         EndFrameAdvance, PauseFromScript, vars, playVars, ctxVars
  <2>2. TimeUsedUp'
    BY <1>2, <1>12 DEF HostPushDone, GameFrame, Yield, BeginFrameAdvance, StepFrameAdvance,
         EndFrameAdvance, PauseFromScript, ScriptCall, TimeUsedUp, vars, envVars
  <2> QED
    BY <1>2, <2>1, <2>2 DEF StepInv, PendingPrepared, FilledBelow, NoAwaitAbove
<1> QED
  BY <1>3, <1>4, <1>5, <1>6, <1>7, <1>8, <1>9, <1>10, <1>11, <1>12
     DEF Next, MainLoop, CtxStep, ScriptStep

SchedInv == TypeInv /\ NestInv /\ StackInv /\ StepInv

(* All the invariants together hold of every reachable state. *)
LEMMA SchedInvariant == Spec => []SchedInv
<1>1. TypeInv /\ NestInv /\ StackInv /\ StepInv <=> SchedInv
  BY DEF SchedInv
<1> QED
  BY <1>1, StackInvariant, InitStepInv, StepInvStep, PTL DEF Spec

-----------------------------------------------------------------------------
(* The promises *)

(* A script is resumed only by calcCtx, which has then found it neither held  *)
(* by DebugPause without a step outstanding, nor by LoadingPause: that a      *)
(* pending script is let through exempts none that was already running.       *)
THEOREM PauseCorrect == Spec => PausedNotResumed
<1>1. SchedInv /\ [Next]_vars =>
        [\A i \in Slots :
           ctx[i] = "suspended" /\ ctx'[i] = "active" =>
             /\ Paused(DebugPause) /\ sched[i].debug => Stepping
             /\ ~(Paused(LoadingPause) /\ sched[i].loading)]_vars
  <2> SUFFICES ASSUME SchedInv, [Next]_vars, NEW i \in Slots,
                      ctx[i] = "suspended", ctx'[i] = "active"
               PROVE  /\ Paused(DebugPause) /\ sched[i].debug => Stepping
                      /\ ~(Paused(LoadingPause) /\ sched[i].loading)
    OBVIOUS
  <2>1. TypeInv /\ StackTypes /\ sched \in [Slots -> SchedState] /\ PendingPrepared
    BY StackTypesOK DEF SchedInv, StepInv, TypeInv, TypeOK
  <2>2. ~HostPush /\ ~PushFromScript
    BY <2>1, PushOutcome DEF HostPush, PushFromScript
  <2>3. ~CtxInvalid /\ ~AbortFromScript
    BY DEF CtxInvalid, AbortFromScript, AbortStackReq
  <2>4. ~ScriptThrow
    BY <2>1 DEF ScriptThrow, AbortStackReq, StackTypes
  <2>5. ~PlaybackCalc
    BY DEF PlaybackCalc, AbortStackImpl, AbortFrames, ctxVars
  <2>6. ~ScriptReturn /\ ~SysReturn
    BY <2>1 DEF ScriptReturn, SysReturn, ctxVars, StackTypes
  <2>7. CASE CtxResume
    <3>1. i = sp
      BY <2>1, <2>7 DEF CtxResume, StackTypes
    <3>2. ~pending
      BY <2>1, <2>7, <3>1 DEF CtxResume, CtxSchedulable, IsValidForExecution, PendingPrepared
    <3>3. sched[sp] \in SchedState /\ ~Schedulable(sched[sp])[1]
      BY <2>1, <2>7 DEF CtxResume, CtxSchedulable, StackTypes
    <3> QED
      BY <3>1, <3>2, <3>3, NotHeld DEF DebugPauses, LoadingPauses
  <2>8. CASE \/ HostPushDone \/ GameFrame \/ CtxBlocked \/ CtxWait
             \/ SetCurrentInput \/ ScheduleAwait \/ BlockOnPause \/ Yield
             \/ BeginFrameAdvance \/ StepFrameAdvance \/ EndFrameAdvance
             \/ PauseFromScript \/ UNCHANGED vars
    <3>1. UNCHANGED ctx
      BY <2>8 DEF HostPushDone, GameFrame, CtxBlocked, CtxWait, SetCurrentInput, ScheduleAwait,
           BlockOnPause, Yield, BeginFrameAdvance, StepFrameAdvance, EndFrameAdvance,
           PauseFromScript, vars, ctxVars
    <3> QED
      BY <3>1
  <2> QED
    BY <2>2, <2>3, <2>4, <2>5, <2>6, <2>7, <2>8 DEF Next, MainLoop, CtxStep, ScriptStep
<1> QED
  BY <1>1, SchedInvariant, PTL DEF Spec, PausedNotResumed

(* Outside the script's own calls, an await ends only when what it waits for  *)
(* has come about, whatever is pushed, aborted or paused meanwhile.           *)
THEOREM AwaitCorrect == Spec => AwaitHonoured
<1>1. SchedInv /\ [Next]_vars =>
        [\A i \in Slots : mod'[i] = mod[i] /\ mod[i] # NoModule /\ pc # "script" => AwaitEnds(i)]_vars
  <2> SUFFICES ASSUME SchedInv, [Next]_vars, NEW i \in Slots,
                      mod'[i] = mod[i], mod[i] # NoModule, pc # "script"
               PROVE  AwaitEnds(i)
    OBVIOUS
  <2>1. TypeInv /\ NoAwaitAbove /\ StackTypes
    BY StackTypesOK DEF SchedInv, StepInv
  <2>2. CASE HostPush
    <3>1. PushedFrames
      BY <2>1, <2>2, PushOutcome DEF HostPush
    <3>2. CASE i = PushTop
      <4>1. sched'[i] = sched[i] \/ i = sp + 1
        BY <3>1, <3>2 DEF PushedFrames
      <4>2. i = sp + 1 => sched[i].req = NoKey /\ sched[i].tgt = NoKey
        BY <2>1 DEF NoAwaitAbove, StackTypes
      <4> QED
        BY <4>1, <4>2 DEF AwaitEnds
    <3>3. CASE i # PushTop
      BY <3>1, <3>3 DEF PushedFrames, AwaitEnds
    <3> QED
      BY <3>2, <3>3
  <2>3. CASE CtxBlocked \/ CtxWait \/ CtxResume
    BY <2>1, <2>3, CtxFrames DEF CtxWait, CtxResume
  <2>4. CASE \/ HostPushDone \/ PlaybackCalc \/ CtxInvalid \/ SysReturn \/ GameFrame \/ UNCHANGED vars
    <3>1. UNCHANGED sched
      BY <2>4 DEF HostPushDone, PlaybackCalc, CtxInvalid, SysReturn, GameFrame, vars
    <3> QED
      BY <3>1 DEF AwaitEnds
  <2>5. ~ScriptStep
    BY DEF ScriptStep, ScriptCall, SetCurrentInput, ScheduleAwait, BlockOnPause, Yield,
       BeginFrameAdvance, StepFrameAdvance, EndFrameAdvance, PauseFromScript, AbortFromScript,
       PushFromScript, ScriptReturn, ScriptThrow
  <2> QED
    BY <2>2, <2>3, <2>4, <2>5 DEF Next, MainLoop, CtxStep
<1> QED
  BY <1>1, SchedInvariant, PTL DEF Spec, AwaitHonoured, AwaitEnds

(* Once a script ran in a frame, calcCtx takes no more of that frame's time   *)
(* from any input or frame advance step, however often it is entered.         *)
THEOREM TimeCorrect == Spec => TimeChargedOnce
<1>1. SchedInv /\ [Next]_vars =>
        [pc = "enter" /\ ran =>
           /\ \A i \in Slots : sched'[i].ttl = sched[i].ttl
           /\ bypass' = bypass /\ elapsed' = elapsed]_vars
  <2> SUFFICES ASSUME SchedInv, [Next]_vars, pc = "enter", ran
               PROVE  /\ \A i \in Slots : sched'[i].ttl = sched[i].ttl
                      /\ bypass' = bypass /\ elapsed' = elapsed
    OBVIOUS
  <2>1. TypeInv /\ delta = 0
    BY DEF SchedInv, StepInv, TimeUsedUp
  <2>2. CASE CtxBlocked \/ CtxWait \/ CtxResume
    BY <2>1, <2>2, CtxFrames DEF CtxWait, CtxResume
  <2>3. CASE CtxInvalid \/ UNCHANGED vars
    BY <2>3 DEF CtxInvalid, advVars, vars, playVars
  <2>4. ~HostPush /\ ~HostPushDone /\ ~PlaybackCalc /\ ~SysReturn /\ ~GameFrame /\ ~ScriptStep
    BY DEF HostPush, HostPushDone, PlaybackCalc, SysReturn, GameFrame, ScriptStep, ScriptCall,
       SetCurrentInput, ScheduleAwait, BlockOnPause, Yield, BeginFrameAdvance, StepFrameAdvance,
       EndFrameAdvance, PauseFromScript, AbortFromScript, PushFromScript, ScriptReturn, ScriptThrow
  <2> QED
    BY <2>2, <2>3, <2>4 DEF Next, MainLoop, CtxStep
<1> QED
  BY <1>1, SchedInvariant, PTL DEF Spec, TimeChargedOnce

(* Input that a script has scheduled and not yet played is replaced by that   *)
(* script alone, whatever is pushed on top of it and whatever finishes there. *)
THEOREM InputCorrect == Spec => ScheduledInputKept
<1>1. SchedInv /\ [Next]_vars =>
        [\A i \in Slots :
           /\ i <= sp /\ sched[i].ttl > 0 /\ sched'[i].pad # sched[i].pad
           /\ mod'[i] = mod[i] /\ mod[i] # NoModule
           => pc = "script" /\ i = sp]_vars
  <2> SUFFICES ASSUME SchedInv, [Next]_vars, NEW i \in Slots,
                      i <= sp, sched[i].ttl > 0, sched'[i].pad # sched[i].pad,
                      mod'[i] = mod[i], mod[i] # NoModule
               PROVE  pc = "script" /\ i = sp
    OBVIOUS
  <2>1. TypeInv /\ NestInv /\ StackTypes /\ sched \in [Slots -> SchedState]
    BY StackTypesOK DEF SchedInv, TypeInv, TypeOK
  <2>2. ~HostPush /\ ~PushFromScript
    <3> SUFFICES ASSUME PushedFrames PROVE FALSE
      BY <2>1, PushOutcome DEF HostPush, PushFromScript
    <3>1. i = PushTop /\ i = sp + 1
      BY DEF PushedFrames
    <3> QED
      BY <2>1, <3>1 DEF StackTypes
  <2>3. ~CtxBlocked /\ ~CtxWait /\ ~CtxResume
    BY <2>1, CtxFrames DEF CtxWait, CtxResume
  <2>4. ~ScriptReturn
    BY <2>1, ReturnFrames DEF ScriptReturn, NestInv, RunsOnTop
  <2>5. CASE SetCurrentInput \/ ScheduleAwait \/ BlockOnPause
    <3>1. pc = "script"
      BY <2>5 DEF SetCurrentInput, ScheduleAwait, BlockOnPause, ScriptCall
    <3>2. i # sp => sched'[i] = sched[i]
      BY <2>1, <2>5 DEF SetCurrentInput, ScheduleAwait, BlockOnPause
    <3> QED
      BY <3>1, <3>2
  <2>6. CASE \/ HostPushDone \/ PlaybackCalc \/ CtxInvalid \/ SysReturn \/ GameFrame
             \/ Yield \/ BeginFrameAdvance \/ StepFrameAdvance \/ EndFrameAdvance
             \/ PauseFromScript \/ AbortFromScript \/ ScriptThrow \/ UNCHANGED vars
    <3>1. UNCHANGED sched
      BY <2>6 DEF HostPushDone, PlaybackCalc, CtxInvalid, SysReturn, GameFrame, Yield,
           BeginFrameAdvance, StepFrameAdvance, EndFrameAdvance, PauseFromScript,
           AbortFromScript, ScriptThrow, vars
    <3> QED
      BY <3>1
  <2> QED
    BY <2>2, <2>3, <2>4, <2>5, <2>6 DEF Next, MainLoop, CtxStep, ScriptStep
<1> QED
  BY <1>1, SchedInvariant, PTL DEF Spec, ScheduledInputKept

(* In frame advance mode DebugPause is held whenever no step is outstanding,  *)
(* as long as scripts leave that pause to the frame advance.  MaxPause bounds *)
(* the nested requests of one pause, and there must be room for one.          *)
THEOREM StepEndsCorrect ==
  ASSUME DebugPause \notin ScriptKeys, MaxPause > 0
  PROVE  Spec => []StepEndsPaused
<1> USE DEF StepEndsPaused
<1>1. TypeInv => /\ pause \in PauseCounts /\ DebugPause \in Keys /\ MaxPause \in Nat
                 /\ bypass \in Nat /\ delta \in Nat
  BY ConstantsOK DEF TypeInv, TypeOK, PauseCounts, Assumptions
<1>2. ASSUME TypeInv PROVE Requested(pause, DebugPause)[DebugPause] > 0
  BY <1>1, <1>2 DEF Requested, PauseCounts
<1>3. ASSUME TypeInv, NEW k \in Keys \ {DebugPause}
      PROVE  /\ Requested(pause, k)[DebugPause] = pause[DebugPause]
             /\ Released(pause, k)[DebugPause] = pause[DebugPause]
  BY <1>1, <1>3 DEF Requested, Released, PauseCounts
<1>4. Init => StepEndsPaused
  BY DEF Init
<1>5. TypeInv /\ StepEndsPaused /\ [Next]_vars => StepEndsPaused'
  <2> SUFFICES ASSUME TypeInv, StepEndsPaused, [Next]_vars PROVE StepEndsPaused'
    OBVIOUS
  <2>1. CASE BeginFrameAdvance
    BY <1>2, <2>1 DEF BeginFrameAdvance, Paused
  <2>2. CASE StepFrameAdvance
    <3>1. PICK d \in Durations : bypass' = (IF frameAdv THEN bypass ELSE 0) + d
      BY <2>2 DEF StepFrameAdvance
    <3>2. d \in Nat
      BY ConstantsOK DEF Assumptions
    <3>3. pause' = IF frameAdv \/ Paused(DebugPause) THEN pause ELSE Requested(pause, DebugPause)
      BY <2>2 DEF StepFrameAdvance
    <3> QED
      BY <1>1, <1>2, <3>1, <3>2, <3>3 DEF Paused
  <2>3. CASE EndFrameAdvance
    BY <2>3 DEF EndFrameAdvance
  <2>4. CASE PauseFromScript
    <3>1. PICK k \in ScriptKeys : pause' \in {Requested(pause, k), Released(pause, k)}
      BY <2>4 DEF PauseFromScript
    <3>2. k \in Keys \ {DebugPause} /\ UNCHANGED <<frameAdv, bypass>>
      BY <2>4, KeyAssumption DEF PauseFromScript, advVars
    <3> QED
      BY <1>3, <3>1, <3>2 DEF Paused
  <2>5. CASE GameFrame
    BY <1>3, <2>5 DEF GameFrame, Paused, advVars
  <2>6. CASE CtxWait \/ CtxResume
    <3> DEFINE f == FrameAdvance([sched EXCEPT ![sp] = Schedulable(sched[sp])[2]][Charged].debug)
    <3>1. /\ UNCHANGED frameAdv /\ bypass' = f.bypass /\ pause' = f.pause
      BY <2>6 DEF CtxWait, CtxResume, CtxSchedulable, ConsumeFrametime
    <3>2. frameAdv /\ f.bypass = 0 => f.pause[DebugPause] > 0
      BY <1>1, <1>2 DEF FrameAdvance, PauseAfterStep, Paused
    <3> QED
      BY <3>1, <3>2 DEF Paused
  <2>7. CASE \/ HostPush \/ PushFromScript \/ HostPushDone \/ PlaybackCalc \/ CtxInvalid \/ CtxBlocked
             \/ SysReturn \/ SetCurrentInput \/ ScheduleAwait \/ BlockOnPause \/ Yield
             \/ AbortFromScript \/ ScriptReturn \/ ScriptThrow \/ UNCHANGED vars
    <3>1. UNCHANGED <<frameAdv, bypass, pause>>
      BY <2>7 DEF HostPush, PushFromScript, HostPushDone, PlaybackCalc, CtxInvalid, CtxBlocked,
           SysReturn, SetCurrentInput, ScheduleAwait, BlockOnPause, Yield, AbortFromScript,
           ScriptReturn, ScriptThrow, vars, advVars, envVars
    <3> QED
      BY <3>1 DEF Paused
  <2> QED
    BY <2>1, <2>2, <2>3, <2>4, <2>5, <2>6, <2>7 DEF Next, MainLoop, CtxStep, ScriptStep
<1> QED
  BY <1>4, <1>5, TypeInvInit, TypeInvStep, PTL DEF Spec
-----------------------------------------------------------------------------
(* The scheduler is a stack of cooperative scripts *)

FrameStatus == {"queued", "running", "waiting"}

FrameOf(c) == CASE c = "active"   -> "running"
                [] c = "prepared" -> "queued"
                [] OTHER          -> "waiting"

(* The frames of a stack with the pointer p, c being the contexts' statuses. *)
FramesUpTo(p, c) == [i \in 1 .. p + 1 |-> FrameOf(c[i - 1])]

(* The frames of a stack are a sequence, one for each context up to the pointer. *)
LEMMA FramesUpToSeq ==
  ASSUME NEW p \in Nat, NEW c
  PROVE  /\ FramesUpTo(p, c) \in Seq(FrameStatus)
         /\ Len(FramesUpTo(p, c)) = p + 1
         /\ \A i \in 1 .. p + 1 : FramesUpTo(p, c)[i] = FrameOf(c[i - 1])
<1>1. FramesUpTo(p, c) \in [1 .. p + 1 -> FrameStatus]
  BY DEF FramesUpTo, FrameOf, FrameStatus
<1>2. p + 1 \in Nat
  OBVIOUS
<1>3. FramesUpTo(p, c) \in Seq(FrameStatus)
  BY <1>1, <1>2
<1> QED
  BY <1>1, <1>2, <1>3 DEF FramesUpTo

(* The frames of the abstract stack before a step. *)
LEMMA FramesBefore ==
  ScriptFrames = IF abortReq \/ mod[sp] = NoModule THEN <<>> ELSE FramesUpTo(sp, ctx)
BY DEF ScriptFrames, FramesUpTo, FrameOf

(* The frames of the abstract stack after a step. *)
LEMMA FramesAfter ==
  ScriptFrames' = IF abortReq' \/ mod'[sp'] = NoModule THEN <<>> ELSE FramesUpTo(sp', ctx')
BY DEF ScriptFrames, FramesUpTo, FrameOf

(* A push is a push of the abstract stack, or ends it, or is not seen there. *)
LEMMA PushMaps ==
  ASSUME TypeInv, StackInv, NEW n \in Names, NEW imm \in BOOLEAN, NEW block \in BOOLEAN,
         NEW ret \in {"push", "sysret"}, PushScript(n, imm, block, ret)
  PROVE  Stack!Next \/ UNCHANGED ScriptFrames
<1>1. StackTypes
  BY StackTypesOK
<1>2. PushedPending
  BY PushOutcome
<1>3. CASE abortReq' = TRUE
  BY <1>3, FramesAfter DEF Stack!Next, Stack!Abort
<1>4. CASE UNCHANGED <<sp, pending, abortReq, mod, ctx>>
  BY <1>4, FramesBefore, FramesAfter
<1>5. CASE /\ UNCHANGED abortReq /\ sp' = PushTop /\ PushTop \in Slots /\ mod'[sp'] # NoModule
           /\ \A i \in Slots : i # PushTop => ctx'[i] = ctx[i]
           /\ Empty(PushTop) => ctx'[sp'] = "prepared"
  <2>1. CASE abortReq
    BY <1>5, <2>1, FramesBefore, FramesAfter
  <2>2. CASE ~abortReq
    <3>1. ctx'[PushTop] = "prepared"
      BY <1>5, <2>2, PushTopEmpty
    <3>2. ScriptFrames' = FramesUpTo(PushTop, ctx')
      BY <1>5, <2>2, FramesAfter
    <3>3. CASE mod[sp] = NoModule
      <4>1. ScriptFrames = <<>> /\ PushTop = 0
        BY <1>1, <2>2, <3>3, FramesBefore DEF PushTop, StackInv, Usable
      <4>2. FramesUpTo(0, ctx') = <<"queued">>
        BY <3>1, <4>1 DEF FramesUpTo, FrameOf
      <4> QED
        BY <3>2, <4>1, <4>2 DEF Stack!Next, Stack!Push
    <3>4. CASE mod[sp] # NoModule
      <4>1. ScriptFrames = FramesUpTo(sp, ctx) /\ PushTop = sp + 1 /\ sp \in Nat
        BY <1>1, <2>2, <3>4, FramesBefore, ConstantsOK DEF PushTop, StackTypes, Slots, Assumptions
      <4>2. \A i \in 1 .. sp + 1 : i - 1 \in Slots /\ i - 1 # PushTop
        BY <1>1, <4>1, ConstantsOK DEF StackTypes, Slots, Assumptions
      <4>3. \A i \in 1 .. sp + 1 : FramesUpTo(sp + 1, ctx')[i] = FramesUpTo(sp, ctx)[i]
        BY <1>5, <4>1, <4>2 DEF FramesUpTo
      <4>4. FramesUpTo(sp + 1, ctx')[sp + 2] = "queued"
        BY <3>1, <4>1 DEF FramesUpTo, FrameOf
      <4>5. /\ FramesUpTo(sp, ctx) \in Seq(FrameStatus) /\ Len(FramesUpTo(sp, ctx)) = sp + 1
            /\ FramesUpTo(sp + 1, ctx') \in Seq(FrameStatus)
            /\ Len(FramesUpTo(sp + 1, ctx')) = sp + 2
        BY <4>1, FramesUpToSeq
      <4>6. Append(FramesUpTo(sp, ctx), "queued") = FramesUpTo(sp + 1, ctx')
        BY <4>1, <4>3, <4>4, <4>5 DEF FrameStatus
      <4> QED
        BY <3>2, <4>1, <4>6 DEF Stack!Next, Stack!Push
    <3> QED
      BY <3>3, <3>4
  <2> QED
    BY <2>1, <2>2
<1> QED
  BY <1>2, <1>3, <1>4, <1>5 DEF PushedPending

(* What decides to resume the top resumes it there. *)
LEMMA ResumeMaps ==
  ASSUME TypeInv, CtxResume
  PROVE  Stack!Next
<1>1. StackTypes /\ sp \in Nat
  BY StackTypesOK, ConstantsOK DEF StackTypes, Slots, Assumptions
<1>2. /\ ~abortReq /\ mod[sp] # NoModule /\ ctx[sp] \in {"suspended", "prepared"}
      /\ UNCHANGED <<abortReq, mod, sp>> /\ ctx' = [ctx EXCEPT ![sp] = "active"]
  BY DEF CtxResume, CtxSchedulable, IsValidForExecution
<1>3. ScriptFrames = FramesUpTo(sp, ctx) /\ ScriptFrames' = FramesUpTo(sp, ctx')
  BY <1>2, FramesBefore, FramesAfter
<1>4. Len(FramesUpTo(sp, ctx)) = sp + 1 /\ FramesUpTo(sp, ctx)[sp + 1] \in {"queued", "waiting"}
  BY <1>1, <1>2, FramesUpToSeq DEF FrameOf
<1>5. FramesUpTo(sp, ctx') = [FramesUpTo(sp, ctx) EXCEPT ![sp + 1] = "running"]
  <2>1. \A i \in 1 .. sp + 1 : ctx'[i - 1] = IF i = sp + 1 THEN "active" ELSE ctx[i - 1]
    BY <1>1, <1>2, ConstantsOK DEF StackTypes, Slots, Assumptions
  <2> QED
    BY <1>1, <2>1 DEF FramesUpTo, FrameOf
<1> QED
  BY <1>1, <1>3, <1>4, <1>5 DEF Stack!Next, Stack!Resume, Stack!Top

(* A script whose Execute returns suspended waits from then on: of those that *)
(* run, it is the one furthest up, even if others were pushed on top of it.   *)
LEMMA SuspendMaps ==
  ASSUME TypeInv, NestInv, StackInv, SysReturn
  PROVE  Stack!Next \/ UNCHANGED ScriptFrames
<1>1. StackTypes /\ sp \in Nat /\ Slots \subseteq Nat /\ UNCHANGED <<abortReq, mod, sp>>
  BY StackTypesOK, ConstantsOK DEF StackTypes, Slots, Assumptions, SysReturn
<1>2. CASE abortReq \/ mod[sp] = NoModule
  BY <1>1, <1>2, FramesBefore, FramesAfter
<1>3. CASE UNCHANGED ctx
  BY <1>1, <1>3, FramesBefore, FramesAfter
<1>4. CASE ~abortReq /\ mod[sp] # NoModule /\ ~(UNCHANGED ctx)
  <2>1. native # <<>> /\ NestingMatchesStack
    BY DEF TypeInv, NestInv, SysReturn
  <2>2. /\ native' = Outer
        /\ ctx' = [ctx EXCEPT ![Running] = IF abrt[Running] THEN "aborted" ELSE "suspended"]
    BY <1>4 DEF SysReturn, CalcReturn, ctxVars
  <2>3. /\ Running \in Slots /\ Running \in Executing
        /\ \A i \in Executing : i = Running \/ i < Running
    BY <2>1, <2>2, PopNested
  <2>4. Running <= sp /\ ctx[Running] = "active"
    BY <2>1, <2>3 DEF NestingMatchesStack
  <2>5. ~abrt[Running]
    BY <1>4, <2>3, <2>4 DEF StackInv
  <2>6. ScriptFrames = FramesUpTo(sp, ctx) /\ ScriptFrames' = FramesUpTo(sp, ctx')
    BY <1>1, <1>4, FramesBefore, FramesAfter
  <2> DEFINE r == Running + 1
  <2>7. r \in 1 .. sp + 1 /\ Len(FramesUpTo(sp, ctx)) = sp + 1
    BY <1>1, <2>3, <2>4, FramesUpToSeq
  <2>8. FramesUpTo(sp, ctx)[r] = "running"
    BY <1>1, <2>3, <2>4, <2>7 DEF FramesUpTo, FrameOf
  <2>9. ASSUME NEW j \in r + 1 .. sp + 1
        PROVE  FramesUpTo(sp, ctx)[j] # "running"
    <3>1. j - 1 \in Slots /\ j - 1 > Running /\ j \in 1 .. sp + 1
      BY <1>1, <2>3, ConstantsOK DEF StackTypes, Slots, Assumptions
    <3>2. ctx[j - 1] # "active"
      BY <1>1, <2>1, <2>3, <3>1 DEF NestingMatchesStack
    <3> QED
      BY <3>1, <3>2 DEF FramesUpTo, FrameOf
  <2>10. FramesUpTo(sp, ctx') = [FramesUpTo(sp, ctx) EXCEPT ![r] = "waiting"]
    <3>1. \A i \in 1 .. sp + 1 :
            ctx'[i - 1] = IF i = r THEN "suspended" ELSE ctx[i - 1]
      BY <1>1, <2>2, <2>3, <2>5, ConstantsOK DEF StackTypes, Slots, Assumptions
    <3> QED
      BY <1>1, <2>7, <3>1 DEF FramesUpTo, FrameOf
  <2> HIDE DEF r
  <2> QED
    BY <2>6, <2>7, <2>8, <2>9, <2>10 DEF Stack!Next, Stack!Suspend, Stack!Top
<1> QED
  BY <1>2, <1>3, <1>4

(* The script that returns is the one on top, which leaves the stack. *)
LEMMA FinishMaps ==
  ASSUME TypeInv, NestInv, StackInv, ScriptReturn
  PROVE  Stack!Next
<1>1. StackTypes /\ sp \in Nat /\ Slots \subseteq Nat /\ UNCHANGED abortReq
  BY StackTypesOK, ConstantsOK DEF StackTypes, Slots, Assumptions, ScriptReturn
<1>2. Running = sp /\ ~abortReq /\ native # <<>> /\ native' = Outer
  BY DEF NestInv, RunsOnTop, TypeInv, ScriptReturn, CalcReturn
<1>3. ctx[sp] = "active"
  BY <1>2, PopNested DEF NestInv, NestingMatchesStack
<1>4. mod[sp] # NoModule
  BY <1>2, <1>3 DEF StackInv, Empty, Usable
<1>5. /\ ScriptFrames = FramesUpTo(sp, ctx)
      /\ Len(FramesUpTo(sp, ctx)) = sp + 1 /\ FramesUpTo(sp, ctx)[sp + 1] = "running"
      /\ FramesUpTo(sp, ctx) \in Seq(FrameStatus)
  BY <1>1, <1>2, <1>3, <1>4, FramesBefore, FramesUpToSeq DEF FrameOf
<1>6. /\ ctx' = [ctx EXCEPT ![sp] = "uninit"] /\ mod' = [mod EXCEPT ![sp] = NoModule]
  BY <1>2 DEF ScriptReturn, TryDiscardLastModule
<1>7. ScriptFrames' = SubSeq(FramesUpTo(sp, ctx), 1, sp)
  <2>1. CASE sp = 0
    <3>1. sp' = sp /\ mod'[sp'] = NoModule
      BY <1>1, <1>6, <2>1 DEF ScriptReturn, StackTypes
    <3>2. SubSeq(FramesUpTo(sp, ctx), 1, 0) = <<>>
      BY <1>5
    <3> QED
      BY <2>1, <3>1, <3>2, FramesAfter
  <2>2. CASE sp > 0
    <3>1. sp' = sp - 1 /\ sp - 1 \in Slots /\ sp - 1 \in Nat
      <4>1. sp # 0
        BY <2>2
      <4>2. sp' = sp - 1
        BY <4>1, Zenon DEF ScriptReturn
      <4> QED
        BY <1>1, <2>2, <4>2, ConstantsOK DEF StackTypes, Slots, Assumptions
    <3>2. mod'[sp'] # NoModule
      BY <1>1, <1>2, <1>6, <3>1 DEF StackInv, Usable, StackTypes
    <3>3. ScriptFrames' = FramesUpTo(sp - 1, ctx')
      BY <1>1, <1>2, <3>1, <3>2, FramesAfter
    <3>4. \A i \in 1 .. sp : FramesUpTo(sp - 1, ctx')[i] = FramesUpTo(sp, ctx)[i]
      <4>1. \A i \in 1 .. sp : i - 1 \in Slots /\ i - 1 # sp
        BY <1>1, ConstantsOK DEF StackTypes, Slots, Assumptions
      <4>2. \A i \in 1 .. sp : ctx'[i - 1] = ctx[i - 1]
        BY <1>1, <1>6, <4>1 DEF StackTypes
      <4> QED
        BY <1>1, <4>2 DEF FramesUpTo
    <3>5. /\ FramesUpTo(sp - 1, ctx') \in Seq(FrameStatus)
          /\ Len(FramesUpTo(sp - 1, ctx')) = sp
      BY <1>1, <3>1, FramesUpToSeq
    <3>6. FramesUpTo(sp - 1, ctx') = SubSeq(FramesUpTo(sp, ctx), 1, sp)
      BY <1>1, <1>5, <3>4, <3>5 DEF FrameStatus
    <3> QED
      BY <3>3, <3>6
  <2> QED
    BY <1>1, <2>1, <2>2
<1> QED
  BY <1>1, <1>5, <1>7 DEF Stack!Next, Stack!Finish, Stack!Top

(* Module Schedule implements module ScriptStack: whatever is pushed, paused, *)
(* nested or aborted, what is left of a step is one of an abstract stack of   *)
(* scripts of which only the top one is started, resumed or finished.         *)
THEOREM RefinementCorrect == Spec => ImplementsScriptStack
<1>1. Init => Stack!Init
  <2> SUFFICES ASSUME Init PROVE ScriptFrames = <<>>
    BY DEF Stack!Init
  <2>1. mod[sp] = NoModule
    BY ConstantsOK DEF Init, Slots, Assumptions
  <2> QED
    BY <2>1, FramesBefore
<1>2. SchedInv /\ [Next]_vars => [Stack!Next]_ScriptFrames
  <2> SUFFICES ASSUME SchedInv, [Next]_vars PROVE Stack!Next \/ UNCHANGED ScriptFrames
    BY Zenon
  <2>1. TypeInv /\ NestInv /\ StackInv
    BY DEF SchedInv
  <2>2. CASE HostPush \/ PushFromScript
    <3>1. PICK n \in Names, imm \in BOOLEAN, block \in BOOLEAN, ret \in {"push", "sysret"} :
            PushScript(n, imm, block, ret)
      BY <2>2 DEF HostPush, PushFromScript
    <3> QED
      BY <2>1, <3>1, PushMaps
  <2>3. CASE CtxInvalid \/ AbortFromScript \/ ScriptThrow
    <3>1. abortReq' = TRUE
      BY <2>3 DEF CtxInvalid, AbortFromScript, ScriptThrow, AbortStackReq
    <3> QED
      BY <3>1, FramesAfter DEF Stack!Next, Stack!Abort
  <2>4. CASE PlaybackCalc
    <3>1. CASE abortReq /\ AbortStackImpl
      <4>1. sp' = 0 /\ mod'[0] = NoModule
        BY <3>1, ConstantsOK DEF AbortStackImpl, AbortFrames, Slots, Assumptions
      <4> QED
        BY <3>1, <4>1, FramesBefore, FramesAfter
    <3>2. CASE UNCHANGED <<abortReq, active, sp, mod, registry, ctxVars>>
      BY <3>2, FramesBefore, FramesAfter DEF ctxVars
    <3> QED
      BY <2>4, <3>1, <3>2 DEF PlaybackCalc
  <2>5. CASE CtxResume
    BY <2>1, <2>5, ResumeMaps
  <2>6. CASE SysReturn
    BY <2>1, <2>6, SuspendMaps
  <2>7. CASE ScriptReturn
    BY <2>1, <2>7, FinishMaps
  <2>8. CASE \/ HostPushDone \/ GameFrame \/ CtxBlocked \/ CtxWait
             \/ SetCurrentInput \/ ScheduleAwait \/ BlockOnPause \/ Yield
             \/ BeginFrameAdvance \/ StepFrameAdvance \/ EndFrameAdvance
             \/ PauseFromScript \/ UNCHANGED vars
    <3>1. UNCHANGED <<abortReq, sp, mod, ctx>>
      BY <2>8 DEF HostPushDone, GameFrame, CtxBlocked, CtxWait, CtxSchedulable, SetCurrentInput,
           ScheduleAwait, BlockOnPause, Yield, BeginFrameAdvance, StepFrameAdvance,
           EndFrameAdvance, PauseFromScript, vars, playVars, ctxVars
    <3> QED
      BY <3>1, FramesBefore, FramesAfter
  <2> QED
    BY <2>2, <2>3, <2>4, <2>5, <2>6, <2>7, <2>8 DEF Next, MainLoop, CtxStep, ScriptStep
<1> QED
  BY <1>1, <1>2, SchedInvariant, PTL DEF Spec, ImplementsScriptStack, Stack!Spec

-----------------------------------------------------------------------------
(* The hotkeys *)

Bound == Triggers \cup {NoTrigger}

(* Every variable of the hotkeys keeps its type. *)
HotkeyTypeOK ==
  /\ bindings \in [Hotkeys -> [trigger : Bound, script : Scripts \cup {NoTrigger}, remaining : Nat]]
  /\ cooldownFrames \in Nat
  /\ rest \in [Triggers -> Nat]
  /\ early \in BOOLEAN

(* The slot of a trigger holds the cooldown that the trigger is to honour. *)
CooldownInSlot ==
  \A i \in Hotkeys :
    bindings[i].remaining = IF bindings[i].trigger = NoTrigger THEN 0 ELSE rest[bindings[i].trigger]

(* What is bound is bound to a script. *)
BoundToScript == \A i \in Hotkeys : bindings[i].trigger # NoTrigger => bindings[i].script \in Scripts

HotkeyInv == HotkeyTypeOK /\ UniqueTrigger /\ CooldownInSlot /\ CooldownHonoured

(* What a step of the controls may do to the hotkeys *)
HotkeyStep ==
  \/ UNCHANGED hotkeyVars
  \/ CalcCooldown
  \/ \E i \in Hotkeys : Fires(i) /\ bindings[i].trigger \in Triggers /\ Fire(i)
  \/ \E t \in Triggers : (\E s \in Scripts : Bind(t, s)) \/ Unbind(t)
  \/ SetCooldown

(* The loops over the slots find one of those they look for, or none. *)
LEMMA FirstIsOne ==
  ASSUME NEW slots \in SUBSET Hotkeys
  PROVE  /\ slots = {} => First(slots) = 0
         /\ slots # {} => First(slots) \in slots
<1>1. Hotkeys \subseteq Nat
  BY CooldownAssumption DEF Hotkeys
<1>2. slots # {} => \E i \in slots : \A j \in slots : ~(<<j, i>> \in OpToRel(<, Nat))
  BY <1>1, WFMin, NatLessThanWellFounded
<1>3. ASSUME slots # {} PROVE \E i \in slots : \A j \in slots : i <= j
  <2>1. PICK i \in slots : \A j \in slots : ~(<<j, i>> \in OpToRel(<, Nat))
    BY <1>2, <1>3
  <2>2. ASSUME NEW j \in slots PROVE i <= j
    <3>1. i \in Nat /\ j \in Nat
      BY <1>1
    <3>2. j < i => <<j, i>> \in OpToRel(<, Nat)
      BY <3>1 DEF OpToRel
    <3>3. ~(j < i)
      BY <2>1, <3>2
    <3>. QED  BY <3>1, <3>3
  <2>. QED  BY <2>2
<1>. QED  BY <1>3 DEF First

(* A hotkey that is looked for and found has a trigger. *)
LEMMA FoundHasTrigger ==
  ASSUME HotkeyTypeOK, NEW i,
         (\E buttons : i = GetByButtons(buttons)) \/ (\E pressed : i = GetByKeyboardState(pressed)),
         i # 0
  PROVE  i \in Hotkeys /\ bindings[i].trigger \in Triggers
<1>1. CASE \E buttons : i = GetByButtons(buttons)
  <2>. PICK buttons : i = GetByButtons(buttons)
    BY <1>1
  <2>. DEFINE slots == {j \in Hotkeys : /\ bindings[j].trigger # NoTrigger
                                       /\ bindings[j].trigger.kind = "buttons"
                                       /\ bindings[j].trigger.buttons = buttons}
  <2>1. i = First(slots)
    BY DEF GetByButtons
  <2>2. i \in slots
    <3>. HIDE DEF slots
    <3>1. slots \in SUBSET Hotkeys
      BY DEF slots
    <3>. QED  BY <2>1, <3>1, FirstIsOne
  <2>3. i \in Hotkeys /\ bindings[i].trigger # NoTrigger
    BY <2>2
  <2>. HIDE DEF slots
  <2>. QED  BY <2>3 DEF HotkeyTypeOK, Bound
<1>2. CASE \E pressed : i = GetByKeyboardState(pressed)
  <2>. PICK pressed : i = GetByKeyboardState(pressed)
    BY <1>2
  <2>. DEFINE slots == {j \in Hotkeys : /\ bindings[j].trigger # NoTrigger
                                       /\ bindings[j].trigger.kind = "keyboard"
                                       /\ bindings[j].trigger.keys # <<>>
                                       /\ AllKeys(bindings[j].trigger.keys, pressed)}
  <2>1. i = First(slots)
    BY DEF GetByKeyboardState
  <2>2. i \in slots
    <3>. HIDE DEF slots
    <3>1. slots \in SUBSET Hotkeys
      BY DEF slots
    <3>. QED  BY <2>1, <3>1, FirstIsOne
  <2>3. i \in Hotkeys /\ bindings[i].trigger # NoTrigger
    BY <2>2
  <2>. HIDE DEF slots
  <2>. QED  BY <2>3 DEF HotkeyTypeOK, Bound
<1>. QED  BY <1>1, <1>2

(* Every step of the controls is one of those of the hotkeys. *)
LEMMA ControlsDoHotkeySteps ==
  ASSUME HotkeyTypeOK, [ControlsNext]_allVars
  PROVE  HotkeyStep
<1>1. CASE UNCHANGED allVars
  BY <1>1 DEF allVars, controlVars, hotkeyVars, HotkeyStep
<1>2. CASE WebSocketPush
  BY <1>2 DEF WebSocketPush, HotkeyStep
<1>3. CASE HotkeyCooldown
  BY <1>3 DEF HotkeyCooldown, HotkeyStep
<1>4. CASE HotkeyButtons
  <2>. DEFINE i == GetByButtons(current.buttons)
  <2>1. HotkeyDispatch(i)
    BY <1>4 DEF HotkeyButtons
  <2>2. CASE ~Fires(i)
    BY <2>1, <2>2 DEF HotkeyDispatch, HotkeyStep
  <2>3. CASE Fires(i) /\ Fire(i)
    <3>1. i # 0
      BY <2>3 DEF Fires
    <3>2. i \in Hotkeys /\ bindings[i].trigger \in Triggers
      BY <3>1, FoundHasTrigger
    <3>. QED  BY <2>3, <3>2 DEF HotkeyStep
  <2>. QED  BY <2>1, <2>2, <2>3 DEF HotkeyDispatch
<1>5. CASE HotkeyKeyboard
  <2>. PICK pressed \in KeysPressed : HotkeyDispatch(GetByKeyboardState(pressed))
    BY <1>5 DEF HotkeyKeyboard
  <2>. DEFINE i == GetByKeyboardState(pressed)
  <2>2. CASE ~Fires(i)
    BY <2>2 DEF HotkeyDispatch, HotkeyStep
  <2>3. CASE Fires(i) /\ Fire(i)
    <3>1. i # 0
      BY <2>3 DEF Fires
    <3>2. i \in Hotkeys /\ bindings[i].trigger \in Triggers
      BY <3>1, FoundHasTrigger
    <3>. QED  BY <2>3, <3>2 DEF HotkeyStep
  <2>. QED  BY <2>2, <2>3 DEF HotkeyDispatch
<1>6. CASE Playback
  BY <1>6 DEF Playback, HotkeyStep
<1>7. CASE ScriptInput
  BY <1>7 DEF ScriptInput, HotkeyStep
<1>8. CASE ScriptBind
  BY <1>8 DEF ScriptBind, HotkeyStep
<1>9. CASE ScriptRecord
  BY <1>9 DEF ScriptRecord, HotkeyStep
<1>10. CASE RecordFrame
  BY <1>10 DEF RecordFrame, HotkeyStep
<1>11. CASE Poll
  BY <1>11 DEF Poll, HotkeyStep
<1>12. CASE Render
  BY <1>12 DEF Render, HotkeyStep
<1>. QED
  BY <1>1, <1>2, <1>3, <1>4, <1>5, <1>6, <1>7, <1>8, <1>9, <1>10, <1>11, <1>12 DEF ControlsNext

(* Of a trigger that has one slot at most, the slot is freed. *)
LEMMA UnassignFrees ==
  ASSUME HotkeyInv, NEW t \in Triggers,
         NEW freed, freed = Unassign(bindings, GetByTrigger(bindings, t))
  PROVE  /\ freed \in [Hotkeys -> [trigger : Bound, script : Scripts \cup {NoTrigger}, remaining : Nat]]
         /\ \A j \in Hotkeys : freed[j] = IF bindings[j].trigger = t THEN Unassigned ELSE bindings[j]
<1>. DEFINE slots == {j \in Hotkeys : bindings[j].trigger = t}
            found == GetByTrigger(bindings, t)
<1>1. found = First(slots)
  BY DEF GetByTrigger
<1>2. slots = {} => found = 0
  BY <1>1, FirstIsOne
<1>3. slots # {} => found \in slots
  BY <1>1, FirstIsOne
<1>4. t # NoTrigger
  BY TriggerAssumption
<1>5. 0 \notin Hotkeys
  BY CooldownAssumption DEF Hotkeys
<1>6. \A j \in Hotkeys : bindings[j].trigger = t <=> j = found
  BY <1>2, <1>3, <1>4, <1>5 DEF HotkeyInv, UniqueTrigger
<1>7. \A j \in Hotkeys : freed[j] = IF bindings[j].trigger = t THEN Unassigned ELSE bindings[j]
  BY <1>6 DEF Unassign
<1>8. Unassigned \in [trigger : Bound, script : Scripts \cup {NoTrigger}, remaining : Nat]
  BY DEF Unassigned, Bound
<1>9. freed \in [Hotkeys -> [trigger : Bound, script : Scripts \cup {NoTrigger}, remaining : Nat]]
  BY <1>8 DEF Unassign, HotkeyInv, HotkeyTypeOK
<1>. QED  BY <1>7, <1>9

(* At first nothing is bound and no script has been fired. *)
LEMMA InitiallyHotkeyInv == ControlsInit => HotkeyInv
<1>. SUFFICES ASSUME HotkeyInit PROVE HotkeyInv
  BY DEF ControlsInit
<1>1. NoTrigger \notin Triggers
  BY TriggerAssumption
<1>2. HotkeyTypeOK
  <2>1. cooldownFrames \in Nat
    BY CooldownAssumption DEF HotkeyInit
  <2>2. Unassigned \in [trigger : Bound, script : Scripts \cup {NoTrigger}, remaining : Nat]
    BY DEF Unassigned, Bound
  <2>3. bindings \in [Hotkeys -> [trigger : Bound, script : Scripts \cup {NoTrigger}, remaining : Nat]]
    BY <2>2 DEF HotkeyInit
  <2>4. rest \in [Triggers -> Nat] /\ early \in BOOLEAN
    BY DEF HotkeyInit
  <2>. QED  BY <2>1, <2>3, <2>4 DEF HotkeyTypeOK
<1>3. UniqueTrigger /\ CooldownInSlot /\ CooldownHonoured
  BY DEF HotkeyInit, UniqueTrigger, CooldownInSlot, CooldownHonoured, Unassigned
<1>. QED  BY <1>2, <1>3 DEF HotkeyInv

(* Every slot counts down with what is left of the trigger it holds. *)
LEMMA CalcCooldownKeeps ==
  ASSUME HotkeyInv, CalcCooldown
  PROVE  HotkeyInv'
<1>. USE DEF HotkeyInv, HotkeyTypeOK
<1>1. \A n \in Nat : Cooled(n) \in Nat
  BY DEF Cooled
<1>2. \A i \in Hotkeys :
        /\ bindings'[i].trigger = bindings[i].trigger
        /\ bindings'[i].remaining = IF bindings[i].trigger # NoTrigger
                                    THEN Cooled(bindings[i].remaining) ELSE bindings[i].remaining
  BY DEF CalcCooldown
<1>3. HotkeyTypeOK'
  <2>1. ASSUME NEW i \in Hotkeys
        PROVE  [bindings[i] EXCEPT !.remaining = Cooled(@)]
                 \in [trigger : Bound, script : Scripts \cup {NoTrigger}, remaining : Nat]
    <3>1. bindings[i] \in [trigger : Bound, script : Scripts \cup {NoTrigger}, remaining : Nat]
      OBVIOUS
    <3>2. Cooled(bindings[i].remaining) \in Nat
      BY <1>1, <3>1
    <3>. QED  BY <3>1, <3>2
  <2>3. bindings' \in [Hotkeys -> [trigger : Bound, script : Scripts \cup {NoTrigger}, remaining : Nat]]
    BY <2>1 DEF CalcCooldown
  <2>2. rest' \in [Triggers -> Nat]
    BY <1>1 DEF CalcCooldown
  <2>. QED  BY <2>2, <2>3 DEF CalcCooldown
<1>4. UniqueTrigger'
  BY <1>2 DEF UniqueTrigger
<1>5. CooldownInSlot'
  <2>. SUFFICES ASSUME NEW i \in Hotkeys
                PROVE  bindings'[i].remaining =
                         IF bindings'[i].trigger = NoTrigger THEN 0 ELSE rest'[bindings'[i].trigger]
    BY DEF CooldownInSlot
  <2>1. bindings[i].trigger \in Bound
    OBVIOUS
  <2>2. bindings[i].trigger # NoTrigger =>
          rest'[bindings[i].trigger] = Cooled(rest[bindings[i].trigger])
    BY <2>1 DEF CalcCooldown, Bound
  <2>. QED  BY <1>2, <2>2 DEF CooldownInSlot
<1>6. CooldownHonoured'
  BY DEF CalcCooldown, CooldownHonoured
<1>. QED  BY <1>3, <1>4, <1>5, <1>6

(* A trigger that fires has its cooldown from then on, in its slot only. *)
LEMMA FireKeeps ==
  ASSUME HotkeyInv, NEW i \in Hotkeys, Fires(i), bindings[i].trigger \in Triggers, Fire(i)
  PROVE  HotkeyInv'
<1>. DEFINE t == bindings[i].trigger
<1>1. t # NoTrigger
  BY TriggerAssumption
<1>2. cooldownFrames \in Nat
  BY DEF HotkeyInv, HotkeyTypeOK
<1>3. \A j \in Hotkeys :
        /\ bindings'[j].trigger = bindings[j].trigger
        /\ bindings'[j].remaining = IF j = i THEN cooldownFrames ELSE bindings[j].remaining
  BY DEF Fire, BeginCooldown, HotkeyInv, HotkeyTypeOK
<1>4. HotkeyTypeOK'
  BY <1>2 DEF Fire, BeginCooldown, HotkeyInv, HotkeyTypeOK
<1>5. UniqueTrigger'
  BY <1>3 DEF HotkeyInv, UniqueTrigger
<1>6. \A j \in Hotkeys : bindings[j].trigger = t => j = i
  BY <1>1 DEF HotkeyInv, UniqueTrigger
<1>7. rest' = [rest EXCEPT ![t] = cooldownFrames] /\ rest \in [Triggers -> Nat]
  BY DEF Fire, HotkeyInv, HotkeyTypeOK
<1>8. CooldownInSlot'
  <2>. SUFFICES ASSUME NEW j \in Hotkeys
                PROVE  bindings'[j].remaining =
                         IF bindings'[j].trigger = NoTrigger THEN 0 ELSE rest'[bindings'[j].trigger]
    BY DEF CooldownInSlot
  <2>1. CASE j = i
    BY <2>1, <1>1, <1>3, <1>7
  <2>2. CASE j # i
    <3>1. bindings[j].trigger # t
      BY <2>2, <1>6
    <3>2. bindings[j].trigger # NoTrigger => rest'[bindings[j].trigger] = rest[bindings[j].trigger]
      BY <3>1, <1>7 DEF HotkeyInv, HotkeyTypeOK, Bound
    <3>3. bindings[j].remaining = IF bindings[j].trigger = NoTrigger THEN 0 ELSE rest[bindings[j].trigger]
      BY DEF HotkeyInv, CooldownInSlot
    <3>4. bindings'[j].trigger = bindings[j].trigger /\ bindings'[j].remaining = bindings[j].remaining
      BY <2>2, <1>3
    <3>5. CASE bindings[j].trigger = NoTrigger
      BY <3>3, <3>4, <3>5
    <3>6. CASE bindings[j].trigger # NoTrigger
      <4>1. bindings'[j].remaining = rest[bindings[j].trigger]
        BY <3>3, <3>4, <3>6
      <4>2. rest'[bindings'[j].trigger] = rest[bindings[j].trigger] /\ bindings'[j].trigger # NoTrigger
        BY <3>2, <3>4, <3>6
      <4>. QED  BY <4>1, <4>2
    <3>. QED  BY <3>5, <3>6
  <2>. QED  BY <2>1, <2>2
<1>9. CooldownHonoured'
  <2>1. rest[t] = 0
    BY <1>1 DEF Fires, HotkeyInv, CooldownInSlot
  <2>2. early' = (early \/ rest[t] > 0)
    BY DEF Fire
  <2>3. ~(rest[t] > 0)
    BY <2>1
  <2>4. ~early
    BY DEF HotkeyInv, CooldownHonoured
  <2>. HIDE DEF t
  <2>5. ~early'
    BY <2>2, <2>3, <2>4, Zenon
  <2>. QED  BY <2>5 DEF CooldownHonoured
<1>. QED  BY <1>4, <1>5, <1>8, <1>9 DEF HotkeyInv

(* A trigger that is bound leaves its old slot and starts anew in a free one. *)
LEMMA BindKeeps ==
  ASSUME HotkeyInv, NEW t \in Triggers, NEW s \in Scripts, Bind(t, s)
  PROVE  HotkeyInv'
<1>. DEFINE freed == Unassign(bindings, GetByTrigger(bindings, t))
            i     == GetUnassigned(freed)
            slots == {j \in Hotkeys : freed[j].trigger = NoTrigger}
<1>1. t # NoTrigger
  BY TriggerAssumption
<1>2. /\ freed \in [Hotkeys -> [trigger : Bound, script : Scripts \cup {NoTrigger}, remaining : Nat]]
      /\ \A j \in Hotkeys : freed[j] = IF bindings[j].trigger = t THEN Unassigned ELSE bindings[j]
  BY UnassignFrees
<1>3. i \in Hotkeys => freed[i].trigger = NoTrigger
  <2>1. i = First(slots) /\ 0 \notin Hotkeys
    BY CooldownAssumption DEF GetUnassigned, Hotkeys
  <2>2. i \in Hotkeys => i \in slots
    BY <2>1, FirstIsOne
  <2>. QED  BY <2>2
<1>4. /\ bindings' = [j \in Hotkeys |->
                       IF j = i THEN [freed[j] EXCEPT !.trigger = t, !.script = s] ELSE freed[j]]
      /\ rest' = [rest EXCEPT ![t] = 0]
      /\ UNCHANGED <<cooldownFrames, early>>
  BY DEF Bind
<1>. HIDE DEF freed, i
<1>5. \A j \in Hotkeys :
        /\ j = i => /\ bindings'[j].trigger = t
                    /\ bindings'[j].remaining = freed[j].remaining
        /\ j # i => bindings'[j] = freed[j]
  BY <1>2, <1>4
<1>6. \A j \in Hotkeys : freed[j].trigger # t
  BY <1>1, <1>2 DEF Unassigned
<1>7. \A j, k \in Hotkeys :
        freed[j].trigger = freed[k].trigger => j = k \/ freed[j].trigger = NoTrigger
  BY <1>2 DEF Unassigned, HotkeyInv, UniqueTrigger
<1>8. UniqueTrigger'
  BY <1>5, <1>6, <1>7 DEF UniqueTrigger
<1>9. HotkeyTypeOK'
  <2>1. bindings' \in [Hotkeys -> [trigger : Bound, script : Scripts \cup {NoTrigger}, remaining : Nat]]
    BY <1>2, <1>4 DEF Bound
  <2>2. rest' \in [Triggers -> Nat] /\ cooldownFrames' \in Nat /\ early' \in BOOLEAN
    BY <1>4 DEF HotkeyInv, HotkeyTypeOK
  <2>. QED  BY <2>1, <2>2 DEF HotkeyTypeOK
<1>10. \A j \in Hotkeys :
         freed[j].remaining = IF freed[j].trigger = NoTrigger THEN 0 ELSE rest[freed[j].trigger]
  BY <1>2 DEF Unassigned, HotkeyInv, CooldownInSlot
<1>11. \A u \in Triggers : rest'[u] = IF u = t THEN 0 ELSE rest[u]
  BY <1>4 DEF HotkeyInv, HotkeyTypeOK
<1>12. CooldownInSlot'
  <2>. SUFFICES ASSUME NEW j \in Hotkeys
                PROVE  bindings'[j].remaining =
                         IF bindings'[j].trigger = NoTrigger THEN 0 ELSE rest'[bindings'[j].trigger]
    BY DEF CooldownInSlot
  <2>1. CASE j = i
    BY <2>1, <1>1, <1>3, <1>5, <1>10, <1>11
  <2>2. CASE j # i
    <3>1. freed[j].trigger # NoTrigger => freed[j].trigger \in Triggers
      BY <1>2 DEF Bound
    <3>. QED  BY <2>2, <3>1, <1>5, <1>6, <1>10, <1>11
  <2>. QED  BY <2>1, <2>2
<1>13. CooldownHonoured'
  BY <1>4 DEF HotkeyInv, CooldownHonoured
<1>. QED  BY <1>8, <1>9, <1>12, <1>13 DEF HotkeyInv

(* A slot that is freed has no trigger that another could have. *)
LEMMA UnbindKeeps ==
  ASSUME HotkeyInv, NEW t \in Triggers, Unbind(t)
  PROVE  HotkeyInv'
<1>1. t # NoTrigger
  BY TriggerAssumption
<1>2. /\ bindings' \in [Hotkeys -> [trigger : Bound, script : Scripts \cup {NoTrigger}, remaining : Nat]]
      /\ \A j \in Hotkeys : bindings'[j] = IF bindings[j].trigger = t THEN Unassigned ELSE bindings[j]
  BY UnassignFrees DEF Unbind
<1>3. rest' = [rest EXCEPT ![t] = 0] /\ UNCHANGED <<cooldownFrames, early>>
  BY DEF Unbind
<1>4. HotkeyTypeOK'
  BY <1>2, <1>3 DEF HotkeyInv, HotkeyTypeOK
<1>5. UniqueTrigger'
  BY <1>2 DEF Unassigned, HotkeyInv, UniqueTrigger
<1>6. CooldownInSlot'
  <2>. SUFFICES ASSUME NEW j \in Hotkeys
                PROVE  bindings'[j].remaining =
                         IF bindings'[j].trigger = NoTrigger THEN 0 ELSE rest'[bindings'[j].trigger]
    BY DEF CooldownInSlot
  <2>1. CASE bindings[j].trigger = t
    BY <2>1, <1>2 DEF Unassigned
  <2>2. CASE bindings[j].trigger # t
    <3>1. bindings[j].trigger # NoTrigger => rest'[bindings[j].trigger] = rest[bindings[j].trigger]
      BY <2>2, <1>3 DEF HotkeyInv, HotkeyTypeOK, Bound
    <3>. QED  BY <2>2, <3>1, <1>2 DEF HotkeyInv, CooldownInSlot
  <2>. QED  BY <2>1, <2>2
<1>7. CooldownHonoured'
  BY <1>3 DEF HotkeyInv, CooldownHonoured
<1>. QED  BY <1>4, <1>5, <1>6, <1>7 DEF HotkeyInv

(* What scripts and requests do to the hotkeys keeps their invariant. *)
LEMMA HotkeyStepKeeps ==
  ASSUME HotkeyInv, HotkeyStep
  PROVE  HotkeyInv'
<1>1. CASE UNCHANGED hotkeyVars
  BY <1>1 DEF hotkeyVars, HotkeyInv, HotkeyTypeOK, UniqueTrigger, CooldownInSlot, CooldownHonoured
<1>2. CASE SetCooldown
  <2>1. cooldownFrames' \in Nat
    BY <1>2, CooldownAssumption DEF SetCooldown
  <2>. QED  BY <1>2, <2>1
         DEF SetCooldown, HotkeyInv, HotkeyTypeOK, UniqueTrigger, CooldownInSlot, CooldownHonoured
<1>. QED
  BY <1>1, <1>2, CalcCooldownKeeps, FireKeeps, BindKeeps, UnbindKeeps DEF HotkeyStep

(* CooldownInSlot makes the two inductive: what was fired last can only be   *)
(* read off the slot if it is the trigger's only one, and a slot is free     *)
(* only with its cooldown forgotten.                                         *)
LEMMA HotkeyInvariant == ControlsSpec => []HotkeyInv
<1>1. ControlsInit => HotkeyInv
  BY InitiallyHotkeyInv
<1>2. HotkeyInv /\ [ControlsNext]_allVars => HotkeyInv'
  <2>. SUFFICES ASSUME HotkeyInv, [ControlsNext]_allVars PROVE HotkeyInv'
    OBVIOUS
  <2>1. HotkeyTypeOK
    BY DEF HotkeyInv
  <2>. QED  BY <2>1, ControlsDoHotkeySteps, HotkeyStepKeeps
<1>. QED  BY <1>1, <1>2, PTL DEF ControlsSpec

(* No trigger is in two slots, whatever scripts bind and unbind.             *)
THEOREM UniqueTriggerCorrect == ControlsSpec => []UniqueTrigger
<1>1. HotkeyInv => UniqueTrigger
  BY DEF HotkeyInv
<1>. QED  BY <1>1, HotkeyInvariant, PTL

(* A trigger rests for its cooldown, whatever is pressed, played and bound.  *)
THEOREM CooldownCorrect == ControlsSpec => []CooldownHonoured
<1>1. HotkeyInv => CooldownHonoured
  BY DEF HotkeyInv
<1>. QED  BY <1>1, HotkeyInvariant, PTL

-----------------------------------------------------------------------------
(* The input of scripts *)

(* The game is not loading.  While it is, scripts are held, and the input    *)
(* they have scheduled goes on being shown.                                  *)
NotLoading == ~Paused(LoadingPause)

-----------------------------------------------------------------------------
(* The invariant *)

Executes == {"script", "sysret"}

(* Scripts that are pushed wait for the next frame, so that they never nest.  *)
Alone == native = IF pc \in Executes THEN <<sp>> ELSE <<>>

(* No script of these steps the frames, holds a pause or awaits one.          *)
NoHolds ==
  /\ ~frameAdv /\ pause[DebugPause] = 0
  /\ \A i \in Slots : sched[i].req = NoKey /\ sched[i].tgt = NoKey

(* What is pending was pushed in this frame, unless the stack was aborted.    *)
PendingIsNew ==
  /\ pc \in Executes => ~pending /\ ~abortReq
  /\ pending /\ ~abortReq /\ mod[sp] # NoModule => crowded # 0 /\ pc # "game" /\ sched[sp].ttl = 0

(* The time of a frame is used up by the script that runs in it.              *)
FrameTimeLeft == delta \in Deltas \cup {0} /\ (pc \in Executes => delta = 0)

Plays(i) == i <= sp /\ mod[i] # NoModule /\ sched[i].ttl > 0

(* No input is left when the playback is over.                                *)
IdleHasPlayed == ~abortReq /\ ~active => \A i \in Slots : ~Plays(i)

(* The time of the frame that was rendered has been shown, and is charged     *)
(* when calcCtx comes to the slot that is charged.                            *)
Unshown(i) == IF pc \notin Executes \cup {"game"} /\ i = Charged THEN delta ELSE 0

ShownIsCharged ==
  ~abortReq /\ crowded < 2 =>
    \A i \in Slots : Plays(i) => shown[i] = asked[i] - sched[i].ttl + Unshown(i)

HistoryTypes == crowded \in 0 .. 2 /\ asked \in [Slots -> Nat] /\ shown \in [Slots -> Nat]

StackOK  == TypeInv /\ NestInv /\ StackInv
InputInv == /\ Alone /\ NoHolds /\ PendingIsNew /\ FrameTimeLeft
            /\ IdleHasPlayed /\ ShownIsCharged /\ HistoryTypes

-----------------------------------------------------------------------------
(* Steps *)

(* A script is pushed, by the frontend or by a hotkey. *)
PushStep ==
  /\ pc = "push" /\ \E n \in Names : PushScript(n, FALSE, FALSE, "push")
  /\ Pushed
  /\ UNCHANGED <<advVars, delta, envVars, asked, shown>>

(* A script binds a hotkey, or begins or ends a recording. *)
OtherCall == pc = "script" /\ pc' = "sysret" /\ KeepStack /\ UNCHANGED <<asked, shown, crowded>>

(* What a step of the controls may do to the stack *)
FrameStep ==
  \/ UNCHANGED <<vars, asked, shown, crowded>>
  \/ PushStep \/ Playback \/ ScriptInput \/ OtherCall \/ Render

(* Whatever is bound, fires or cools down, a trigger is bound to a script. *)
LEMMA HotkeysKeepScripts ==
  ASSUME HotkeyInv, BoundToScript, HotkeyStep
  PROVE  BoundToScript'
<1>1. CASE UNCHANGED hotkeyVars
  BY <1>1 DEF hotkeyVars, BoundToScript
<1>2. CASE CalcCooldown
  BY <1>2 DEF CalcCooldown, HotkeyInv, HotkeyTypeOK, BoundToScript
<1>3. ASSUME NEW i \in Hotkeys, Fire(i)
      PROVE  BoundToScript'
  BY <1>3 DEF Fire, BeginCooldown, HotkeyInv, HotkeyTypeOK, BoundToScript
<1>4. ASSUME NEW t \in Triggers, NEW s \in Scripts, Bind(t, s)
      PROVE  BoundToScript'
  <2>. DEFINE freed == Unassign(bindings, GetByTrigger(bindings, t))
              i     == GetUnassigned(freed)
  <2>1. /\ freed \in [Hotkeys -> [trigger : Bound, script : Scripts \cup {NoTrigger}, remaining : Nat]]
        /\ \A j \in Hotkeys : freed[j] = IF bindings[j].trigger = t THEN Unassigned ELSE bindings[j]
    BY UnassignFrees
  <2>2. bindings' = [j \in Hotkeys |->
                      IF j = i THEN [freed[j] EXCEPT !.trigger = t, !.script = s] ELSE freed[j]]
    BY <1>4 DEF Bind
  <2>. HIDE DEF freed, i
  <2>. SUFFICES ASSUME NEW j \in Hotkeys, bindings'[j].trigger # NoTrigger
                PROVE  bindings'[j].script \in Scripts
    BY DEF BoundToScript
  <2>3. CASE j = i
    BY <2>1, <2>2, <2>3
  <2>4. CASE j # i
    <3>1. bindings'[j] = freed[j]
      BY <2>2, <2>4
    <3>2. freed[j] = bindings[j]
      BY <2>1, <3>1 DEF Unassigned
    <3>. QED  BY <3>1, <3>2 DEF BoundToScript
  <2>. QED  BY <2>3, <2>4
<1>5. ASSUME NEW t \in Triggers, Unbind(t)
      PROVE  BoundToScript'
  <2>1. \A j \in Hotkeys : bindings'[j] = IF bindings[j].trigger = t THEN Unassigned ELSE bindings[j]
    BY <1>5, UnassignFrees DEF Unbind
  <2>. QED  BY <2>1 DEF BoundToScript, Unassigned
<1>6. CASE SetCooldown
  BY <1>6 DEF SetCooldown, BoundToScript
<1>. QED
  BY <1>1, <1>2, <1>3, <1>4, <1>5, <1>6 DEF HotkeyStep

(* A hotkey dispatch pushes the script of the hotkey that fires, or nothing. *)
LEMMA DispatchPushes ==
  ASSUME HotkeyTypeOK, BoundToScript, NEW i, HotkeyDispatch(i), pc = "push",
         (\E buttons : i = GetByButtons(buttons)) \/ (\E pressed : i = GetByKeyboardState(pressed)),
         UNCHANGED <<asked, shown>>
  PROVE  PushStep \/ UNCHANGED <<vars, asked, shown, solo, crowded>>
<1>1. CASE ~Fires(i)
  BY <1>1 DEF HotkeyDispatch
<1>2. CASE Fires(i)
  <2>1. i \in Hotkeys /\ bindings[i].trigger \in Triggers
    BY <1>2, FoundHasTrigger DEF Fires
  <2>2. bindings[i].script \in Names
    BY <2>1, TriggerAssumption, ScriptsAssumption DEF BoundToScript
  <2>3. /\ PushScript(bindings[i].script, FALSE, FALSE, "push") /\ Pushed
        /\ UNCHANGED <<advVars, delta, envVars>>
    BY <1>2 DEF HotkeyDispatch
  <2>. QED  BY <2>2, <2>3 DEF PushStep
<1>. QED  BY <1>1, <1>2

(* Every step of the controls is one of these to the stack. *)
LEMMA ControlsDoFrameSteps ==
  ASSUME HotkeyTypeOK, BoundToScript, [ControlsNext]_allVars
  PROVE  FrameStep
<1>1. CASE UNCHANGED allVars
  BY <1>1 DEF allVars, controlVars, historyVars, FrameStep
<1>2. CASE WebSocketPush
  BY <1>2 DEF WebSocketPush, PushStep, FrameStep
<1>3. CASE HotkeyCooldown
  BY <1>3 DEF HotkeyCooldown, historyVars, FrameStep
<1>4. CASE HotkeyButtons
  <2>1. /\ HotkeyDispatch(GetByButtons(current.buttons)) /\ pc = "push"
        /\ UNCHANGED <<asked, shown>>
    BY <1>4 DEF HotkeyButtons
  <2>. QED  BY <2>1, DispatchPushes DEF FrameStep
<1>5. CASE HotkeyKeyboard
  <2>1. PICK pressed \in KeysPressed : HotkeyDispatch(GetByKeyboardState(pressed))
    BY <1>5 DEF HotkeyKeyboard
  <2>2. pc = "push" /\ UNCHANGED <<asked, shown>>
    BY <1>5 DEF HotkeyKeyboard
  <2>. QED  BY <2>1, <2>2, DispatchPushes DEF FrameStep
<1>6. CASE ScriptBind
  BY <1>6 DEF ScriptBind, ScriptCall, historyVars, OtherCall, FrameStep
<1>7. CASE ScriptRecord
  BY <1>7 DEF ScriptRecord, ScriptCall, OtherCall, FrameStep
<1>8. CASE RecordFrame
  BY <1>8 DEF RecordFrame, historyVars, FrameStep
<1>9. CASE Poll
  BY <1>9 DEF Poll, historyVars, FrameStep
<1>. QED
  BY <1>1, <1>2, <1>3, <1>4, <1>5, <1>6, <1>7, <1>8, <1>9 DEF ControlsNext, FrameStep

-----------------------------------------------------------------------------
(* The scheduler's own invariant holds here too: a push by the frontend or a *)
(* hotkey is one of HostPush, except that it is not counted.                 *)

(* A push by a hotkey or the frontend keeps the stack in shape. *)
LEMMA PushKeepsStack ==
  ASSUME StackOK, PushStep
  PROVE  StackOK' /\ pc' \in {"push", "corrupt"} /\ UNCHANGED native
<1>. USE DEF StackOK
<1>1. PICK n \in Names : PushScript(n, FALSE, FALSE, "push")
  BY DEF PushStep
<1>2. StackTypeOK /\ registry \in [Names -> Handles \cup {NoModule}]
  BY DEF TypeInv, TypeOK, StackTypeOK
<1>3. /\ StackTypeOK' /\ registry' \in [Names -> Handles \cup {NoModule}]
      /\ pc' \in {"push", "enter", "corrupt"} /\ UNCHANGED <<native, elapsed>>
  BY <1>1, <1>2, PushType
<1>4. pc' \in {"push", "corrupt"}
  BY <1>1, <1>3, PushOutcome
<1>5. TypeInv'
  BY <1>3, <1>4 DEF PushStep, TypeInv, TypeOK, StackTypeOK, advVars, envVars
<1>6. NestInv'
  <2>1. NestingMatchesStack' /\ OthersSuspended' /\ UNCHANGED native
    BY <1>1, PushNest DEF PushStep
  <2>. QED
    BY <1>4, <2>1 DEF PushStep, NestInv, RunsOnTop, IdleOutside, CalledFromStack
<1>7. StackInv'
  BY <1>1, PushStack
<1>. QED  BY <1>3, <1>4, <1>5, <1>6, <1>7

(* Binding a hotkey and recording do not touch the stack. *)
LEMMA OtherCallKeepsStack ==
  ASSUME StackOK, OtherCall
  PROVE  StackOK'
<1>. USE DEF StackOK
<1>1. TypeInv'
  BY DEF OtherCall, KeepStack, TypeInv, TypeOK, playVars, advVars, ctxVars, envVars
<1>2. NestInv'
  BY BindingNest DEF OtherCall, KeepStack, playVars, ctxVars
<1>3. StackInv'
  BY SameStack DEF OtherCall, KeepStack, playVars, ctxVars
<1>. QED  BY <1>1, <1>2, <1>3

(* So the stack keeps its shape through every step of the frame. *)
LEMMA FrameStepKeepsStack ==
  ASSUME StackOK, FrameStep
  PROVE  StackOK'
<1>1. CASE UNCHANGED <<vars, asked, shown, crowded>>
  <2>1. [Next]_vars
    BY <1>1
  <2>. QED  BY <2>1, TypeInvStep, NestInvStep, StackInvStep DEF StackOK
<1>2. CASE Playback \/ ScriptInput \/ Render
  <2>1. [Next]_vars
    BY <1>2 DEF Playback, ScriptInput, Render, Next, MainLoop, ScriptStep
  <2>. QED  BY <2>1, TypeInvStep, NestInvStep, StackInvStep DEF StackOK
<1>. QED
  BY <1>1, <1>2, PushKeepsStack, OtherCallKeepsStack DEF FrameStep

-----------------------------------------------------------------------------
(* What a push and calcCtx do to the input that is scheduled *)

(* A push leaves what is scheduled alone, but on the slot it takes. *)
PushKeepsInput ==
  \/ abortReq'
  \/ pc' = "corrupt" /\ UNCHANGED <<sp, pending, active, abortReq, mod, sched, ctx, susp>>
  \/ /\ sp' = PushTop /\ PushTop \in Slots /\ pending' /\ pc' = "push" /\ UNCHANGED <<active, abortReq>>
     /\ sched'[PushTop].ttl = 0
     /\ \A i \in Slots : i # PushTop => mod'[i] = mod[i] /\ sched'[i] = sched[i]
     /\ mod'[PushTop] # NoModule

(* pushExecModuleEntryPoint schedules nothing, and discards nothing scheduled. *)
LEMMA PushInput ==
  ASSUME StackOK, PushStep
  PROVE  PushKeepsInput
<1>. DEFINE fresh == ResetState(IF mod[sp] # NoModule THEN sched[sp].pad ELSE Vanilla)
            ready == ctx[PushTop] \notin {"active", "suspended"}
<1>1. StackTypes /\ sched \in [Slots -> SchedState]
  BY StackTypesOK DEF StackOK, TypeInv, TypeOK
<1>2. PICK n \in Names : PushScript(n, FALSE, FALSE, "push")
  BY DEF PushStep
<1>3. CASE AbortStackReq(ctx)
  BY <1>3 DEF AbortStackReq, PushKeepsInput
<1>4. ASSUME NEW h \in Handles, PushEntryPoint(h, n \notin NoEntry, FALSE, FALSE, "push"),
             ~AbortStackReq(ctx)
      PROVE  PushKeepsInput
  <2>1. CASE /\ pc' = "corrupt"
             /\ UNCHANGED <<native, sp, playVars, mod, sched, ctxVars>>
    BY <2>1 DEF PushKeepsInput, playVars, ctxVars
  <2>2. CASE /\ PushTop \in Slots
             /\ mod' = [mod EXCEPT ![PushTop] = h]
             /\ sched' = [sched EXCEPT ![PushTop] = [fresh EXCEPT !.debug = FALSE]]
             /\ sp' = PushTop
             /\ pending' = (pending \/ ~FALSE)
             /\ pc' = IF FALSE THEN "enter" ELSE "push"
             /\ UNCHANGED <<native, active, abortReq, elapsed>>
    <3>1. [fresh EXCEPT !.debug = FALSE].ttl = 0
      BY DEF ResetState
    <3>. HIDE DEF fresh
    <3>2. sched'[PushTop].ttl = 0 /\ mod'[PushTop] # NoModule
      BY <1>1, <2>2, <3>1, ConstantsOK DEF Assumptions, StackTypes
    <3>3. \A i \in Slots : i # PushTop => mod'[i] = mod[i] /\ sched'[i] = sched[i]
      BY <1>1, <2>2 DEF StackTypes
    <3>. QED  BY <2>2, <3>2, <3>3 DEF PushKeepsInput
  <2>. QED  BY <1>4, <2>1, <2>2 DEF PushEntryPoint, PushTop
<1>. QED  BY <1>2, <1>3, <1>4 DEF PushScript

(* Without pauses and awaits a script is never held. *)
LEMMA NotBlocked ==
  ASSUME NotLoading, NoHolds, sp \in Slots
  PROVE  ~Schedulable(sched[sp])[1]
<1>. DEFINE s == sched[sp]
<1>1. s.req = NoKey /\ s.tgt = NoKey
  BY DEF NoHolds
<1>. HIDE DEF s
<1>2. \A t : ~DebugPauses(t) /\ ~LoadingPauses(t)
  BY DEF NoHolds, NotLoading, DebugPauses, LoadingPauses, Paused
<1>3. AfterDebug(s) = s /\ AfterLoading(s) = s
  BY <1>2 DEF AfterDebug, AfterLoading
<1>4. ~AwaitsRequest(s)
  BY <1>1 DEF AwaitsRequest
<1>5. ~AwaitsTarget([s EXCEPT !.req = NoKey])
  BY <1>1 DEF AwaitsTarget
<1>6. ~AwaitsTarget(AfterRequest(s))
  BY <1>4, <1>5 DEF AfterRequest
<1>7. ~Schedulable(s)[1]
  BY <1>2, <1>3, <1>4, <1>6 DEF Schedulable
<1>. QED  BY <1>7 DEF s

(* calcCtx charges the frame to one slot. *)
LEMMA ChargesOne ==
  ASSUME StackOK, NoHolds, CtxSchedulable
  PROVE  /\ Charged \in Slots /\ Charged <= sp
         /\ sched'[Charged].ttl = Played(sched[Charged].ttl)
         /\ \A i \in Slots : i # Charged => sched'[i].ttl = sched[i].ttl
         /\ \A i \in Slots : sched'[i].pad = sched[i].pad /\ sched'[i].req = NoKey /\ sched'[i].tgt = NoKey
         /\ pause' = pause
<1>. DEFINE t  == Schedulable(sched[sp])[2]
            st == [sched EXCEPT ![sp] = t]
            f  == FrameAdvance(st[Charged].debug)
<1>1. sched \in [Slots -> SchedState] /\ sp \in Slots /\ sched[sp] \in SchedState
  BY DEF StackOK, TypeInv, TypeOK
<1>2. t \in SchedState /\ t.ttl = sched[sp].ttl
  BY <1>1, SchedulableAwaits, SchedulableType
<1>. HIDE DEF t
<1>3. st \in [Slots -> SchedState] /\ \A i \in Slots : st[i].ttl = sched[i].ttl
  BY <1>1, <1>2
<1>4. Charged \in Slots /\ Charged <= sp
  BY <1>1, ConstantsOK DEF Charged, Slots, Assumptions
<1>5. f.play = TRUE /\ f.pause = pause
  BY DEF FrameAdvance, NoHolds
<1>6. /\ sched' = [st EXCEPT ![Charged].ttl = IF f.play THEN Played(@) ELSE @]
      /\ pause' = f.pause
  BY DEF CtxSchedulable, ConsumeFrametime, t
<1>. HIDE DEF st, f
<1>7. sched' = [st EXCEPT ![Charged] = [st[Charged] EXCEPT !.ttl = Played(st[Charged].ttl)]]
  BY <1>3, <1>4, <1>5, <1>6
<1>8. /\ sched'[Charged].ttl = Played(st[Charged].ttl)
      /\ \A i \in Slots : i # Charged => sched'[i].ttl = st[i].ttl
  BY <1>3, <1>4, <1>7 DEF SchedState
<1>9. \A i \in Slots : sched'[i].pad = sched[i].pad /\ sched'[i].req = NoKey /\ sched'[i].tgt = NoKey
  BY CtxFrames DEF NoHolds, StackOK
<1>. QED  BY <1>3, <1>4, <1>5, <1>6, <1>8, <1>9

-----------------------------------------------------------------------------
(* One lemma per step *)

(* The types that most steps below need. *)
LEMMA SlotsAreInts == StackOK => sp \in Slots /\ Slots \subseteq Nat /\ sched \in [Slots -> SchedState]
BY ConstantsOK DEF StackOK, TypeInv, TypeOK, Slots, Assumptions

(* Nothing is pushed or played when the controls start. *)
LEMMA InputInvInit == ControlsInit => InputInv
<1>. SUFFICES ASSUME ControlsInit PROVE InputInv
  OBVIOUS
<1>. USE DEF ControlsInit, Init
<1>1. Alone /\ FrameTimeLeft /\ PendingIsNew
  BY DEF Alone, FrameTimeLeft, PendingIsNew, Executes
<1>2. NoHolds
  BY ConstantsOK DEF NoHolds, Assumptions, ResetState
<1>3. IdleHasPlayed /\ ShownIsCharged
  BY DEF IdleHasPlayed, ShownIsCharged, Plays
<1>4. HistoryTypes
  BY DEF HistoryTypes
<1>. QED  BY <1>1, <1>2, <1>3, <1>4 DEF InputInv

(* A push takes the charge of the next frame away from the slot that was on top
   only if that has no input left. *)
LEMMA PushKeepsInputInv ==
  ASSUME StackOK, InputInv, PushStep
  PROVE  InputInv'
<1>. USE DEF InputInv
<1>1. /\ PushKeepsInput /\ pc' \in {"push", "corrupt"} /\ UNCHANGED native
      /\ sp \in Slots /\ Slots \subseteq Nat /\ sched \in [Slots -> SchedState]
  BY PushInput, PushKeepsStack, SlotsAreInts
<1>2. /\ pc = "push" /\ crowded \in 0 .. 2 /\ crowded' = (IF crowded < 2 THEN crowded + 1 ELSE 2)
      /\ UNCHANGED <<frameAdv, delta, pause, asked, shown>>
  BY DEF PushStep, Pushed, advVars, envVars, HistoryTypes
<1>3. Alone' /\ FrameTimeLeft' /\ HistoryTypes'
  BY <1>1, <1>2 DEF Alone, FrameTimeLeft, HistoryTypes, Executes
<1>4. NoHolds'
  <2>1. \A i \in Slots : \/ sched'[i].req = sched[i].req /\ sched'[i].tgt = sched[i].tgt
                         \/ sched'[i].req = NoKey /\ sched'[i].tgt = NoKey
    <3>1. PICK n \in Names : PushScript(n, FALSE, FALSE, "push")
      BY DEF PushStep
    <3>2. PushedFrames
      BY <3>1, PushOutcome DEF StackOK
    <3>. QED  BY <3>2 DEF PushedFrames
  <2>. QED  BY <1>2, <2>1 DEF NoHolds
<1>5. CASE abortReq'
  BY <1>1, <1>3, <1>4, <1>5 DEF PendingIsNew, IdleHasPlayed, ShownIsCharged, Executes
<1>6. CASE pc' = "corrupt" /\ UNCHANGED <<sp, pending, active, abortReq, mod, sched, ctx, susp>>
  <2>1. PendingIsNew' /\ IdleHasPlayed'
    BY <1>2, <1>6 DEF PendingIsNew, IdleHasPlayed, Plays, Executes
  <2>2. ShownIsCharged'
    BY <1>2, <1>6 DEF ShownIsCharged, Plays, Unshown, Charged, Executes
  <2>. QED  BY <1>3, <1>4, <2>1, <2>2
<1>7. CASE /\ sp' = PushTop /\ PushTop \in Slots /\ pending' /\ pc' = "push" /\ UNCHANGED <<active, abortReq>>
           /\ sched'[PushTop].ttl = 0
           /\ \A i \in Slots : i # PushTop => mod'[i] = mod[i] /\ sched'[i] = sched[i]
           /\ mod'[PushTop] # NoModule
  <2>1. PendingIsNew'
    BY <1>2, <1>7 DEF PendingIsNew, Executes
  <2>2. \A i \in Slots : Plays(i)' => i # PushTop /\ i <= sp /\ Plays(i)
    BY <1>1, <1>7 DEF Plays, PushTop
  <2>3. IdleHasPlayed'
    BY <1>7, <2>2 DEF IdleHasPlayed
  <2>4. ASSUME ~abortReq', crowded' < 2, NEW i \in Slots, Plays(i)'
        PROVE  shown'[i] = asked'[i] - sched'[i].ttl + Unshown(i)'
    <3>1. Plays(i) /\ i # PushTop /\ sched'[i] = sched[i] /\ ~abortReq /\ crowded = 0
      BY <1>2, <1>7, <2>2, <2>4
    <3>2. mod[sp] # NoModule
      <4>1. CASE mod[sp] = NoModule
        <5>1. sp = 0 /\ PushTop = 0
          BY <3>1, <4>1 DEF StackOK, StackInv, Usable, PushTop
        <5>. QED  BY <1>1, <3>1, <5>1 DEF Plays
      <4>. QED  BY <4>1
    <3>3. PushTop = sp + 1 /\ ~pending
      BY <3>1, <3>2 DEF PendingIsNew, PushTop
    <3>4. Charged = sp
      BY <3>3 DEF Charged
    <3>5. Charged' = IF sched[sp].ttl > 0 THEN sp ELSE sp + 1
      BY <1>1, <1>7, <3>3 DEF Charged
    <3>6. i \in Nat /\ i <= sp /\ sched[i].ttl > 0
      BY <1>1, <3>1 DEF Plays
    <3>7. Unshown(i)' = Unshown(i)
      BY <1>1, <1>2, <1>7, <3>4, <3>5, <3>6 DEF Unshown, Executes
    <3>. QED  BY <1>2, <3>1, <3>7 DEF ShownIsCharged
  <2>5. ShownIsCharged'
    BY <2>4 DEF ShownIsCharged
  <2>. QED  BY <1>3, <1>4, <2>1, <2>3, <2>5
<1>. QED  BY <1>1, <1>5, <1>6, <1>7 DEF PushKeepsInput

(* A system call that leaves the stack alone leaves its inputs alone. *)
LEMMA OtherCallKeepsInputInv ==
  ASSUME StackOK, InputInv, OtherCall
  PROVE  InputInv'
<1>. USE DEF InputInv, OtherCall, KeepStack
<1>1. Alone' /\ NoHolds' /\ PendingIsNew' /\ FrameTimeLeft' /\ HistoryTypes'
  BY DEF Alone, NoHolds, PendingIsNew, FrameTimeLeft, HistoryTypes, Executes,
         playVars, advVars, envVars
<1>2. IdleHasPlayed' /\ ShownIsCharged'
  BY DEF IdleHasPlayed, ShownIsCharged, Plays, Unshown, Charged, Executes, playVars
<1>. QED  BY <1>1, <1>2

(* A script schedules an input, of which nothing is shown yet. *)
LEMMA InputKeepsInputInv ==
  ASSUME StackOK, InputInv, ScriptInput
  PROVE  InputInv'
<1>. USE DEF InputInv
<1>1. sp \in Slots /\ Slots \subseteq Nat /\ sched \in [Slots -> SchedState]
  BY SlotsAreInts
<1>2. PICK d \in Durations, pad \in Pads : sched' = [sched EXCEPT ![sp] = [@ EXCEPT !.ttl = d, !.pad = pad]]
  BY DEF ScriptInput, SetCurrentInput
<1>3. sched' = [sched EXCEPT ![sp] = [sched[sp] EXCEPT !.ttl = d, !.pad = pad]] /\ d \in Nat
  BY <1>1, <1>2, ConstantsOK DEF Assumptions
<1>4. /\ pc = "script" /\ pc' = "sysret" /\ active' = TRUE
      /\ UNCHANGED <<native, sp, pending, abortReq, frameAdv, delta, mod, pause, crowded>>
      /\ asked' = [asked EXCEPT ![sp] = sched'[sp].ttl] /\ shown' = [shown EXCEPT ![sp] = 0]
  BY DEF ScriptInput, SetCurrentInput, ScriptCall, advVars, envVars
<1>5. /\ sched'[sp].ttl = d /\ \A i \in Slots : i # sp => sched'[i] = sched[i]
      /\ \A i \in Slots : sched'[i].req = sched[i].req /\ sched'[i].tgt = sched[i].tgt
  BY <1>1, <1>3 DEF SchedState
<1>6. Alone' /\ NoHolds' /\ PendingIsNew' /\ FrameTimeLeft' /\ IdleHasPlayed'
  BY <1>4, <1>5 DEF Alone, NoHolds, PendingIsNew, FrameTimeLeft, IdleHasPlayed, Executes
<1>7. HistoryTypes'
  BY <1>3, <1>4, <1>5 DEF HistoryTypes
<1>8. ShownIsCharged'
  <2>. SUFFICES ASSUME ~abortReq', crowded' < 2, NEW i \in Slots, Plays(i)'
                PROVE  shown'[i] = asked'[i] - sched'[i].ttl + Unshown(i)'
    BY DEF ShownIsCharged
  <2>1. Unshown(i) = 0 /\ Unshown(i)' = 0
    BY <1>4 DEF Unshown, Executes
  <2>2. CASE i = sp
    BY <1>1, <1>3, <1>4, <1>5, <2>1, <2>2 DEF HistoryTypes
  <2>3. CASE i # sp
    <3>1. Plays(i)
      BY <1>4, <1>5, <2>3 DEF Plays
    <3>. QED  BY <1>4, <1>5, <2>1, <2>3, <3>1 DEF ShownIsCharged, HistoryTypes
  <2>. QED  BY <2>2, <2>3
<1>. QED  BY <1>6, <1>7, <1>8

(* A frame is rendered: it shows the input that calcCtx will charge for it. *)
LEMMA RenderKeepsInputInv ==
  ASSUME StackOK, InputInv, Render
  PROVE  InputInv'
<1>. USE DEF InputInv
<1>1. sp \in Slots /\ Slots \subseteq Nat /\ sched \in [Slots -> SchedState]
  BY SlotsAreInts
<1>2. /\ pc = "game" /\ pc' = "push" /\ delta' \in Deltas /\ delta' \in Nat
      /\ UNCHANGED <<native, sp, active, pending, abortReq, frameAdv, mod, sched, asked>>
      /\ shown' = IF active THEN [shown EXCEPT ![sp] = @ + delta'] ELSE shown
      /\ crowded' = IF crowded = 2 THEN 2 ELSE 0
  BY ConstantsOK DEF Render, GameFrame, playVars, advVars, Assumptions
<1>3. pause'[DebugPause] = 0
  <2>1. \/ pause' = pause
        \/ \E k \in Keys \ {DebugPause} : pause' = Requested(pause, k) \/ pause' = Released(pause, k)
    BY DEF Render, GameFrame
  <2>2. pause \in [Keys -> 0 .. MaxPause] /\ DebugPause \in Keys
    BY KeyAssumption DEF StackOK, TypeInv, TypeOK
  <2>. QED  BY <2>1, <2>2 DEF Requested, Released, NoHolds
<1>4. Alone' /\ NoHolds' /\ PendingIsNew' /\ FrameTimeLeft'
  BY <1>2, <1>3 DEF Alone, NoHolds, PendingIsNew, FrameTimeLeft, Executes
<1>5. HistoryTypes'
  BY <1>1, <1>2 DEF HistoryTypes
<1>6. IdleHasPlayed'
  BY <1>2 DEF IdleHasPlayed, Plays
<1>7. ShownIsCharged'
  <2>. SUFFICES ASSUME ~abortReq', crowded' < 2, NEW i \in Slots, Plays(i)'
                PROVE  shown'[i] = asked'[i] - sched'[i].ttl + Unshown(i)'
    BY DEF ShownIsCharged
  <2>1. Plays(i) /\ ~abortReq /\ crowded < 2 /\ active
    BY <1>2 DEF Plays, IdleHasPlayed, HistoryTypes
  <2>2. shown[i] = asked[i] - sched[i].ttl
    <3>1. Unshown(i) = 0
      BY <1>2 DEF Unshown, Executes
    <3>2. asked[i] \in Nat /\ sched[i].ttl \in Nat
      BY <1>1 DEF HistoryTypes, SchedState
    <3>. QED  BY <2>1, <3>1, <3>2 DEF ShownIsCharged
  <2>3. Charged' = sp
    <3>1. mod[sp] # NoModule
      <4>1. CASE mod[sp] = NoModule
        <5>1. sp = 0
          BY <2>1, <4>1 DEF StackOK, StackInv, Usable
        <5>2. i = sp
          BY <1>1, <2>1, <5>1 DEF Plays
        <5>. QED  BY <2>1, <4>1, <5>2 DEF Plays
      <4>. QED  BY <4>1
    <3>2. ~pending
      BY <1>2, <2>1, <3>1 DEF PendingIsNew
    <3>. QED  BY <1>2, <3>2 DEF Charged
  <2>4. Unshown(i)' = IF i = sp THEN delta' ELSE 0
    BY <1>2, <2>3 DEF Unshown, Executes
  <2>5. asked[i] \in Nat /\ shown[i] \in Nat /\ sched[i].ttl \in Nat
    BY <1>1 DEF HistoryTypes, SchedState
  <2>6. shown'[i] = IF i = sp THEN shown[i] + delta' ELSE shown[i]
    BY <1>1, <1>2, <2>1 DEF HistoryTypes
  <2>. QED  BY <1>2, <2>2, <2>4, <2>5, <2>6
<1>. QED  BY <1>4, <1>5, <1>6, <1>7

(* Playback::calc goes on with the stack, or clears it if an abort is requested. *)
LEMMA CalcKeepsInputInv ==
  ASSUME StackOK, InputInv, Playback, PlaybackCalc
  PROVE  InputInv'
<1>. USE DEF InputInv
<1>1. sp \in Slots /\ Slots \subseteq Nat /\ sched \in [Slots -> SchedState]
  BY SlotsAreInts
<1>2. /\ pc = "calc" /\ pc' \in {"enter", "game"} /\ (pc' = "game" => ~active' /\ ~pending)
      /\ UNCHANGED <<native, pending, frameAdv, delta, sched, pause, crowded>>
  BY DEF Playback, PlaybackCalc, PlaybackRuns, advVars
<1>3. /\ HistoryTypes'
      /\ \A i \in Slots : sched[i].ttl > 0 => asked'[i] = asked[i] /\ shown'[i] = shown[i]
  <2>1. /\ asked' = [i \in Slots |-> IF sched'[i].ttl = 0 THEN 0 ELSE asked[i]]
        /\ shown' = [i \in Slots |-> IF sched'[i].ttl = 0 THEN 0 ELSE shown[i]]
    BY DEF Playback, Playing
  <2>. QED  BY <1>2, <2>1 DEF HistoryTypes
<1>4. Alone' /\ NoHolds' /\ FrameTimeLeft'
  BY <1>2 DEF Alone, NoHolds, FrameTimeLeft, Executes
<1>5. CASE abortReq /\ AbortStackImpl
  <2>1. sp' = 0 /\ active' = FALSE /\ \A i \in Slots : mod'[i] = NoModule
    BY <1>5 DEF AbortStackImpl, AbortFrames, Slots
  <2>2. mod'[sp'] = NoModule
    BY <2>1, ConstantsOK DEF Slots, Assumptions
  <2>3. PendingIsNew' /\ IdleHasPlayed' /\ ShownIsCharged'
    BY <1>2, <2>1, <2>2 DEF PendingIsNew, IdleHasPlayed, ShownIsCharged, Plays, Executes
  <2>. QED  BY <1>3, <1>4, <2>3
<1>6. CASE UNCHANGED <<abortReq, active, sp, mod, registry, ctxVars>>
  <2>1. PendingIsNew' /\ IdleHasPlayed'
    BY <1>2, <1>6 DEF PendingIsNew, IdleHasPlayed, Plays, Executes
  <2>2. ShownIsCharged'
    <3>. SUFFICES ASSUME ~abortReq', crowded' < 2, NEW i \in Slots, Plays(i)'
                  PROVE  shown'[i] = asked'[i] - sched'[i].ttl + Unshown(i)'
      BY DEF ShownIsCharged
    <3>1. Plays(i)
      BY <1>2, <1>6 DEF Plays
    <3>2. shown[i] = asked[i] - sched[i].ttl + Unshown(i)
      BY <1>2, <1>6, <3>1 DEF ShownIsCharged
    <3>3. pc' = "enter"
      BY <1>2, <1>6, <3>1 DEF IdleHasPlayed
    <3>4. Unshown(i)' = Unshown(i)
      BY <1>2, <1>6, <3>3 DEF Unshown, Charged, Executes
    <3>. QED  BY <1>2, <1>3, <3>1, <3>2, <3>4 DEF Plays
  <2>. QED  BY <1>3, <1>4, <2>1, <2>2
<1>. QED  BY <1>5, <1>6 DEF PlaybackCalc

(* The frame is charged to the slot that showed it: shown and charged agree. *)
LEMMA ChargeKeepsInputInv ==
  ASSUME StackOK, InputInv, Playback, CtxWait \/ CtxResume
  PROVE  InputInv'
<1>. USE DEF InputInv
<1>1. sp \in Slots /\ Slots \subseteq Nat /\ sched \in [Slots -> SchedState]
  BY SlotsAreInts
<1>2. CtxSchedulable
  BY DEF CtxWait, CtxResume
<1>3. /\ Charged \in Slots /\ Charged <= sp
      /\ sched'[Charged].ttl = Played(sched[Charged].ttl)
      /\ \A i \in Slots : i # Charged => sched'[i].ttl = sched[i].ttl
      /\ \A i \in Slots : sched'[i].pad = sched[i].pad /\ sched'[i].req = NoKey /\ sched'[i].tgt = NoKey
      /\ pause' = pause
  BY <1>2, ChargesOne
<1>4. /\ pc = "enter" /\ native = <<>> /\ ~abortReq /\ mod[sp] # NoModule
      /\ UNCHANGED <<sp, abortReq, frameAdv, mod, crowded, active>>
      /\ \/ pc' = "game" /\ native' = <<>> /\ ~pending /\ ~pending' /\ delta' = delta
         \/ pc' = "script" /\ native' = Append(native, sp) /\ ~pending' /\ delta' = 0
  <2>1. pc = "enter" /\ ~abortReq /\ mod[sp] # NoModule /\ UNCHANGED <<sp, abortReq, frameAdv, mod, crowded>>
    BY <1>2 DEF CtxSchedulable, IsValidForExecution, Playback
  <2>2. native = <<>>
    BY <2>1 DEF Alone, Executes
  <2>3. CASE CtxWait
    <3>1. ~pending /\ UNCHANGED <<pending, delta>> /\ CalcReturn(native, FALSE)
      BY <2>3 DEF CtxWait
    <3>2. active' = active
      BY <3>1 DEF CalcReturn, StackOK, TypeInv, TypeOK
    <3>. QED  BY <2>1, <2>2, <3>1, <3>2 DEF CalcReturn
  <2>4. CASE CtxResume
    BY <2>1, <2>2, <2>4 DEF CtxResume, PendingEnds, DeltaConsumed
  <2>. QED  BY <2>3, <2>4
<1>5. delta \in Nat
  BY ConstantsOK DEF FrameTimeLeft, Assumptions
<1>6. \A i \in Slots : sched[i].ttl \in Nat /\ sched'[i].ttl \in Nat /\ sched'[i].ttl <= sched[i].ttl
  BY <1>1, <1>3, <1>5 DEF Played, SchedState
<1>7. HistoryTypes' /\ \A i \in Slots : sched'[i].ttl > 0 => asked'[i] = asked[i] /\ shown'[i] = shown[i]
  <2>1. /\ asked' = [i \in Slots |-> IF sched'[i].ttl = 0 THEN 0 ELSE asked[i]]
        /\ shown' = [i \in Slots |-> IF sched'[i].ttl = 0 THEN 0 ELSE shown[i]]
    BY DEF Playback, Playing
  <2>. QED  BY <1>4, <2>1 DEF HistoryTypes
<1>8. Alone'
  <2>1. Append(native, sp) = <<sp>>
    BY <1>4
  <2>. QED  BY <1>4, <2>1 DEF Alone, Executes
<1>9. NoHolds' /\ PendingIsNew' /\ FrameTimeLeft'
  BY <1>3, <1>4 DEF NoHolds, PendingIsNew, FrameTimeLeft, Executes
<1>10. \A i \in Slots : Plays(i)' => Plays(i)
  BY <1>4, <1>6 DEF Plays
<1>11. IdleHasPlayed'
  BY <1>4, <1>10 DEF IdleHasPlayed
<1>12. ShownIsCharged'
  <2>. SUFFICES ASSUME crowded < 2, NEW i \in Slots, Plays(i)'
                PROVE  shown'[i] = asked'[i] - sched'[i].ttl + Unshown(i)'
    BY <1>4 DEF ShownIsCharged
  <2>1. Unshown(i)' = 0 /\ Unshown(i) = IF i = Charged THEN delta ELSE 0
    BY <1>4 DEF Unshown, Executes
  <2>2. shown[i] = asked[i] - sched[i].ttl + Unshown(i)
    BY <1>4, <1>10 DEF ShownIsCharged
  <2>3. sched'[i].ttl > 0 /\ shown'[i] = shown[i] /\ asked'[i] = asked[i]
    BY <1>7 DEF Plays
  <2>4. sched'[i].ttl = sched[i].ttl - Unshown(i)
    <3>1. CASE i = Charged
      <4>1. sched'[i].ttl = sched[i].ttl - delta
        BY <1>3, <1>5, <1>6, <2>3, <3>1 DEF Played
      <4>. QED  BY <2>1, <3>1, <4>1
    <3>2. CASE i # Charged
      BY <1>3, <1>6, <2>1, <3>2
    <3>. QED  BY <3>1, <3>2
  <2>5. asked[i] \in Nat /\ sched[i].ttl \in Nat /\ Unshown(i) \in Nat
    BY <1>5, <1>6, <2>1 DEF HistoryTypes
  <2>. QED  BY <2>1, <2>2, <2>3, <2>4, <2>5
<1>. QED  BY <1>7, <1>8, <1>9, <1>11, <1>12

(* The script that runs returns, or a system call to it does. *)
LEMMA ReturnKeepsInputInv ==
  ASSUME StackOK, InputInv, Playback, ScriptReturn \/ SysReturn
  PROVE  InputInv'
<1>. USE DEF InputInv
<1>1. sp \in Slots /\ Slots \subseteq Nat /\ sched \in [Slots -> SchedState]
  BY SlotsAreInts
<1>2. /\ pc \in Executes /\ ~pending /\ ~abortReq /\ delta = 0 /\ native = <<sp>>
      /\ UNCHANGED <<pending, abortReq, frameAdv, delta, pause, crowded>>
  BY DEF Playback, ScriptReturn, SysReturn, advVars, envVars, Executes, PendingIsNew,
         FrameTimeLeft, Alone
<1>3. Running = sp /\ Outer = <<>>
  BY <1>2 DEF Running, Outer
<1>4. HistoryTypes' /\ \A i \in Slots : sched'[i].ttl > 0 => asked'[i] = asked[i] /\ shown'[i] = shown[i]
  <2>1. /\ asked' = [i \in Slots |-> IF sched'[i].ttl = 0 THEN 0 ELSE asked[i]]
        /\ shown' = [i \in Slots |-> IF sched'[i].ttl = 0 THEN 0 ELSE shown[i]]
    BY DEF Playback, Playing
  <2>. QED  BY <1>2, <2>1 DEF HistoryTypes
<1>5. ctx[sp] = "active"
  <2>1. sp \in Executing
    BY <1>2 DEF Executing
  <2>. QED  BY <1>1, <2>1 DEF StackOK, NestInv, NestingMatchesStack
<1>6. \A i \in Slots : /\ sched'[i].ttl = sched[i].ttl
                       /\ sched'[i].req = sched[i].req /\ sched'[i].tgt = sched[i].tgt
  <2>1. CASE ScriptReturn
    <3>1. sched' = sched \/ sched' = [sched EXCEPT ![Running - 1].pad =
                                        PadInherited(sched[Running - 1], sched[Running])]
      BY <2>1 DEF ScriptReturn
    <3>. QED  BY <1>1, <3>1 DEF SchedState
  <2>2. CASE SysReturn
    BY <2>2 DEF SysReturn
  <2>. QED  BY <2>1, <2>2
<1>7. NoHolds' /\ FrameTimeLeft'
  BY <1>2, <1>6 DEF NoHolds, FrameTimeLeft
<1>8. PendingIsNew'
  BY <1>2 DEF PendingIsNew
<1>9. CASE SysReturn
  <2>1. UNCHANGED <<sp, mod>> /\ pc' \in {"script", "game"}
        /\ native' = IF pc' = "script" THEN native ELSE <<>>
    BY <1>3, <1>9 DEF SysReturn, CalcReturn
  <2>2. active' = active
    <3>1. ~abrt[sp]
      BY <1>1, <1>2, <1>5 DEF StackOK, StackInv
    <3>. QED  BY <1>3, <1>9, <3>1 DEF SysReturn, CalcReturn, StackOK, TypeInv, TypeOK
  <2>3. Alone' /\ IdleHasPlayed'
    BY <1>2, <1>6, <2>1, <2>2 DEF Alone, IdleHasPlayed, Plays, Executes
  <2>4. ShownIsCharged'
    <3>. SUFFICES ASSUME crowded < 2, NEW i \in Slots, Plays(i)'
                  PROVE  shown'[i] = asked'[i] - sched'[i].ttl + Unshown(i)'
      BY <1>2 DEF ShownIsCharged
    <3>1. Plays(i)
      BY <1>6, <2>1 DEF Plays
    <3>2. Unshown(i) = 0 /\ Unshown(i)' = 0
      BY <1>2, <2>1 DEF Unshown, Executes
    <3>3. shown[i] = asked[i] - sched[i].ttl + Unshown(i)
      BY <1>2, <3>1 DEF ShownIsCharged
    <3>. QED  BY <1>4, <1>6, <3>1, <3>2, <3>3 DEF Plays
  <2>. QED  BY <1>4, <1>7, <1>8, <2>3, <2>4
<1>10. CASE ScriptReturn
  <2>1. /\ mod' = [mod EXCEPT ![sp] = NoModule] /\ native' = <<>>
        /\ \/ sp = 0 /\ sp' = 0 /\ pc' = "game"
           \/ sp > 0 /\ sp' = sp - 1 /\ pc' = "enter" /\ UNCHANGED active
    BY <1>3, <1>10 DEF ScriptReturn, TryDiscardLastModule, CalcReturn
  <2>2. \A i \in Slots : mod'[i] = IF i = sp THEN NoModule ELSE mod[i]
    BY <2>1 DEF StackOK, TypeInv, TypeOK
  <2>3. \A i \in Slots : Plays(i)' => Plays(i) /\ UNCHANGED active
    BY <1>1, <1>6, <2>1, <2>2 DEF Plays
  <2>4. Alone' /\ IdleHasPlayed'
    BY <1>2, <2>1, <2>3 DEF Alone, IdleHasPlayed, Executes
  <2>5. ShownIsCharged'
    <3>. SUFFICES ASSUME crowded < 2, NEW i \in Slots, Plays(i)'
                  PROVE  shown'[i] = asked'[i] - sched'[i].ttl + Unshown(i)'
      BY <1>2 DEF ShownIsCharged
    <3>1. Unshown(i) = 0 /\ Unshown(i)' = 0
      BY <1>2 DEF Unshown
    <3>2. shown[i] = asked[i] - sched[i].ttl + Unshown(i)
      BY <1>2, <2>3 DEF ShownIsCharged
    <3>. QED  BY <1>4, <1>6, <2>3, <3>1, <3>2 DEF Plays
  <2>. QED  BY <1>4, <1>7, <1>8, <2>4, <2>5
<1>. QED  BY <1>9, <1>10

(* Every step keeps it while the game is not loading. *)
LEMMA InputInvStep ==
  ASSUME StackOK, InputInv, FrameStep, NotLoading
  PROVE  InputInv'
<1>1. CASE UNCHANGED <<vars, asked, shown, crowded>>
  BY <1>1 DEF vars, playVars, advVars, ctxVars, envVars, InputInv, Alone, NoHolds, PendingIsNew,
       FrameTimeLeft, IdleHasPlayed, ShownIsCharged, HistoryTypes, Plays, Unshown, Charged
<1>2. CASE Playback
  <2>1. CASE HostPushDone
    <3>1. /\ pc = "push" /\ pc' = "calc" /\ UNCHANGED crowded
          /\ UNCHANGED <<native, sp, playVars, advVars, delta, mod, sched, ctxVars, registry, envVars>>
      BY <1>2, <2>1 DEF HostPushDone, Playback
    <3>2. Alone' /\ NoHolds' /\ PendingIsNew' /\ FrameTimeLeft' /\ IdleHasPlayed'
      BY <3>1 DEF InputInv, Alone, NoHolds, PendingIsNew, FrameTimeLeft, IdleHasPlayed, Plays,
           Executes, playVars, advVars, envVars
    <3>3. /\ HistoryTypes'
          /\ \A i \in Slots : sched[i].ttl > 0 => asked'[i] = asked[i] /\ shown'[i] = shown[i]
      <4>1. /\ asked' = [i \in Slots |-> IF sched'[i].ttl = 0 THEN 0 ELSE asked[i]]
            /\ shown' = [i \in Slots |-> IF sched'[i].ttl = 0 THEN 0 ELSE shown[i]]
        BY <1>2 DEF Playback, Playing
      <4>. QED  BY <3>1, <4>1 DEF HistoryTypes, InputInv
    <3>4. ShownIsCharged'
      <4>. SUFFICES ASSUME ~abortReq', crowded' < 2, NEW i \in Slots, Plays(i)'
                    PROVE  shown'[i] = asked'[i] - sched'[i].ttl + Unshown(i)'
        BY DEF ShownIsCharged
      <4>1. Plays(i) /\ Unshown(i)' = Unshown(i) /\ ~abortReq /\ crowded < 2 /\ sched' = sched
        BY <3>1 DEF Plays, Unshown, Charged, Executes, playVars
      <4>. QED  BY <3>3, <4>1 DEF InputInv, ShownIsCharged, Plays
    <3>. QED  BY <3>2, <3>3, <3>4 DEF InputInv
  <2>2. CASE CtxInvalid
    <3>1. /\ abortReq' = TRUE /\ pc = "enter" /\ native' = native /\ native = <<>> /\ pc' = "game"
          /\ UNCHANGED <<sched, frameAdv, delta, pause, crowded>>
      BY <1>2, <2>2 DEF CtxInvalid, AbortStackReq, CalcReturn, Playback, advVars, envVars,
           InputInv, Alone, Executes
    <3>2. HistoryTypes'
      BY <1>2, <3>1 DEF Playback, Playing, HistoryTypes, InputInv
    <3>. QED
      BY <3>1, <3>2 DEF InputInv, Alone, NoHolds, PendingIsNew, FrameTimeLeft, IdleHasPlayed,
           ShownIsCharged, Executes
  <2>3. CASE CtxBlocked
    <3>1. sp \in Slots
      BY SlotsAreInts
    <3>2. Schedulable(sched[sp])[1]
      BY <2>3 DEF CtxBlocked
    <3>. QED  BY <3>1, <3>2, NotBlocked DEF InputInv
  <2>. QED
    BY <1>2, <2>1, <2>2, <2>3, CalcKeepsInputInv, ChargeKeepsInputInv, ReturnKeepsInputInv
       DEF Playback, CtxStep
<1>. QED
  BY <1>1, <1>2, PushKeepsInputInv, InputKeepsInputInv, OtherCallKeepsInputInv, RenderKeepsInputInv
     DEF FrameStep

-----------------------------------------------------------------------------
(* The input that runs out has been shown for as long as was asked for. *)
LEMMA RunsOutInFull ==
  ASSUME StackOK, InputInv, FrameStep, NEW i \in Slots,
         sched[i].ttl > 0, sched'[i].ttl = 0, pc = "enter", crowded < 2
  PROVE  \E d \in Deltas : 0 <= shown[i] - asked[i] /\ shown[i] - asked[i] < d
<1>. USE DEF InputInv
<1>1. sp \in Slots /\ Slots \subseteq Nat /\ sched \in [Slots -> SchedState]
  BY SlotsAreInts
<1>2. Playback /\ CtxStep
  BY DEF FrameStep, vars, PushStep, Playback, HostPushDone, PlaybackCalc, SysReturn, ScriptReturn,
     ScriptInput, SetCurrentInput, ScriptCall, OtherCall, Render, GameFrame
<1>3. CtxSchedulable
  <2>1. CASE CtxInvalid
    BY <2>1 DEF CtxInvalid
  <2>2. CASE CtxBlocked
    <3>1. sched' = [sched EXCEPT ![sp] = Schedulable(sched[sp])[2]]
      BY <2>2 DEF CtxBlocked
    <3>2. Schedulable(sched[sp])[2].ttl = sched[sp].ttl
      BY <1>1, SchedulableAwaits
    <3>. QED  BY <1>1, <3>1, <3>2
  <2>. QED  BY <1>2, <2>1, <2>2 DEF CtxStep, CtxWait, CtxResume
<1>4. /\ Charged \in Slots /\ Charged <= sp /\ i = Charged
      /\ sched'[i].ttl = Played(sched[i].ttl)
  BY <1>3, ChargesOne
<1>5. ~abortReq /\ mod[sp] # NoModule
  BY <1>3 DEF CtxSchedulable, IsValidForExecution
<1>6. mod[i] # NoModule
  BY <1>1, <1>4, <1>5 DEF StackOK, StackInv, Usable
<1>7. shown[i] = asked[i] - sched[i].ttl + delta
  BY <1>4, <1>5, <1>6 DEF ShownIsCharged, Plays, Unshown, Executes
<1>8. asked[i] \in Nat /\ sched[i].ttl \in Nat /\ delta \in Nat
  <2>1. asked[i] \in Nat /\ sched[i].ttl \in Nat
    BY <1>1 DEF HistoryTypes, SchedState
  <2>2. delta \in Nat
    BY ConstantsOK DEF FrameTimeLeft, Assumptions
  <2>. QED  BY <2>1, <2>2
<1>9. sched[i].ttl <= delta /\ delta > 0
  BY <1>4, <1>8 DEF Played
<1>10. delta \in Deltas
  BY <1>9 DEF FrameTimeLeft
<1>11. shown[i] - asked[i] = delta - sched[i].ttl
  BY <1>7, <1>8
<1>. QED  BY <1>8, <1>9, <1>10, <1>11

(* What holds of the hotkeys and of the stack, whatever the game does *)
StillInv == HotkeyInv /\ BoundToScript /\ StackOK

(* They need nothing of the game. *)
LEMMA StillInvariant == ControlsSpec => []StillInv
<1>1. ControlsInit => StillInv
  <2>1. ControlsInit => BoundToScript
    BY DEF ControlsInit, HotkeyInit, Unassigned, BoundToScript
  <2>. QED  BY <2>1, InitiallyHotkeyInv, TypeInvInit, InitNestInv, InitStackInv
       DEF ControlsInit, StillInv, StackOK
<1>2. StillInv /\ [ControlsNext]_allVars => StillInv'
  <2>. SUFFICES ASSUME StillInv, [ControlsNext]_allVars PROVE StillInv'
    OBVIOUS
  <2>1. HotkeyTypeOK /\ HotkeyInv /\ BoundToScript /\ StackOK
    BY DEF StillInv, HotkeyInv
  <2>2. HotkeyStep /\ FrameStep
    BY <2>1, ControlsDoHotkeySteps, ControlsDoFrameSteps
  <2>. QED
    BY <2>1, <2>2, HotkeyStepKeeps, HotkeysKeepScripts, FrameStepKeepsStack DEF StillInv
<1>. QED  BY <1>1, <1>2, PTL DEF ControlsSpec

(* "remaining 30fps half-frames to apply scheduled TAS input"                *)
(* (schedule.hpp:41): scheduled input is played for its time, however deep   *)
(* the stack and whatever is pushed on it, aborted and nested, as long as    *)
(* the game does not load, which holds the script and not its input.         *)
THEOREM PlayedInFullCorrect == ControlsSpec /\ []NotLoading => InputPlayedInFull
<1>1. StillInv /\ InputInv /\ NotLoading /\ [ControlsNext]_allVars => InputInv'
  BY ControlsDoFrameSteps, InputInvStep DEF StillInv, HotkeyInv
<1>2. StillInv /\ InputInv /\ [ControlsNext]_allVars =>
        [\A i \in Slots :
           /\ sched[i].ttl > 0 /\ sched'[i].ttl = 0
           /\ mod'[i] = mod[i] /\ pc = "enter" /\ crowded < 2
           => \E d \in Deltas : 0 <= shown[i] - asked[i] /\ shown[i] - asked[i] < d]_allVars
  BY ControlsDoFrameSteps, RunsOutInFull DEF StillInv, HotkeyInv
<1>. QED
  BY <1>1, <1>2, InputInvInit, StillInvariant, PTL DEF ControlsSpec, InputPlayedInFull

-----------------------------------------------------------------------------
(* What a recording holds of the inputs that are played *)

(* The prefixes of a tape, as HalfFrames defines them *)
HeldFor(e)    == [j \in 1 .. e.dur |-> e.pad]
UpTo(f, s, n) == f = [k \in 0 .. n |-> IF k = 0 THEN <<>> ELSE f[k - 1] \o HeldFor(s[k])]
Tapes(s)      == CHOOSE f : UpTo(f, s, Len(s))

(* HalfFrames takes the last of the prefixes. *)
LEMMA HalfFramesIsLast ==
  ASSUME NEW s PROVE HalfFrames(s) = Tapes(s)[Len(s)]
BY Zenon DEF HalfFrames, Tapes, UpTo, HeldFor

(* A set of natural numbers that is not empty has a least element. *)
LEMMA LeastNat ==
  ASSUME NEW T, T \subseteq Nat, T # {}
  PROVE  \E x \in T : \A y \in T : x <= y
<1>1. PICK x \in T : \A y \in T : ~(<<y, x>> \in OpToRel(<, Nat))
  BY WFMin, NatLessThanWellFounded
<1>2. ASSUME NEW y \in T PROVE x <= y
  <2>1. x \in Nat /\ y \in Nat
    OBVIOUS
  <2>2. y < x => <<y, x>> \in OpToRel(<, Nat)
    BY <2>1 DEF OpToRel
  <2>3. ~(y < x)
    BY <1>1, <2>2, Zenon
  <2> QED  BY <2>1, <2>3
<1> QED  BY <1>2

(* There are such prefixes, although each is defined by the one before. *)
LEMMA TapesExist ==
  ASSUME NEW s
  PROVE  \A n \in Nat : \E f : UpTo(f, s, n)
<1>. DEFINE bad == {n \in Nat : ~ \E f : UpTo(f, s, n)}
<1>. SUFFICES ASSUME bad # {} PROVE FALSE
  OBVIOUS
<1>1. PICK n \in bad : \A y \in bad : n <= y
  BY LeastNat
<1>2. n # 0
  <2>1. UpTo([k \in 0 .. 0 |-> <<>>], s, 0)
    BY DEF UpTo
  <2>. QED  BY <1>1, <2>1
<1>3. n - 1 \in Nat /\ n - 1 \notin bad
  BY <1>1, <1>2
<1>4. PICK f : UpTo(f, s, n - 1)
  BY <1>3
<1>. DEFINE g == [k \in 0 .. n |-> IF k = n THEN f[n - 1] \o HeldFor(s[n]) ELSE f[k]]
<1>5. ASSUME NEW k \in 0 .. n
      PROVE  g[k] = IF k = 0 THEN <<>> ELSE g[k - 1] \o HeldFor(s[k])
  <2>1. CASE k = n
    <3>1. k - 1 \in 0 .. n /\ g[k - 1] = f[n - 1] /\ k # 0
      BY <1>2, <1>3, <2>1
    <3>2. g[k] = f[n - 1] \o HeldFor(s[n])
      BY <2>1, Zenon
    <3>. QED  BY <2>1, <3>1, <3>2, Zenon
  <2>2. CASE k # n
    <3>1. k \in 0 .. n - 1 /\ g[k] = f[k] /\ (k # 0 => k - 1 \in 0 .. n /\ g[k - 1] = f[k - 1])
      BY <1>3, <2>2
    <3>2. f[k] = IF k = 0 THEN <<>> ELSE f[k - 1] \o HeldFor(s[k])
      BY <1>4, <3>1, Zenon DEF UpTo
    <3>. QED  BY <3>1, <3>2, Zenon
  <2>. QED  BY <2>1, <2>2
<1>6. UpTo(g, s, n)
  <2>1. g = [k \in 0 .. n |-> g[k]]
    OBVIOUS
  <2>. HIDE DEF g
  <2>. QED  BY <1>5, <2>1 DEF UpTo
<1>. QED  BY <1>1, <1>6

(* So the function that HalfFrames chooses is one of prefixes. *)
LEMMA TapesDef ==
  ASSUME NEW S, NEW s \in Seq(S)
  PROVE  UpTo(Tapes(s), s, Len(s))
<1>1. Len(s) \in Nat
  OBVIOUS
<1>2. \E f : UpTo(f, s, Len(s))
  BY <1>1, TapesExist
<1>. QED  BY <1>2, Zenon DEF Tapes

Lasting(S) == [pad : S, dur : Nat]

(* A tape grows by what is appended, held for its duration. *)
LEMMA HalfFramesAppend ==
  ASSUME NEW S, NEW s \in Seq(Lasting(S)), NEW e \in Lasting(S)
  PROVE  /\ HalfFrames(s) \in Seq(S)
         /\ HalfFrames(Append(s, e)) = HalfFrames(s) \o HeldFor(e)
         /\ HeldFor(e) \in Seq(S) /\ Len(HeldFor(e)) = e.dur
<1>. DEFINE t == Append(s, e)
            n == Len(s)
<1>1. /\ n \in Nat /\ t \in Seq(Lasting(S)) /\ Len(t) = n + 1 /\ t[n + 1] = e
      /\ \A k \in 1 .. n : t[k] = s[k] /\ s[k] \in Lasting(S)
  OBVIOUS
<1>2. ASSUME NEW x \in Lasting(S) PROVE HeldFor(x) \in Seq(S) /\ Len(HeldFor(x)) = x.dur
  <2>1. HeldFor(x) \in [1 .. x.dur -> S] /\ x.dur \in Nat
    BY DEF HeldFor, Lasting
  <2>. QED  BY <2>1
<1>3. /\ \A k \in 0 .. n : Tapes(s)[k] = IF k = 0 THEN <<>> ELSE Tapes(s)[k - 1] \o HeldFor(s[k])
      /\ \A k \in 0 .. n + 1 : Tapes(t)[k] = IF k = 0 THEN <<>> ELSE Tapes(t)[k - 1] \o HeldFor(t[k])
  <2>1. UpTo(Tapes(s), s, n) /\ UpTo(Tapes(t), t, n + 1)
    BY <1>1, TapesDef
  <2>. QED  BY <2>1, Zenon DEF UpTo
<1>. HIDE DEF t
<1>4. \A k \in 0 .. n : Tapes(s)[k] \in Seq(S) /\ Tapes(t)[k] = Tapes(s)[k]
  <2>. DEFINE bad == {k \in 0 .. n : ~(Tapes(s)[k] \in Seq(S) /\ Tapes(t)[k] = Tapes(s)[k])}
  <2>. SUFFICES ASSUME bad # {} PROVE FALSE
    BY Zenon
  <2>1. PICK k \in bad : \A y \in bad : k <= y
    <3>1. bad \subseteq Nat
      BY <1>1
    <3>. HIDE DEF bad
    <3>. QED  BY <3>1, LeastNat
  <2>2. k \in 0 .. n /\ k \in 0 .. n + 1
    BY <1>1, <2>1
  <2>3. k # 0
    <3>1. ASSUME k = 0 PROVE FALSE
      <4>1. Tapes(s)[0] = <<>> /\ Tapes(t)[0] = <<>>
        BY <1>3, <2>2, <3>1, Zenon
      <4>2. <<>> \in Seq(S)
        OBVIOUS
      <4>. QED  BY <2>1, <3>1, <4>1, <4>2, Zenon
    <3>. QED  BY <3>1
  <2>4. k - 1 \in 0 .. n /\ k - 1 \notin bad
    BY <1>1, <2>1, <2>2, <2>3
  <2>5. Tapes(s)[k - 1] \in Seq(S) /\ Tapes(t)[k - 1] = Tapes(s)[k - 1]
    BY <2>4, Zenon
  <2>6. t[k] = s[k] /\ HeldFor(s[k]) \in Seq(S)
    <3>1. k \in 1 .. n
      BY <1>1, <2>2, <2>3
    <3>. QED  BY <1>1, <1>2, <3>1
  <2>7. Tapes(s)[k] = Tapes(s)[k - 1] \o HeldFor(s[k]) /\ Tapes(t)[k] = Tapes(s)[k]
    BY <1>3, <2>2, <2>3, <2>5, <2>6, Zenon
  <2>8. Tapes(s)[k - 1] \o HeldFor(s[k]) \in Seq(S)
    BY <2>5, <2>6
  <2>. QED  BY <2>1, <2>7, <2>8, Zenon
<1>5. n \in 0 .. n /\ n + 1 \in 0 .. n + 1 /\ n + 1 # 0 /\ (n + 1) - 1 = n
  BY <1>1
<1>6. Tapes(t)[n + 1] = Tapes(s)[n] \o HeldFor(e) /\ Tapes(s)[n] \in Seq(S)
  BY <1>1, <1>3, <1>4, <1>5, Zenon
<1>7. HalfFrames(s) = Tapes(s)[n] /\ HalfFrames(t) = Tapes(t)[n + 1]
  BY <1>1, HalfFramesIsLast
<1>. QED  BY <1>2, <1>6, <1>7, Zenon DEF t

(* Nothing is held when nothing was asked for. *)
LEMMA HalfFramesEmpty == HalfFrames(<<>>) = <<>>
<1>1. <<>> \in Seq({}) /\ Len(<<>>) = 0 /\ 0 \in 0 .. 0
  OBVIOUS
<1>2. UpTo(Tapes(<<>>), <<>>, Len(<<>>))
  BY <1>1, TapesDef
<1>3. Tapes(<<>>)[0] = <<>>
  BY <1>1, <1>2, Zenon DEF UpTo
<1>4. HalfFrames(<<>>) = Tapes(<<>>)[Len(<<>>)]
  BY HalfFramesIsLast
<1>5. Tapes(<<>>)[Len(<<>>)] = Tapes(<<>>)[0]
  BY <1>1, Zenon
<1>. QED  BY <1>3, <1>4, <1>5, Zenon

(* The same, half-frame by half-frame *)
Extends(u, t, x, n) ==
  /\ Len(u) = Len(t) + n
  /\ \A k \in 1 .. Len(t) : u[k] = t[k]
  /\ \A k \in Len(t) + 1 .. Len(t) + n : u[k] = x

(* An input that is appended to a tape extends it by its duration. *)
LEMMA TapeGrows ==
  ASSUME NEW S, NEW s \in Seq(Lasting(S)), NEW pad \in S, NEW n \in Nat
  PROVE  /\ HalfFrames(s) \in Seq(S)
         /\ HalfFrames(Append(s, [pad |-> pad, dur |-> n])) \in Seq(S)
         /\ Extends(HalfFrames(Append(s, [pad |-> pad, dur |-> n])), HalfFrames(s), pad, n)
<1>. DEFINE e == [pad |-> pad, dur |-> n]
<1>1. e \in Lasting(S) /\ e.dur = n /\ e.pad = pad
  BY DEF Lasting
<1>2. \A k \in 1 .. n : HeldFor(e)[k] = pad
  BY <1>1 DEF HeldFor
<1>. HIDE DEF e
<1>. DEFINE t == HalfFrames(s)
            h == HeldFor(e)
<1>3. /\ t \in Seq(S) /\ h \in Seq(S) /\ Len(h) = n
      /\ HalfFrames(Append(s, e)) = t \o h
  BY <1>1, HalfFramesAppend
<1>. HIDE DEF t, h
<1>4. \A k \in 1 .. n : h[k] = pad
  BY <1>2 DEF h
<1>5. Len(t) \in Nat /\ t \o h \in Seq(S) /\ Len(t \o h) = Len(t) + n
  BY <1>3
<1>6. \A k \in 1 .. Len(t) : (t \o h)[k] = t[k]
  BY <1>3, <1>5
<1>7. \A k \in Len(t) + 1 .. Len(t) + n : (t \o h)[k] = pad
  <2>. SUFFICES ASSUME NEW k \in Len(t) + 1 .. Len(t) + n PROVE (t \o h)[k] = pad
    OBVIOUS
  <2>1. k - Len(t) \in 1 .. n /\ k \in 1 .. Len(t) + n /\ ~(k <= Len(t))
    BY <1>5
  <2>2. (t \o h)[k] = h[k - Len(t)]
    BY <1>3, <2>1
  <2>. QED  BY <1>4, <2>1, <2>2, Zenon
<1>8. Extends(t \o h, t, pad, n)
  BY <1>5, <1>6, <1>7, Zenon DEF Extends
<1>. QED  BY <1>3, <1>5, <1>8, Zenon DEF e, t

(* How what is recorded, rec, follows what is played, tape, while ttl         *)
(* half-frames of pad are left to play, of which those of the frame under way *)
(* are uncharged, cur being what the pad was polled for if it has been.       *)
Follows(rec, tape, ttl, pad, uncharged, cur, polled) ==
  /\ ttl % 2 = 0
  /\ Len(tape) = Len(rec) + ttl - uncharged
  /\ \A j \in 1 .. Len(tape) : j > Len(tape) - ttl => tape[j] = pad
  /\ \A k \in 3 .. Len(rec) : tape[k - 2].mode = "only" => rec[k] = tape[k - 2].input
  /\ polled => \A j \in 1 .. Len(rec) :
                 j + 2 > Len(rec) /\ tape[j].mode = "only" => cur = tape[j].input

(* A frame is charged: what is played is no longer ahead of what is recorded. *)
LEMMA ChargeFollows ==
  ASSUME NEW S, NEW rec \in Seq(S), NEW R, NEW tape \in Seq(R), NEW ttl \in Nat, NEW pad, NEW cur,
         ttl > 0, Follows(rec, tape, ttl, pad, 2, cur, TRUE)
  PROVE  ttl >= 2 /\ Follows(rec, tape, ttl - 2, pad, 0, cur, TRUE)
<1>1. ttl >= 2 /\ (ttl - 2) % 2 = 0 /\ ttl - 2 \in Nat /\ Len(rec) \in Nat /\ Len(tape) \in Nat
  <2>1. ttl % 2 = 0
    BY Zenon DEF Follows
  <2>. QED  BY <2>1
<1>2. \A j \in 1 .. Len(tape) : j > Len(tape) - (ttl - 2) => j > Len(tape) - ttl
  BY <1>1
<1>3. Len(tape) = Len(rec) + (ttl - 2) - 0
  BY <1>1 DEF Follows
<1>. QED  BY <1>1, <1>2, <1>3 DEF Follows

(* An input is scheduled when the one before has been recorded in full. *)
LEMMA InputFollows ==
  ASSUME NEW S, NEW rec \in Seq(S), NEW R, NEW tape \in Seq(R), NEW longer \in Seq(R),
         NEW old, NEW pad, NEW cur, NEW n \in Nat, n % 2 = 0,
         Extends(longer, tape, pad, n), Follows(rec, tape, 0, old, 0, cur, TRUE)
  PROVE  Follows(rec, longer, n, pad, 0, cur, TRUE)
<1>1. Len(rec) \in Nat /\ Len(tape) = Len(rec) /\ Len(longer) = Len(tape) + n
  BY DEF Follows, Extends
<1>2. \A j \in 1 .. Len(longer) : j > Len(longer) - n => longer[j] = pad
  BY <1>1 DEF Extends
<1>3. \A j \in 1 .. Len(rec) : longer[j] = tape[j]
  BY <1>1 DEF Extends
<1>4. \A k \in 3 .. Len(rec) : k - 2 \in 1 .. Len(rec) /\ longer[k - 2] = tape[k - 2]
  BY <1>1, <1>3
<1>5. \A k \in 3 .. Len(rec) : longer[k - 2].mode = "only" => rec[k] = longer[k - 2].input
  BY <1>4 DEF Follows
<1>6. \A j \in 1 .. Len(rec) : j + 2 > Len(rec) /\ longer[j].mode = "only" => cur = longer[j].input
  BY <1>3 DEF Follows
<1>. QED  BY <1>1, <1>2, <1>5, <1>6 DEF Follows

(* A frame is recorded, with what was polled in the frame before. *)
LEMMA RecordFollows ==
  ASSUME NEW S, NEW rec \in Seq(S), NEW longer \in Seq(S), NEW R, NEW tape \in Seq(R),
         NEW ttl \in Nat, NEW pad, NEW cur,
         Extends(longer, rec, cur, 2), Follows(rec, tape, ttl, pad, 0, cur, TRUE)
  PROVE  Follows(longer, tape, ttl, pad, 2, cur, FALSE)
<1>1. Len(rec) \in Nat /\ Len(longer) = Len(rec) + 2 /\ Len(tape) = Len(longer) + ttl - 2
  BY DEF Follows, Extends
<1>2. ASSUME NEW k \in 3 .. Len(longer), tape[k - 2].mode = "only"
      PROVE  longer[k] = tape[k - 2].input
  <2>1. CASE k <= Len(rec)
    <3>1. k \in 3 .. Len(rec) /\ k \in 1 .. Len(rec)
      BY <1>1, <2>1
    <3>2. longer[k] = rec[k]
      BY <3>1 DEF Extends
    <3>. QED  BY <1>2, <3>1, <3>2 DEF Follows
  <2>2. CASE k > Len(rec)
    <3>1. k - 2 \in 1 .. Len(rec) /\ (k - 2) + 2 > Len(rec) /\ k \in Len(rec) + 1 .. Len(rec) + 2
      BY <1>1, <2>2
    <3>2. longer[k] = cur
      BY <3>1 DEF Extends
    <3>. QED  BY <1>2, <3>1, <3>2 DEF Follows
  <2>. QED  BY <1>1, <2>1, <2>2
<1>. QED  BY <1>1, <1>2 DEF Follows

(* The pad is polled while an input is being played. *)
LEMMA PollFollows ==
  ASSUME NEW S, NEW rec \in Seq(S), NEW R, NEW tape \in Seq(R), NEW ttl \in Nat, NEW pad,
         NEW cur, NEW old, ttl > 0, pad.mode = "only" => cur = pad.input,
         Follows(rec, tape, ttl, pad, 2, old, FALSE)
  PROVE  Follows(rec, tape, ttl, pad, 2, cur, TRUE)
<1>1. ttl >= 2 /\ Len(rec) \in Nat /\ Len(tape) = Len(rec) + ttl - 2
  <2>1. ttl % 2 = 0 /\ Len(tape) = Len(rec) + ttl - 2
    BY Zenon DEF Follows
  <2>. QED  BY <2>1
<1>2. ASSUME NEW j \in 1 .. Len(rec), j + 2 > Len(rec), tape[j].mode = "only"
      PROVE  cur = tape[j].input
  <2>1. j \in 1 .. Len(tape) /\ j > Len(tape) - ttl
    BY <1>1, <1>2
  <2>2. tape[j] = pad
    BY <2>1 DEF Follows
  <2>. QED  BY <1>2, <2>2
<1>. QED  BY <1>2 DEF Follows

(* When a recording begins, nothing has been recorded or played. *)
LEMMA NothingFollows ==
  ASSUME NEW pad, NEW cur, NEW polled \in BOOLEAN
  PROVE  Follows(<<>>, <<>>, 0, pad, 0, cur, polled)
<1>1. Len(<<>>) = 0 /\ 0 % 2 = 0 /\ 3 .. 0 = {} /\ 1 .. 0 = {}
  OBVIOUS
<1>. QED  BY <1>1 DEF Follows

(* The invariant *)

Heard == Inputs \cup {Mixed(human, pad) : human \in Inputs, pad \in Pads}

RecordTypes ==
  /\ isRecordActive \in BOOLEAN /\ solo \in BOOLEAN
  /\ current \in Heard /\ accumulator \in Heard /\ input60 \in Nat
  /\ inputs \in Seq(Lasting(Heard)) /\ seen \in Seq(Lasting(Heard))
  /\ plan \in Seq(Lasting(Pads)) /\ frameTime \in Deltas

(* Where in the frame the main thread is *)
Placed ==
  /\ at \in {"cooldown", "buttons", "keyboard", "loop", "poll", "render"}
  /\ at \in {"cooldown", "buttons", "keyboard"} => pc \in {"push", "corrupt"}
  /\ at \in {"poll", "render"} => pc = "game"

(* A script is told to suspend itself when it has scheduled an input, and     *)
(* only then: what waits to be resumed is to run on, and has none left when   *)
(* it is.                                                                     *)
SuspendsToPlay ==
  /\ \A i \in Slots : ~abortReq /\ ctx[i] \in {"suspended", "prepared"} => ~susp[i]
  /\ pc = "script" => ~susp[sp] /\ sched[sp].ttl = 0
  /\ pc = "sysret" => (susp[sp] <=> sched[sp].ttl > 0)

(* At a steady 30fps whole frames are accumulated. *)
WholeFrames(s, time) == (\A k \in 1 .. Len(s) : s[k].dur = 2) => \E m \in Nat : time = 2 * m

(* The frame that is played is the frame that was rendered, and the frame     *)
(* that is recorded is the one to be rendered.                                *)
Current ==
  /\ pc \in {"push", "calc"} => delta = frameTime
  /\ at \in {"poll", "render"} /\ isRecordActive => seen # <<>> /\ seen[Len(seen)].dur = frameTime
  /\ isRecordActive => WholeFrames(seen, input60)

(* A script that plays alone has input left whenever it does not execute.     *)
SoloPlays ==
  solo => /\ ~pending /\ ~abortReq /\ mod[sp] # NoModule /\ pc # "corrupt"
          /\ pc \notin Executes => sched[sp].ttl > 0
          /\ pc = "enter" => delta = frameTime

Steady == isRecordActive /\ solo /\ frameTime = 2 /\ \A k \in 1 .. Len(seen) : seen[k].dur = 2

Recorded == HalfFrames(Append(Replayed(inputs), [pad |-> accumulator, dur |-> input60]))
Tape     == HalfFrames(plan)
Uncharged == IF at \in {"poll", "render"} \/ pc \in {"push", "calc", "enter"} THEN 2 ELSE 0

InStep ==
  Steady => Follows(Recorded, Tape, sched[sp].ttl, sched[sp].pad, Uncharged, current, at # "poll")

TapeInv == RecordTypes /\ Placed /\ SuspendsToPlay /\ Current /\ SoloPlays /\ InStep

-----------------------------------------------------------------------------
(* SuspendsToPlay, whatever the game does *)

(* A context that is prepared is not told to suspend; the one below it may be. *)
LEMMA PushKeepsSuspends ==
  ASSUME StackOK, InputInv, SuspendsToPlay, PushStep
  PROVE  SuspendsToPlay'
<1>. DEFINE ready == ctx[PushTop] \notin {"active", "suspended"}
<1>1. StackTypes
  BY StackTypesOK DEF StackOK
<1>2. pc' \notin Executes
  BY PushKeepsStack DEF Executes
<1>3. PICK n \in Names : PushScript(n, FALSE, FALSE, "push")
  BY DEF PushStep
<1>4. CASE abortReq'
  BY <1>2, <1>4 DEF SuspendsToPlay, Executes
<1>5. ASSUME NEW h \in Handles, PushEntryPoint(h, n \notin NoEntry, FALSE, FALSE, "push"), ~abortReq'
      PROVE  SuspendsToPlay'
  <2>1. CASE UNCHANGED <<abortReq, ctx, susp>>
    BY <1>2, <2>1 DEF SuspendsToPlay, Executes
  <2>2. CASE /\ PushTop \in Slots
             /\ ctx'  = [ctx EXCEPT ![PushTop] = IF ready THEN "prepared" ELSE @]
             /\ susp' = [SuspendOngoing EXCEPT ![PushTop] = @ /\ ~ready]
             /\ UNCHANGED abortReq
    <3>. SUFFICES ASSUME NEW i \in Slots, ~abortReq, ctx'[i] \in {"suspended", "prepared"}
                  PROVE  ~susp'[i]
      BY <1>2, <2>2 DEF SuspendsToPlay, Executes
    <3>1. SuspendOngoing \in [Slots -> BOOLEAN] /\
          (SuspendOngoing[i] => susp[i] \/ (i = sp /\ ctx[i] = "active"))
      BY <1>1 DEF SuspendOngoing, StackTypes
    <3>2. CASE i = PushTop /\ ready
      BY <1>1, <2>2, <3>1, <3>2 DEF StackTypes
    <3>3. CASE ~(i = PushTop /\ ready)
      <4>1. ctx'[i] = ctx[i] /\ (susp'[i] => SuspendOngoing[i])
        BY <1>1, <2>2, <3>1, <3>3 DEF StackTypes
      <4>. QED  BY <3>1, <4>1 DEF SuspendsToPlay
    <3>. QED  BY <3>2, <3>3
  <2>. QED  BY <1>5, <2>1, <2>2 DEF PushEntryPoint, PushTop, AbortStackReq, ctxVars, playVars
<1>. QED  BY <1>3, <1>4, <1>5 DEF PushScript, AbortStackReq

(* A script that is resumed has no input left, and is not told to suspend. *)
LEMMA CtxKeepsSuspends ==
  ASSUME StackOK, InputInv, NotLoading, SuspendsToPlay, Playback, CtxStep
  PROVE  SuspendsToPlay'
<1>1. StackTypes /\ sp \in Slots /\ sched \in [Slots -> SchedState]
  BY StackTypesOK, SlotsAreInts DEF StackOK
<1>2. pc = "enter" /\ native = <<>>
  BY DEF CtxStep, CtxInvalid, CtxBlocked, CtxWait, CtxResume, CtxSchedulable, InputInv, Alone, Executes
<1>3. CASE CtxInvalid
  BY <1>2, <1>3 DEF CtxInvalid, AbortStackReq, CalcReturn, SuspendsToPlay
<1>4. CASE CtxBlocked
  BY <1>1, <1>4, NotBlocked DEF CtxBlocked, InputInv
<1>5. CASE CtxWait
  BY <1>2, <1>5 DEF CtxWait, CtxSchedulable, CalcReturn, SuspendsToPlay
<1>6. CASE CtxResume
  <2>1. /\ CtxSchedulable /\ pc' = "script" /\ susp' = susp /\ UNCHANGED <<sp, abortReq>>
        /\ ctx' = [ctx EXCEPT ![sp] = "active"] /\ (Exhausted \/ pending)
    BY <1>6 DEF CtxResume, CtxSchedulable
  <2>2. ~abortReq /\ mod[sp] # NoModule /\ ctx[sp] \in {"suspended", "prepared"}
    BY <2>1 DEF CtxSchedulable, IsValidForExecution
  <2>3. sched'[sp].ttl = 0
    <3>1. /\ Charged \in Slots /\ Charged <= sp
          /\ sched'[Charged].ttl = Played(sched[Charged].ttl)
          /\ \A i \in Slots : i # Charged => sched'[i].ttl = sched[i].ttl
      BY <2>1, ChargesOne DEF InputInv
    <3>2. CASE pending
      <4>1. sched[sp].ttl = 0
        BY <2>2, <3>2 DEF InputInv, PendingIsNew
      <4>2. Played(0) = 0
        BY ConstantsOK DEF Played, InputInv, FrameTimeLeft, Assumptions
      <4>. QED  BY <1>1, <3>1, <4>1, <4>2
    <3>3. CASE ~pending
      BY <2>1, <3>3 DEF Charged, Exhausted
    <3>. QED  BY <3>2, <3>3
  <2>4. \A i \in Slots : ctx'[i] \in {"suspended", "prepared"} => ctx[i] = ctx'[i]
    BY <1>1, <2>1 DEF StackTypes
  <2>. QED  BY <1>1, <2>1, <2>2, <2>3, <2>4 DEF SuspendsToPlay
<1>. QED  BY <1>3, <1>4, <1>5, <1>6 DEF CtxStep

(* A script that returns, or suspends itself, is told to suspend no more. *)
LEMMA ReturnKeepsSuspends ==
  ASSUME StackOK, InputInv, SuspendsToPlay, ScriptReturn \/ SysReturn
  PROVE  SuspendsToPlay'
<1>1. StackTypes /\ sp \in Slots /\ sched \in [Slots -> SchedState]
  BY StackTypesOK, SlotsAreInts DEF StackOK
<1>2. pc \in Executes /\ native = <<sp>>
  BY DEF ScriptReturn, SysReturn, Executes, InputInv, Alone
<1>3. Running = sp /\ Outer = <<>> /\ UNCHANGED abortReq
  <2>1. Running = sp /\ Outer = <<>>
    BY <1>2 DEF Running, Outer
  <2>2. UNCHANGED abortReq
    BY DEF ScriptReturn, SysReturn
  <2>. QED  BY <2>1, <2>2
<1>4. CASE ScriptReturn
  <2>1. /\ ctx' = [ctx EXCEPT ![sp] = "uninit"] /\ susp' = [susp EXCEPT ![sp] = FALSE]
        /\ pc' \in {"game", "enter"}
    BY <1>3, <1>4 DEF ScriptReturn, CalcReturn
  <2>2. \A i \in Slots : (ctx'[i] \in {"suspended", "prepared"} => ctx[i] = ctx'[i]) /\ (susp'[i] => susp[i])
    BY <1>1, <2>1 DEF StackTypes
  <2>. QED  BY <1>3, <2>1, <2>2 DEF SuspendsToPlay
<1>5. CASE SysReturn /\ ~susp[sp]
  <2>1. pc = "sysret" /\ pc' = "script" /\ UNCHANGED <<ctx, susp, sp, sched>>
    BY <1>3, <1>5 DEF SysReturn, ctxVars
  <2>2. sched[sp].ttl \in Nat /\ ~(sched[sp].ttl > 0)
    BY <1>1, <1>5, <2>1 DEF SuspendsToPlay, SchedState
  <2>. QED  BY <1>3, <1>5, <2>1, <2>2 DEF SuspendsToPlay
<1>6. CASE SysReturn /\ susp[sp]
  <2>1. /\ susp' = [susp EXCEPT ![sp] = FALSE] /\ pc' = "game"
        /\ \E c : ctx' = [ctx EXCEPT ![sp] = c]
    BY <1>3, <1>6 DEF SysReturn, CalcReturn
  <2>2. \A i \in Slots : i # sp => ctx'[i] = ctx[i] /\ susp'[i] = susp[i]
    BY <1>1, <2>1 DEF StackTypes
  <2>3. ~susp'[sp]
    BY <1>1, <2>1 DEF StackTypes
  <2>. QED  BY <1>3, <2>1, <2>2, <2>3 DEF SuspendsToPlay
<1>. QED  BY <1>4, <1>5, <1>6

(* An input suspends the script that schedules it, unless it has no duration. *)
LEMMA InputKeepsSuspends ==
  ASSUME StackOK, InputInv, SuspendsToPlay, ScriptInput
  PROVE  SuspendsToPlay'
<1>1. StackTypes /\ sp \in Slots /\ sched \in [Slots -> SchedState]
  BY StackTypesOK, SlotsAreInts DEF StackOK
<1>2. /\ pc = "script" /\ pc' = "sysret" /\ UNCHANGED <<native, sp, abortReq, ctx>> /\ native = <<sp>>
  BY DEF ScriptInput, SetCurrentInput, ScriptCall, InputInv, Alone, Executes
<1>3. PICK d \in Durations, pad \in Pads :
        /\ sched' = [sched EXCEPT ![sp] = [@ EXCEPT !.ttl = d, !.pad = pad]]
        /\ IF d > 0 THEN SuspendTop ELSE UNCHANGED susp
  BY DEF ScriptInput, SetCurrentInput
<1>4. sched'[sp].ttl = d /\ d \in Nat
  BY <1>1, <1>3, ConstantsOK DEF SchedState, Assumptions
<1>5. ctx[sp] = "active"
  <2>1. sp \in Executing
    BY <1>2 DEF Executing
  <2>. QED  BY <1>1, <2>1 DEF StackOK, NestInv, NestingMatchesStack
<1>6. \A i \in Slots : susp'[i] <=> susp[i] \/ (i = sp /\ d > 0)
  BY <1>1, <1>3 DEF SuspendTop, StackTypes
<1>. QED  BY <1>1, <1>2, <1>4, <1>5, <1>6 DEF SuspendsToPlay

(* Every step of the frame keeps it while the game is not loading. *)
LEMMA SuspendsStep ==
  ASSUME StackOK, InputInv, NotLoading, SuspendsToPlay, FrameStep
  PROVE  SuspendsToPlay'
<1>1. CASE UNCHANGED vars
  BY <1>1 DEF vars, playVars, ctxVars, SuspendsToPlay
<1>2. CASE Playback
  <2>1. CASE HostPushDone
    BY <2>1 DEF HostPushDone, playVars, ctxVars, SuspendsToPlay
  <2>2. CASE PlaybackCalc
    <3>1. pc' \in {"enter", "game"}
      BY <2>2 DEF PlaybackCalc
    <3>2. CASE UNCHANGED <<abortReq, active, sp, mod, registry, ctxVars>>
      BY <3>1, <3>2 DEF ctxVars, SuspendsToPlay
    <3>3. CASE AbortStackImpl
      <4>1. \A i \in Slots : ctx'[i] \in {"active", "uninit"}
        BY <3>3 DEF AbortStackImpl, AbortFrames, Slots
      <4>. QED  BY <3>1, <4>1 DEF SuspendsToPlay
    <3>. QED  BY <2>2, <3>2, <3>3 DEF PlaybackCalc
  <2>. QED
    BY <1>2, <2>1, <2>2, CtxKeepsSuspends, ReturnKeepsSuspends DEF Playback
<1>3. CASE OtherCall
  <2>1. UNCHANGED <<ctx, susp, abortReq, sp, sched>> /\ pc = "script" /\ pc' = "sysret"
    BY <1>3 DEF OtherCall, KeepStack, playVars, ctxVars
  <2>2. sched[sp].ttl = 0 /\ ~susp[sp]
    BY <2>1 DEF SuspendsToPlay
  <2>. QED  BY <2>1, <2>2 DEF SuspendsToPlay
<1>4. CASE Render
  BY <1>4 DEF Render, GameFrame, playVars, ctxVars, SuspendsToPlay
<1>. QED
  BY <1>1, <1>2, <1>3, <1>4, PushKeepsSuspends, InputKeepsSuspends DEF FrameStep

-----------------------------------------------------------------------------
(* The steps, as what they do to what is played and recorded *)

InHotkeys == {"cooldown", "buttons", "keyboard"}

(* The frontend and the hotkeys push scripts: none plays alone any more. *)
HotkeyTape ==
  /\ pc = "push" /\ pc' \in {"push", "corrupt"} /\ at' \in InHotkeys \cup {"loop"}
  /\ UNCHANGED <<frameTime, recordVars, plan, delta>>
  /\ solo' = FALSE \/ UNCHANGED <<vars, solo>>

(* The steps of the frame before Playback::calc are of this form. *)
LEMMA HotkeysOnTape ==
  ASSUME StillInv, WebSocketPush \/ HotkeyCooldown \/ HotkeyButtons \/ HotkeyKeyboard
  PROVE  HotkeyTape
<1>1. HotkeyTypeOK /\ BoundToScript /\ StackOK
  BY DEF StillInv, HotkeyInv
<1>2. ASSUME PushStep PROVE pc' \in {"push", "corrupt"} /\ delta' = delta
  BY <1>1, <1>2, PushKeepsStack DEF PushStep
<1>3. CASE WebSocketPush
  <2>1. PushStep
    BY <1>3 DEF WebSocketPush, PushStep
  <2>. QED
    BY <1>2, <1>3, <2>1 DEF WebSocketPush, Pushed, KeepControls, HotkeyTape, InHotkeys
<1>4. CASE HotkeyCooldown
  BY <1>4 DEF HotkeyCooldown, historyVars, vars, HotkeyTape, InHotkeys
<1>5. ASSUME PushStep \/ UNCHANGED <<vars, asked, shown, solo, crowded>>, pc = "push",
             at' \in InHotkeys \cup {"loop"}, UNCHANGED <<frameTime, recordVars, plan>>
      PROVE  HotkeyTape
  <2>1. CASE PushStep
    BY <1>2, <1>5, <2>1 DEF PushStep, Pushed, HotkeyTape
  <2>2. CASE UNCHANGED <<vars, asked, shown, solo, crowded>>
    BY <1>5, <2>2 DEF vars, HotkeyTape
  <2>. QED  BY <1>5, <2>1, <2>2
<1>6. CASE HotkeyButtons
  <2>1. /\ HotkeyDispatch(GetByButtons(current.buttons)) /\ pc = "push" /\ at' = "keyboard"
        /\ UNCHANGED <<frameTime, recordVars, asked, shown, plan>>
    BY <1>6 DEF HotkeyButtons
  <2>. QED  BY <1>1, <1>5, <2>1, DispatchPushes DEF InHotkeys
<1>7. CASE HotkeyKeyboard
  <2>1. PICK pressed \in KeysPressed : HotkeyDispatch(GetByKeyboardState(pressed))
    BY <1>7 DEF HotkeyKeyboard
  <2>2. pc = "push" /\ at' = "loop" /\ UNCHANGED <<frameTime, recordVars, asked, shown, plan>>
    BY <1>7 DEF HotkeyKeyboard
  <2>. QED  BY <1>1, <1>5, <2>1, <2>2, DispatchPushes DEF InHotkeys
<1>. QED  BY <1>3, <1>4, <1>6, <1>7

(* What is played again of a recording lasts, and one input more is played    *)
(* after the others.                                                          *)
LEMMA ReplayedNext ==
  ASSUME NEW S, NEW s \in Seq(Lasting(S)), NEW pad \in S, NEW n \in Nat
  PROVE  /\ Replayed(s) \in Seq(Lasting(S)) /\ Replayed(<<>>) = <<>>
         /\ Replayed(Append(s, [pad |-> pad, dur |-> n]))
              = Append(Replayed(s), [pad |-> pad, dur |-> 2 * n])
<1>. DEFINE e == [pad |-> pad, dur |-> n]
            t == Append(s, e)
            l == Len(s)
            Twice(h) == [pad |-> h.pad, dur |-> 2 * h.dur]
<1>1. e \in Lasting(S) /\ Twice(e) = [pad |-> pad, dur |-> 2 * n]
  BY DEF Lasting
<1>2. /\ l \in Nat /\ Len(t) = l + 1 /\ t[l + 1] = e
      /\ \A k \in 1 .. l : t[k] = s[k] /\ s[k] \in Lasting(S)
  BY <1>1
<1>3. \A h \in Lasting(S) : Twice(h) \in Lasting(S)
  BY DEF Lasting
<1>4. /\ Replayed(s) = [k \in 1 .. l |-> Twice(s[k])]
      /\ Replayed(t) = [k \in 1 .. l + 1 |-> Twice(t[k])]
  <2>. HIDE DEF t
  <2>. QED  BY <1>2, Zenon DEF Replayed
<1>. HIDE DEF Twice, t
<1>5. Replayed(s) \in Seq(Lasting(S))
  <2>1. [k \in 1 .. l |-> Twice(s[k])] \in [1 .. l -> Lasting(S)]
    BY <1>2, <1>3
  <2>. QED  BY <1>2, <1>4, <2>1
<1>6. Replayed(t) = Append(Replayed(s), Twice(e))
  BY <1>2, <1>4
<1>7. Replayed(<<>>) = <<>>
  BY DEF Replayed
<1>. QED  BY <1>1, <1>5, <1>6, <1>7 DEF t

(* What is recorded and what is played are sequences of what may be held. *)
LEMMA TapesTyped == RecordTypes => Recorded \in Seq(Heard) /\ Tape \in Seq(Pads)
<1>. SUFFICES ASSUME RecordTypes PROVE Recorded \in Seq(Heard) /\ Tape \in Seq(Pads)
  OBVIOUS
<1>1. Recorded \in Seq(Heard)
  <2>1. Replayed(inputs) \in Seq(Lasting(Heard))
    BY ReplayedNext DEF RecordTypes
  <2>. QED  BY <2>1, TapeGrows DEF RecordTypes, Recorded
<1>2. Tape \in Seq(Pads)
  <2>1. plan \in Seq(Lasting(Pads)) /\ Vanilla \in Pads /\ 0 \in Nat
    BY ConstantsOK DEF RecordTypes, Assumptions
  <2>. QED  BY <2>1, TapeGrows DEF Tape
<1>. QED  BY <1>1, <1>2

(* What is recorded does not change, and neither does what is played.         *)
LEMMA SameInStep ==
  ASSUME InStep, UNCHANGED <<isRecordActive, solo, frameTime, seen, inputs, accumulator, input60,
                             current, plan>>,
         UNCHANGED <<sched[sp].ttl, sched[sp].pad>>,
         Uncharged' = Uncharged, at' = "poll" <=> at = "poll"
  PROVE  InStep'
<1>1. Recorded' = Recorded /\ Tape' = Tape /\ (Steady' => Steady)
  BY DEF Recorded, Tape, Steady
<1>2. (at # "poll") = (at' # "poll")
  OBVIOUS
<1>. QED  BY <1>1, <1>2 DEF InStep

(* What is accumulated stays whole while nothing is recorded. *)
LEMMA SameWhole ==
  ASSUME Current, UNCHANGED <<isRecordActive, seen, input60>>
  PROVE  (isRecordActive => WholeFrames(seen, input60))'
BY DEF Current, WholeFrames

(* Unless they push a script, they change nothing of the tapes. *)
LEMMA HotkeysKeepTape ==
  ASSUME TapeInv, at \in InHotkeys, HotkeyTape
  PROVE  (RecordTypes /\ Placed /\ Current /\ SoloPlays /\ InStep)'
<1>. USE DEF TapeInv
<1>1. RecordTypes'
  BY DEF HotkeyTape, recordVars, RecordTypes
<1>2. Placed' /\ Current'
  <2>1. pc' \in {"push", "corrupt"} /\ at' \in InHotkeys \cup {"loop"} /\ delta' = frameTime'
    BY DEF HotkeyTape, Current
  <2>2. UNCHANGED <<isRecordActive, seen, input60>>
    BY DEF HotkeyTape, recordVars
  <2>3. (isRecordActive => WholeFrames(seen, input60))'
    BY <2>2, SameWhole
  <2>4. at' \notin {"poll", "render"}
    BY <2>1 DEF InHotkeys
  <2>5. Current'
    BY <2>1, <2>3, <2>4 DEF Current
  <2>. QED  BY <2>1, <2>4, <2>5 DEF Placed, InHotkeys
<1>3. CASE solo' = FALSE
  BY <1>1, <1>2, <1>3 DEF SoloPlays, InStep, Steady
<1>4. CASE UNCHANGED <<vars, solo>>
  <2>1. SoloPlays'
    BY <1>4 DEF HotkeyTape, vars, playVars, SoloPlays
  <2>2. Uncharged' = Uncharged /\ (at' = "poll" <=> at = "poll")
    BY <1>4 DEF HotkeyTape, Uncharged, InHotkeys, vars
  <2>3. InStep'
    BY <1>4, <2>2, SameInStep DEF HotkeyTape, recordVars, vars
  <2>. QED  BY <1>1, <1>2, <2>1, <2>3
<1>. QED  BY <1>3, <1>4 DEF HotkeyTape

(* The scripts act where the frame is in its loop. *)
LEMMA LoopKeepsPlace ==
  ASSUME TapeInv, at = "loop", KeepControls, plan' \in Seq(Lasting(Pads)), solo' \in BOOLEAN,
         pc' \in {"push", "calc"} => pc \in {"push", "calc"} /\ delta' = delta
  PROVE  (RecordTypes /\ Placed /\ Current)'
BY DEF KeepControls, recordVars, TapeInv, RecordTypes, Placed, Current

(* A script that plays alone is resumed or waits; its context is never lost. *)
LEMMA SoloIsValid ==
  ASSUME StackOK, InputInv, SoloPlays, solo, pc = "enter"
  PROVE  IsValidForExecution
<1>1. ~abortReq /\ mod[sp] # NoModule /\ native = <<>>
  BY DEF SoloPlays, InputInv, Alone, Executes
<1>2. ctx[sp] \in {"prepared", "suspended", "active"}
  BY <1>1 DEF StackOK, StackInv, Usable, Empty
<1>3. ctx[sp] # "active"
  <2>1. sp \in Slots /\ Executing = {}
    BY <1>1, SlotsAreInts DEF Executing
  <2>. QED  BY <2>1 DEF StackOK, NestInv, NestingMatchesStack
<1>. QED  BY <1>1, <1>2, <1>3 DEF IsValidForExecution

(* The frame that was rendered is charged: of what was recorded, nothing is   *)
(* ahead of what was played any more.                                         *)
LEMMA ChargeKeepsTape ==
  ASSUME StackOK, InputInv, TapeInv, Playback, CtxWait \/ CtxResume, solo, at = "loop"
  PROVE  (SoloPlays /\ InStep)'
<1>. USE DEF TapeInv
<1>1. sp \in Slots /\ Slots \subseteq Nat /\ sched \in [Slots -> SchedState]
  BY SlotsAreInts
<1>2. /\ CtxSchedulable /\ pc = "enter" /\ ~pending /\ ~abortReq /\ mod[sp] # NoModule
      /\ native = <<>> /\ delta = frameTime
      /\ sched[sp].ttl > 0 /\ UNCHANGED <<sp, abortReq, mod>>
  BY DEF CtxWait, CtxResume, CtxSchedulable, SoloPlays, InputInv, Alone, Executes
<1>3. Charged = sp
  BY <1>2 DEF Charged
<1>4. sched'[sp].ttl = Played(sched[sp].ttl) /\ sched'[sp].pad = sched[sp].pad
  BY <1>1, <1>2, <1>3, ChargesOne DEF InputInv
<1>5. /\ ~pending' /\ pc' \in {"game", "script"}
      /\ (pc' = "game" => ~Exhausted)
  BY <1>2 DEF CtxWait, CtxResume, PendingEnds, CalcReturn
<1>6. sched[sp].ttl \in Nat /\ frameTime \in Nat
  BY <1>1, ConstantsOK DEF SchedState, RecordTypes, Assumptions
<1>7. sched'[sp].ttl \in Nat
  BY <1>2, <1>4, <1>6 DEF Played
<1>8. SoloPlays'
  BY <1>2, <1>3, <1>5, <1>7 DEF SoloPlays, Executes, Exhausted
<1>9. InStep'
  <2>. SUFFICES ASSUME Steady'
                PROVE  Follows(Recorded', Tape', sched'[sp'].ttl, sched'[sp'].pad, Uncharged',
                               current', at' # "poll")
    BY DEF InStep
  <2>1. /\ UNCHANGED <<at, frameTime, isRecordActive, seen, inputs, accumulator, input60, current>>
        /\ solo' = solo /\ plan' = plan
    BY DEF Playback, KeepControls, recordVars, Steady
  <2>2. Steady /\ Recorded' = Recorded /\ Tape' = Tape
    BY <2>1 DEF Steady, Recorded, Tape
  <2>3. Uncharged = 2 /\ Uncharged' = 0 /\ (at # "poll") = TRUE /\ (at' # "poll") = TRUE
    BY <1>2, <1>5, <2>1 DEF Uncharged
  <2>4. Follows(Recorded, Tape, sched[sp].ttl, sched[sp].pad, 2, current, TRUE)
    BY <2>2, <2>3 DEF InStep
  <2>5. Recorded \in Seq(Heard) /\ Tape \in Seq(Pads)
    BY TapesTyped
  <2>6. /\ sched[sp].ttl >= 2
        /\ Follows(Recorded, Tape, sched[sp].ttl - 2, sched[sp].pad, 0, current, TRUE)
    BY <1>2, <1>6, <2>4, <2>5, ChargeFollows
  <2>7. sched'[sp].ttl = sched[sp].ttl - 2
    BY <1>2, <1>4, <1>6, <2>2, <2>6 DEF Played, Steady
  <2>. QED  BY <1>2, <1>4, <2>1, <2>2, <2>3, <2>6, <2>7
<1>. QED  BY <1>8, <1>9

(* Playback::calc changes the tapes only where it charges a frame. *)
LEMMA PlaybackKeepsTape ==
  ASSUME StackOK, InputInv, NotLoading, TapeInv, Playback
  PROVE  (RecordTypes /\ Placed /\ Current /\ SoloPlays /\ InStep)'
<1>. USE DEF TapeInv
<1>1. sp \in Slots /\ Slots \subseteq Nat /\ sched \in [Slots -> SchedState]
  BY SlotsAreInts
<1>2. /\ at = "loop" /\ KeepControls /\ solo' \in BOOLEAN /\ (solo' => solo /\ mod' = mod)
      /\ plan' = IF solo' THEN plan ELSE <<>>
  BY DEF Playback, RecordTypes
<1>3. RecordTypes' /\ Placed' /\ Current'
  <2>1. plan' \in Seq(Lasting(Pads))
    <3>1. <<>> \in Seq(Lasting(Pads)) /\ plan \in Seq(Lasting(Pads))
      BY DEF RecordTypes
    <3>. QED  BY <1>2, <3>1
  <2>2. pc' \in {"push", "calc"} => pc \in {"push", "calc"} /\ delta' = delta
    BY DEF Playback, HostPushDone, PlaybackCalc, CtxStep, CtxInvalid, CtxBlocked, CtxWait, CtxResume,
           CalcReturn, SysReturn, ScriptReturn
  <2>. QED  BY <1>2, <2>1, <2>2, LoopKeepsPlace
<1>4. CASE ~solo'
  BY <1>3, <1>4 DEF SoloPlays, InStep, Steady
<1>5. CASE solo'
  <2>1. /\ solo /\ solo' = solo /\ mod' = mod /\ plan' = plan
        /\ ~pending /\ ~abortReq /\ mod[sp] # NoModule
        /\ UNCHANGED <<at, frameTime, isRecordActive, seen, inputs, accumulator, input60, current>>
    BY <1>2, <1>5 DEF SoloPlays, KeepControls, recordVars, RecordTypes
  <2>2. at' = "poll" <=> at = "poll"
    BY <2>1
  <2>3. CASE HostPushDone
    <3>1. pc = "push" /\ pc' = "calc" /\ UNCHANGED <<sp, pending, abortReq, mod, sched>>
      BY <2>3 DEF HostPushDone, playVars
    <3>2. Uncharged' = Uncharged
      BY <2>1, <3>1 DEF Uncharged
    <3>3. SoloPlays'
      BY <2>1, <3>1 DEF SoloPlays, Executes
    <3>. QED  BY <1>3, <2>1, <2>2, <3>1, <3>2, <3>3, SameInStep
  <2>4. CASE PlaybackCalc
    <3>1. pc = "calc" /\ UNCHANGED <<sp, pending, abortReq, mod, sched, delta, active>>
      BY <2>1, <2>4 DEF PlaybackCalc
    <3>2. active
      <4>1. Plays(sp)
        BY <1>1, <2>1, <3>1 DEF SoloPlays, Plays, Executes
      <4>. QED  BY <1>1, <2>1, <4>1 DEF InputInv, IdleHasPlayed
    <3>3. pc' = "enter"
      BY <2>4, <3>1, <3>2 DEF PlaybackCalc, PlaybackRuns
    <3>4. Uncharged' = Uncharged
      BY <2>1, <3>1, <3>3 DEF Uncharged
    <3>5. SoloPlays'
      BY <2>1, <3>1, <3>3 DEF SoloPlays, Executes, Current
    <3>. QED  BY <1>3, <2>1, <2>2, <3>1, <3>4, <3>5, SameInStep
  <2>5. CASE CtxStep
    <3>1. pc = "enter"
      BY <2>5 DEF CtxStep, CtxInvalid, CtxBlocked, CtxWait, CtxResume, CtxSchedulable
    <3>2. ~CtxInvalid
      BY <2>1, <3>1, SoloIsValid DEF CtxInvalid
    <3>3. ~CtxBlocked
      BY <1>1, NotBlocked DEF CtxBlocked, InputInv
    <3>4. CtxWait \/ CtxResume
      BY <2>5, <3>2, <3>3 DEF CtxStep
    <3>. QED  BY <1>2, <1>3, <2>1, <3>4, ChargeKeepsTape
  <2>6. CASE SysReturn
    <3>1. /\ pc = "sysret" /\ UNCHANGED <<sp, pending, abortReq, mod, sched, delta>>
          /\ native = <<sp>>
      BY <2>6 DEF SysReturn, InputInv, Alone, Executes
    <3>2. Running = sp /\ Outer = <<>>
      BY <3>1 DEF Running, Outer
    <3>3. pc' = "script" \/ (pc' = "game" /\ susp[sp])
      BY <2>6, <3>2 DEF SysReturn, CalcReturn
    <3>4. Uncharged' = Uncharged
      BY <1>2, <2>1, <3>1, <3>3 DEF Uncharged
    <3>5. SoloPlays'
      BY <2>1, <3>1, <3>3 DEF SoloPlays, Executes, SuspendsToPlay
    <3>. QED  BY <1>3, <2>1, <2>2, <3>1, <3>4, <3>5, SameInStep
  <2>7. CASE ScriptReturn
    <3>1. mod' = [mod EXCEPT ![sp] = NoModule] /\ sp \in Slots /\ mod \in [Slots -> Handles \cup {NoModule}]
      BY <1>1, <2>7 DEF ScriptReturn, TryDiscardLastModule, StackOK, TypeInv, TypeOK
    <3>. QED  BY <2>1, <3>1
  <2>. QED
    BY <2>3, <2>4, <2>5, <2>6, <2>7 DEF Playback
<1>. QED  BY <1>2, <1>4, <1>5

(* What is scheduled is put on the tape that is played. *)
LEMMA InputKeepsTape ==
  ASSUME \A d \in Durations : d % 2 = 0, StackOK, InputInv, TapeInv, at = "loop", ScriptInput
  PROVE  (RecordTypes /\ Placed /\ Current /\ SoloPlays /\ InStep)'
<1>. USE DEF TapeInv
<1>1. sp \in Slots /\ Slots \subseteq Nat /\ sched \in [Slots -> SchedState]
  BY SlotsAreInts
<1>2. /\ pc = "script" /\ pc' = "sysret" /\ KeepControls
      /\ UNCHANGED <<sp, pending, abortReq, mod, solo, delta>>
      /\ plan' = IF solo THEN Append(plan, [pad |-> sched'[sp].pad, dur |-> sched'[sp].ttl]) ELSE plan
  BY DEF ScriptInput, SetCurrentInput, ScriptCall
<1>3. sched'[sp].pad \in Pads /\ sched'[sp].ttl \in Durations
  <2>1. PICK d \in Durations, pad \in Pads :
          sched' = [sched EXCEPT ![sp] = [@ EXCEPT !.ttl = d, !.pad = pad]]
    BY DEF ScriptInput, SetCurrentInput
  <2>2. sched'[sp].pad = pad /\ sched'[sp].ttl = d
    BY <1>1, <2>1 DEF SchedState
  <2>. QED  BY <2>2
<1>4. sched'[sp].ttl \in Nat /\ sched'[sp].ttl % 2 = 0
  BY <1>3, ConstantsOK DEF Assumptions
<1>5. RecordTypes' /\ Placed' /\ Current'
  <2>1. [pad |-> sched'[sp].pad, dur |-> sched'[sp].ttl] \in Lasting(Pads)
    BY <1>3, <1>4 DEF Lasting
  <2>2. plan' \in Seq(Lasting(Pads))
    BY <1>2, <2>1 DEF RecordTypes
  <2>3. solo' \in BOOLEAN
    BY <1>2 DEF RecordTypes
  <2>. QED  BY <1>2, <2>2, <2>3, LoopKeepsPlace
<1>6. SoloPlays'
  BY <1>2 DEF SoloPlays, Executes
<1>7. InStep'
  <2>. SUFFICES ASSUME Steady'
                PROVE  Follows(Recorded', Tape', sched'[sp'].ttl, sched'[sp'].pad, Uncharged',
                               current', at' # "poll")
    BY DEF InStep
  <2>1. /\ UNCHANGED <<at, frameTime, isRecordActive, seen, inputs, accumulator, input60, current>>
        /\ solo
    BY <1>2 DEF KeepControls, recordVars, Steady
  <2>2. Steady /\ Recorded' = Recorded
    BY <2>1 DEF Steady, Recorded
  <2>3. Uncharged = 0 /\ Uncharged' = 0 /\ (at # "poll") = TRUE /\ (at' # "poll") = TRUE
    BY <1>2, <2>1 DEF Uncharged
  <2>4. Follows(Recorded, Tape, 0, sched[sp].pad, 0, current, TRUE)
    <3>1. sched[sp].ttl = 0
      BY <1>2 DEF SuspendsToPlay
    <3>. QED  BY <2>2, <2>3, <3>1 DEF InStep
  <2>5. Recorded \in Seq(Heard) /\ Tape \in Seq(Pads)
    BY TapesTyped
  <2>6. Tape' \in Seq(Pads) /\ Extends(Tape', Tape, sched'[sp].pad, sched'[sp].ttl)
    <3>1. Tape' = HalfFrames(Append(plan, [pad |-> sched'[sp].pad, dur |-> sched'[sp].ttl]))
      BY <1>2, <2>1 DEF Tape
    <3>2. plan \in Seq(Lasting(Pads))
      BY DEF RecordTypes
    <3>. DEFINE pad == sched'[sp].pad
                n   == sched'[sp].ttl
    <3>3. pad \in Pads /\ n \in Nat
      BY <1>3, <1>4
    <3>. HIDE DEF pad, n
    <3>4. /\ HalfFrames(Append(plan, [pad |-> pad, dur |-> n])) \in Seq(Pads)
          /\ Extends(HalfFrames(Append(plan, [pad |-> pad, dur |-> n])), HalfFrames(plan), pad, n)
      BY <3>2, <3>3, TapeGrows
    <3>. QED  BY <3>1, <3>4, Zenon DEF pad, n, Tape
  <2>7. Follows(Recorded, Tape', sched'[sp].ttl, sched'[sp].pad, 0, current, TRUE)
    <3>. DEFINE longer == Tape'
                pad    == sched'[sp].pad
                n      == sched'[sp].ttl
                rec    == Recorded
                tape   == Tape
                old    == sched[sp].pad
    <3>1. /\ rec \in Seq(Heard) /\ tape \in Seq(Pads) /\ longer \in Seq(Pads)
          /\ n \in Nat /\ n % 2 = 0 /\ Extends(longer, tape, pad, n)
          /\ Follows(rec, tape, 0, old, 0, current, TRUE)
      BY <1>4, <2>4, <2>5, <2>6
    <3>. HIDE DEF longer, pad, n, rec, tape, old
    <3>2. Follows(rec, longer, n, pad, 0, current, TRUE)
      BY <3>1, InputFollows
    <3>. QED  BY <3>2 DEF longer, pad, n, rec
  <2>. QED  BY <1>2, <2>1, <2>2, <2>3, <2>7
<1>. QED  BY <1>5, <1>6, <1>7

(* Binding a hotkey changes nothing of the tapes. *)
LEMMA BindKeepsTape ==
  ASSUME TapeInv, at = "loop", ScriptBind
  PROVE  (RecordTypes /\ Placed /\ Current /\ SoloPlays /\ InStep)'
<1>. USE DEF TapeInv
<1>1. /\ pc = "script" /\ pc' = "sysret" /\ KeepControls
      /\ UNCHANGED <<sp, pending, abortReq, mod, sched, delta, plan, solo>>
  BY DEF ScriptBind, ScriptCall, KeepStack, playVars, historyVars
<1>2. RecordTypes' /\ Placed' /\ Current'
  BY <1>1, LoopKeepsPlace DEF RecordTypes
<1>3. SoloPlays'
  BY <1>1 DEF SoloPlays, Executes
<1>4. InStep'
  <2>1. Uncharged' = Uncharged
    BY <1>1 DEF Uncharged, KeepControls
  <2>. QED  BY <1>1, <2>1, SameInStep DEF KeepControls, recordVars
<1>. QED  BY <1>2, <1>3, <1>4

(* A recording begins with nothing recorded and nothing played. *)
LEMMA RecordKeepsTape ==
  ASSUME StackOK, InputInv, TapeInv, at = "loop", ScriptRecord
  PROVE  (RecordTypes /\ Placed /\ Current /\ SoloPlays /\ InStep)'
<1>. USE DEF TapeInv
<1>1. sp \in Slots /\ Slots \subseteq Nat /\ sched \in [Slots -> SchedState]
  BY SlotsAreInts
<1>2. /\ pc = "script" /\ pc' = "sysret" /\ plan' = <<>> /\ solo' = isRecordActive'
      /\ UNCHANGED <<at, frameTime, sp, pending, abortReq, mod, sched, delta, native>>
  BY DEF ScriptRecord, ScriptCall, KeepStack, playVars
<1>3. <<>> \in Seq(Lasting(Pads)) /\ <<>> \in Seq(Lasting(Heard))
  OBVIOUS
<1>4. CASE Rec!BeginDump(FALSE, FALSE)
  <2>1. /\ isRecordActive' = TRUE /\ input60' = 0 /\ seen' = <<>> /\ inputs' = <<>>
        /\ UNCHANGED <<current, accumulator>>
    BY <1>4 DEF Rec!BeginDump, Rec!ResetTimes
  <2>2. RecordTypes' /\ Placed' /\ Current'
    <3>1. WholeFrames(<<>>, 0)
      <4>1. 0 \in Nat /\ 0 = 2 * 0
        OBVIOUS
      <4>. QED  BY <4>1 DEF WholeFrames
    <3>. QED  BY <1>2, <1>3, <2>1, <3>1 DEF RecordTypes, Placed, Current
  <2>3. SoloPlays'
    <3>1. ctx[sp] = "active" /\ ~abortReq /\ ~pending
      <4>1. native = <<sp>> /\ ~abortReq /\ ~pending
        BY <1>2 DEF InputInv, Alone, PendingIsNew, Executes
      <4>2. sp \in Executing
        BY <4>1 DEF Executing
      <4>. QED  BY <1>1, <4>1, <4>2 DEF StackOK, NestInv, NestingMatchesStack
    <3>2. mod[sp] # NoModule
      BY <3>1 DEF StackOK, StackInv, Usable, Empty
    <3>. QED  BY <1>2, <3>1, <3>2 DEF SoloPlays, Executes
  <2>4. InStep'
    <3>1. Tape' = <<>>
      BY <1>2, HalfFramesEmpty DEF Tape
    <3>2. Recorded' = <<>>
      <4>1. Recorded' = HalfFrames(Append(<<>>, [pad |-> accumulator, dur |-> 0]))
        BY <1>3, <2>1, ReplayedNext DEF Recorded, RecordTypes
      <4>. DEFINE rec == HalfFrames(Append(<<>>, [pad |-> accumulator, dur |-> 0]))
      <4>2. rec \in Seq(Heard) /\ Extends(rec, HalfFrames(<<>>), accumulator, 0)
        BY <1>3, TapeGrows DEF RecordTypes
      <4>. HIDE DEF rec
      <4>3. Len(rec) = 0
        BY <4>2, HalfFramesEmpty DEF Extends
      <4>4. rec = <<>>
        BY <4>2, <4>3
      <4>. QED  BY <4>1, <4>4 DEF rec
    <3>3. sched'[sp'].ttl = 0
      BY <1>2 DEF SuspendsToPlay
    <3>4. Uncharged' = 0 /\ (at' # "poll") = TRUE
      BY <1>2 DEF Uncharged
    <3>5. Follows(<<>>, <<>>, 0, sched'[sp'].pad, 0, current', TRUE)
      BY NothingFollows
    <3>. QED  BY <3>1, <3>2, <3>3, <3>4, <3>5 DEF InStep
  <2>. QED  BY <2>2, <2>3, <2>4
<1>5. CASE Rec!EndDump
  <2>1. isRecordActive' = FALSE
    BY <1>5 DEF Rec!EndDump
  <2>2. /\ accumulator' = current /\ input60' = 0 /\ UNCHANGED <<current, seen>>
        /\ \/ inputs' = inputs
           \/ inputs' = Append(inputs, [pad |-> accumulator, dur |-> input60 \div 2])
    BY <1>5 DEF Rec!EndDump, Rec!CompletedInput, Rec!EmitCompletedInput, Rec!LogicalFrames, Rec!emitted
  <2>3. inputs' \in Seq(Lasting(Heard))
    <3>1. [pad |-> accumulator, dur |-> input60 \div 2] \in Lasting(Heard) /\ inputs \in Seq(Lasting(Heard))
      BY DEF RecordTypes, Lasting
    <3>. QED  BY <2>2, <3>1
  <2>4. RecordTypes' /\ Placed' /\ Current'
    BY <1>2, <1>3, <2>1, <2>2, <2>3 DEF RecordTypes, Placed, Current
  <2>. QED  BY <1>2, <2>1, <2>4 DEF SoloPlays, InStep, Steady
<1>. QED  BY <1>4, <1>5 DEF ScriptRecord

(* Record::calc in a recording: a frame of what was polled last is added to   *)
(* what is recorded.                                                          *)
LEMMA CalcExtends ==
  ASSUME RecordTypes, frameTime = 2, Rec!Calc(frameTime), NEW m \in Nat, input60 = 2 * m
  PROVE  /\ Recorded' \in Seq(Heard) /\ Extends(Recorded', Recorded, current, 2)
         /\ accumulator' \in Heard /\ input60' \in Nat /\ inputs' \in Seq(Lasting(Heard))
<1>1. /\ current \in Heard /\ accumulator \in Heard /\ input60 \in Nat
      /\ inputs \in Seq(Lasting(Heard)) /\ [pad |-> accumulator, dur |-> input60] \in Lasting(Heard)
  BY DEF RecordTypes, Lasting
<1>. DEFINE again == Replayed(inputs)
<1>4. again \in Seq(Lasting(Heard)) /\ Recorded = HalfFrames(Append(again, [pad |-> accumulator, dur |-> input60]))
  BY <1>1, ReplayedNext DEF Recorded
<1>2. CASE Rec!StillHeld(frameTime)
  <2>1. /\ current = accumulator /\ input60' = input60 + 2 /\ UNCHANGED <<accumulator, inputs>>
    BY <1>2 DEF Rec!StillHeld, Rec!emitted
  <2>. DEFINE short == HalfFrames(Append(again, [pad |-> accumulator, dur |-> input60]))
              long  == HalfFrames(Append(again, [pad |-> accumulator, dur |-> input60 + 2]))
              t     == HalfFrames(again)
  <2>2. /\ short \in Seq(Heard) /\ Extends(short, t, accumulator, input60)
        /\ long \in Seq(Heard) /\ Extends(long, t, accumulator, input60 + 2) /\ t \in Seq(Heard)
    <3>1. input60 + 2 \in Nat
      BY <1>1
    <3>. HIDE DEF again
    <3>. QED  BY <1>1, <1>4, <3>1, TapeGrows
  <2>3. Recorded' = long /\ Recorded = short
    BY <2>1 DEF Recorded
  <2>. HIDE DEF short, long, t
  <2>4. Extends(long, short, accumulator, 2)
    <3>1. /\ Len(t) \in Nat /\ Len(short) = Len(t) + input60 /\ Len(long) = Len(t) + (input60 + 2)
          /\ \A k \in 1 .. Len(t) : short[k] = t[k] /\ long[k] = t[k]
      BY <2>2 DEF Extends
    <3>2. \A k \in Len(t) + 1 .. Len(t) + input60 : short[k] = accumulator
      BY <2>2 DEF Extends
    <3>3. \A k \in Len(t) + 1 .. Len(t) + (input60 + 2) : long[k] = accumulator
      BY <2>2 DEF Extends
    <3>4. \A k \in 1 .. Len(short) : long[k] = short[k]
      <4>. SUFFICES ASSUME NEW k \in 1 .. Len(short) PROVE long[k] = short[k]
        OBVIOUS
      <4>1. CASE k <= Len(t)
        BY <3>1, <4>1
      <4>2. CASE k > Len(t)
        BY <1>1, <3>1, <3>2, <3>3, <4>2
      <4>. QED  BY <3>1, <4>1, <4>2
    <3>5. \A k \in Len(short) + 1 .. Len(short) + 2 : long[k] = accumulator
      BY <1>1, <3>1, <3>3
    <3>. QED  BY <1>1, <3>1, <3>4, <3>5 DEF Extends
  <2>. QED  BY <1>1, <2>1, <2>2, <2>3, <2>4
<1>3. CASE Rec!Changed(frameTime)
  <2>1. /\ accumulator' = current /\ input60' = 2
        /\ inputs' = IF input60 = 0 THEN inputs
                     ELSE Append(inputs, [pad |-> accumulator, dur |-> m])
    <3>1. Rec!LogicalFrames(input60) = m
      BY DEF Rec!LogicalFrames
    <3>. QED  BY <1>3, <3>1 DEF Rec!Changed, Rec!CompletedInput, Rec!EmitCompletedInput, Rec!emitted
  <2>. DEFINE after == Replayed(inputs')
  <2>2. /\ inputs' \in Seq(Lasting(Heard)) /\ after \in Seq(Lasting(Heard))
        /\ Recorded' = HalfFrames(Append(after, [pad |-> current, dur |-> 2]))
        /\ after = IF input60 = 0 THEN again
                   ELSE Append(again, [pad |-> accumulator, dur |-> input60])
    <3>1. [pad |-> accumulator, dur |-> m] \in Lasting(Heard)
      BY <1>1 DEF Lasting
    <3>2. inputs' \in Seq(Lasting(Heard))
      BY <1>1, <2>1, <3>1
    <3>3. after \in Seq(Lasting(Heard))
      BY <1>1, <3>2, ReplayedNext
    <3>4. Recorded' = HalfFrames(Append(after, [pad |-> current, dur |-> 2]))
      BY <2>1 DEF Recorded
    <3>5. Replayed(Append(inputs, [pad |-> accumulator, dur |-> m]))
            = Append(again, [pad |-> accumulator, dur |-> input60])
      BY <1>1, ReplayedNext
    <3>6. after = IF input60 = 0 THEN again ELSE Append(again, [pad |-> accumulator, dur |-> input60])
      <4>1. CASE input60 = 0
        BY <2>1, <4>1
      <4>2. CASE input60 # 0
        BY <2>1, <3>5, <4>2
      <4>. QED  BY <4>1, <4>2
    <3>. QED  BY <3>2, <3>3, <3>4, <3>6
  <2>. HIDE DEF after
  <2>. DEFINE t == HalfFrames(after)
  <2>3. t \in Seq(Heard) /\ Recorded' \in Seq(Heard) /\ Extends(Recorded', t, current, 2)
    BY <1>1, <2>2, TapeGrows
  <2>4. t = Recorded
    <3>1. CASE input60 = 0
      <4>1. /\ Recorded \in Seq(Heard) /\ HalfFrames(again) \in Seq(Heard)
            /\ Extends(Recorded, HalfFrames(again), accumulator, 0)
        <5>. HIDE DEF again
        <5>. QED  BY <1>1, <1>4, <3>1, TapeGrows
      <4>. DEFINE h == HalfFrames(again)
      <4>. HIDE DEF h
      <4>2. h \in Seq(Heard) /\ Extends(Recorded, h, accumulator, 0)
        BY <4>1 DEF h
      <4>3. Len(Recorded) = Len(h) /\ \A k \in 1 .. Len(h) : Recorded[k] = h[k]
        BY <4>2 DEF Extends
      <4>4. Recorded = h
        BY <4>1, <4>2, <4>3, SeqEqual
      <4>5. after = again
        BY <2>2, <3>1
      <4>. QED  BY <4>4, <4>5 DEF h
    <3>2. CASE input60 # 0
      <4>1. after = Append(again, [pad |-> accumulator, dur |-> input60])
        BY <2>2, <3>2
      <4>. QED  BY <1>4, <4>1
    <3>. QED  BY <3>1, <3>2
  <2>. QED  BY <1>1, <2>1, <2>2, <2>3, <2>4
<1>. QED  BY <1>2, <1>3 DEF Rec!Calc

(* The types of what Record::calc keeps, at any frame time. *)
LEMMA CalcKeepsTypes ==
  ASSUME RecordTypes, Rec!Calc(frameTime)
  PROVE  /\ accumulator' \in Heard /\ input60' \in Nat /\ inputs' \in Seq(Lasting(Heard))
         /\ seen' \in Seq(Lasting(Heard)) /\ UNCHANGED <<isRecordActive, current>>
         /\ seen' = Append(seen, [pad |-> current, dur |-> frameTime])
<1>1. /\ current \in Heard /\ accumulator \in Heard /\ input60 \in Nat /\ frameTime \in Nat
      /\ inputs \in Seq(Lasting(Heard)) /\ [pad |-> accumulator, dur |-> input60 \div 2] \in Lasting(Heard)
      /\ seen \in Seq(Lasting(Heard)) /\ [pad |-> current, dur |-> frameTime] \in Lasting(Heard)
  BY ConstantsOK DEF RecordTypes, Lasting, Assumptions
<1>2. accumulator' \in Heard /\ input60' \in Nat /\ inputs' \in Seq(Lasting(Heard))
  <2>1. CASE Rec!StillHeld(frameTime)
    BY <1>1, <2>1 DEF Rec!StillHeld, Rec!emitted
  <2>2. CASE Rec!Changed(frameTime)
    <3>1. /\ accumulator' = current /\ input60' = frameTime
          /\ inputs' = IF input60 = 0 THEN inputs
                       ELSE Append(inputs, [pad |-> accumulator, dur |-> Rec!LogicalFrames(input60)])
      BY <2>2 DEF Rec!Changed, Rec!CompletedInput, Rec!EmitCompletedInput, Rec!emitted
    <3>2. Rec!LogicalFrames(input60) = input60 \div 2
      BY DEF Rec!LogicalFrames
    <3>3. inputs' \in Seq(Lasting(Heard))
      <4>. DEFINE e == [pad |-> accumulator, dur |-> input60 \div 2]
      <4>1. inputs' = inputs \/ inputs' = Append(inputs, e)
        BY <3>1, <3>2
      <4>. HIDE DEF e
      <4>. QED  BY <1>1, <4>1 DEF e
    <3>. QED  BY <1>1, <3>1, <3>3
  <2>. QED  BY <2>1, <2>2 DEF Rec!Calc
<1>3. seen' = Append(seen, [pad |-> current, dur |-> frameTime]) /\ UNCHANGED <<isRecordActive, current>>
  BY DEF Rec!Calc
<1>. QED  BY <1>1, <1>2, <1>3

(* Whole frames stay whole. *)
LEMMA CalcKeepsWhole ==
  ASSUME RecordTypes, Rec!Calc(frameTime), WholeFrames(seen, input60)
  PROVE  WholeFrames(seen', input60')
<1>. SUFFICES ASSUME \A k \in 1 .. Len(seen') : seen'[k].dur = 2
              PROVE  \E n \in Nat : input60' = 2 * n
  BY DEF WholeFrames
<1>1. seen' = Append(seen, [pad |-> current, dur |-> frameTime]) /\ seen \in Seq(Lasting(Heard))
  BY CalcKeepsTypes DEF RecordTypes
<1>2. frameTime = 2 /\ \A k \in 1 .. Len(seen) : seen[k].dur = 2
  <2>1. /\ Len(seen) \in Nat /\ Len(seen') = Len(seen) + 1 /\ seen'[Len(seen) + 1].dur = frameTime
        /\ \A k \in 1 .. Len(seen) : seen'[k] = seen[k]
    BY <1>1
  <2>. QED  BY <2>1
<1>3. PICK m \in Nat : input60 = 2 * m
  BY <1>2 DEF WholeFrames
<1>4. input60' = input60 + 2 \/ input60' = 2
  BY <1>2 DEF Rec!Calc, Rec!StillHeld, Rec!Changed, Rec!CompletedInput
<1>5. m + 1 \in Nat /\ 1 \in Nat /\ (input60' = 2 * (m + 1) \/ input60' = 2 * 1)
  BY <1>3, <1>4
<1>. QED  BY <1>5

(* A frame is recorded, before the pad is polled in it. *)
LEMMA RecordFrameKeepsTape ==
  ASSUME StackOK, InputInv, TapeInv, RecordFrame
  PROVE  (RecordTypes /\ Placed /\ Current /\ SoloPlays /\ InStep)'
<1>. USE DEF TapeInv
<1>1. sp \in Slots /\ Slots \subseteq Nat /\ sched \in [Slots -> SchedState]
  BY SlotsAreInts
<1>2. /\ pc = "game" /\ at = "loop" /\ at' = "poll" /\ UNCHANGED <<frameTime, solo, plan>>
      /\ UNCHANGED <<pc, sp, pending, abortReq, mod, sched, delta>>
      /\ (isRecordActive => Rec!Calc(frameTime)) /\ (~isRecordActive => UNCHANGED recordVars)
  BY DEF RecordFrame, vars, playVars, historyVars
<1>3. RecordTypes'
  <2>1. CASE isRecordActive
    BY <1>2, <2>1, CalcKeepsTypes DEF RecordTypes
  <2>2. CASE ~isRecordActive
    BY <1>2, <2>2 DEF RecordTypes, recordVars
  <2>. QED  BY <2>1, <2>2 DEF RecordTypes
<1>4. Placed'
  BY <1>2 DEF Placed
<1>5. Current'
  <2>1. CASE isRecordActive
    <3>1. seen' = Append(seen, [pad |-> current, dur |-> frameTime]) /\ seen \in Seq(Lasting(Heard))
      BY <1>2, <2>1, CalcKeepsTypes DEF RecordTypes
    <3>2. seen' # <<>> /\ seen'[Len(seen')].dur = frameTime
      BY <3>1
    <3>3. WholeFrames(seen', input60')
      BY <1>2, <2>1, CalcKeepsWhole DEF Current
    <3>. QED  BY <1>2, <3>2, <3>3 DEF Current
  <2>2. CASE ~isRecordActive
    BY <1>2, <2>2 DEF Current, recordVars
  <2>. QED  BY <2>1, <2>2 DEF RecordTypes
<1>6. SoloPlays'
  BY <1>2 DEF SoloPlays
<1>7. InStep'
  <2>. SUFFICES ASSUME Steady'
                PROVE  Follows(Recorded', Tape', sched'[sp'].ttl, sched'[sp'].pad, Uncharged',
                               current', at' # "poll")
    BY DEF InStep
  <2>1. isRecordActive
    BY <1>2 DEF Steady, recordVars
  <2>2. /\ seen' = Append(seen, [pad |-> current, dur |-> frameTime]) /\ seen \in Seq(Lasting(Heard))
        /\ current' = current
    BY <1>2, <2>1, CalcKeepsTypes DEF RecordTypes
  <2>3. Steady
    <3>1. \A k \in 1 .. Len(seen) : k \in 1 .. Len(seen') /\ seen'[k] = seen[k]
      BY <2>2
    <3>. QED  BY <1>2, <2>1, <3>1 DEF Steady
  <2>4. /\ Recorded' \in Seq(Heard) /\ Extends(Recorded', Recorded, current, 2)
    <3>1. PICK m \in Nat : input60 = 2 * m
      BY <2>1, <2>3 DEF Current, WholeFrames, Steady
    <3>. QED  BY <1>2, <2>1, <2>3, <3>1, CalcExtends DEF Steady
  <2>5. Uncharged = 0 /\ Uncharged' = 2 /\ (at # "poll") = TRUE /\ (at' # "poll") = FALSE
    BY <1>2 DEF Uncharged
  <2>6. Follows(Recorded, Tape, sched[sp].ttl, sched[sp].pad, 0, current, TRUE)
    BY <2>3, <2>5 DEF InStep
  <2>7. Recorded \in Seq(Heard) /\ Tape \in Seq(Pads) /\ sched[sp].ttl \in Nat
    BY <1>1, TapesTyped DEF SchedState
  <2>8. Follows(Recorded', Tape, sched[sp].ttl, sched[sp].pad, 2, current, FALSE)
    <3>. DEFINE rec    == Recorded
                longer == Recorded'
                tape   == Tape
                ttl    == sched[sp].ttl
                pad    == sched[sp].pad
    <3>1. /\ rec \in Seq(Heard) /\ longer \in Seq(Heard) /\ tape \in Seq(Pads) /\ ttl \in Nat
          /\ Extends(longer, rec, current, 2) /\ Follows(rec, tape, ttl, pad, 0, current, TRUE)
      BY <2>4, <2>6, <2>7
    <3>. HIDE DEF rec, longer, tape, ttl, pad
    <3>2. Follows(longer, tape, ttl, pad, 2, current, FALSE)
      BY <3>1, RecordFollows
    <3>. QED  BY <3>2 DEF longer, tape, ttl, pad
  <2>9. Tape' = Tape
    BY <1>2 DEF Tape
  <2>. QED  BY <1>2, <2>2, <2>5, <2>8, <2>9
<1>. QED  BY <1>3, <1>4, <1>5, <1>6, <1>7

(* The game polls the pad: it gets the input that is being played. *)
LEMMA PollKeepsTape ==
  ASSUME StackOK, InputInv, TapeInv, Poll
  PROVE  (RecordTypes /\ Placed /\ Current /\ SoloPlays /\ InStep)'
<1>. USE DEF TapeInv
<1>1. sp \in Slots /\ Slots \subseteq Nat /\ sched \in [Slots -> SchedState] /\ sched[sp].pad \in Pads
      /\ sched[sp].ttl \in Nat
  BY SlotsAreInts DEF SchedState
<1>2. /\ pc = "game" /\ at = "poll" /\ at' = "render" /\ UNCHANGED <<frameTime, solo, plan>>
      /\ UNCHANGED <<pc, sp, pending, abortReq, mod, sched, delta>>
      /\ UNCHANGED <<isRecordActive, accumulator, input60, seen, inputs>>
  BY DEF Poll, vars, playVars, historyVars
<1>3. PICK human \in Inputs : current' = Injected(human)
  BY DEF Poll, PolledIntoRecord
<1>4. RecordTypes'
  <2>1. current' \in Heard
    BY <1>1, <1>3 DEF Injected, Heard
  <2>. QED  BY <1>2, <2>1 DEF RecordTypes
<1>5. Placed' /\ Current' /\ SoloPlays'
  <2>1. (isRecordActive => WholeFrames(seen, input60))'
    BY <1>2, SameWhole
  <2>2. Current'
    BY <1>2, <2>1 DEF Current
  <2>3. SoloPlays'
    BY <1>2 DEF SoloPlays
  <2>4. Placed'
    <3>1. at' = "render" /\ pc' = "game"
      BY <1>2
    <3>. QED  BY <3>1 DEF Placed
  <2>. QED  BY <2>2, <2>3, <2>4
<1>6. InStep'
  <2>. SUFFICES ASSUME Steady'
                PROVE  Follows(Recorded', Tape', sched'[sp'].ttl, sched'[sp'].pad, Uncharged',
                               current', at' # "poll")
    BY DEF InStep
  <2>1. Steady /\ Recorded' = Recorded /\ Tape' = Tape
    BY <1>2 DEF Steady, Recorded, Tape
  <2>2. ~abortReq /\ mod[sp] # NoModule /\ sched[sp].ttl > 0
    BY <1>2, <2>1 DEF SoloPlays, Steady, Executes
  <2>3. active
    <3>1. Plays(sp)
      BY <1>1, <2>2 DEF Plays
    <3>. QED  BY <1>1, <2>2, <3>1 DEF InputInv, IdleHasPlayed
  <2>4. sched[sp].pad.mode = "only" => current' = sched[sp].pad.input
    BY <1>3, <2>3 DEF Injected, Mixed
  <2>5. Uncharged = 2 /\ Uncharged' = 2 /\ (at # "poll") = FALSE /\ (at' # "poll") = TRUE
    BY <1>2 DEF Uncharged
  <2>6. Follows(Recorded, Tape, sched[sp].ttl, sched[sp].pad, 2, current, FALSE)
    BY <2>1, <2>5 DEF InStep
  <2>7. Recorded \in Seq(Heard) /\ Tape \in Seq(Pads)
    BY TapesTyped
  <2>8. Follows(Recorded, Tape, sched[sp].ttl, sched[sp].pad, 2, current', TRUE)
    <3>. DEFINE rec  == Recorded
                tape == Tape
                ttl  == sched[sp].ttl
                pad  == sched[sp].pad
                cur  == current'
    <3>1. /\ rec \in Seq(Heard) /\ tape \in Seq(Pads) /\ ttl \in Nat /\ ttl > 0
          /\ pad.mode = "only" => cur = pad.input
          /\ Follows(rec, tape, ttl, pad, 2, current, FALSE)
      BY <1>1, <2>2, <2>4, <2>6, <2>7
    <3>. HIDE DEF rec, tape, ttl, pad, cur
    <3>2. Follows(rec, tape, ttl, pad, 2, cur, TRUE)
      BY <3>1, PollFollows
    <3>. QED  BY <3>2 DEF rec, tape, ttl, pad, cur
  <2>. QED  BY <1>2, <2>1, <2>5, <2>8
<1>. QED  BY <1>4, <1>5, <1>6

(* A frame that is not a 30fps one ends the steady run it was recorded in. *)
LEMMA RenderKeepsTape ==
  ASSUME TapeInv, Render
  PROVE  (RecordTypes /\ Placed /\ Current /\ SoloPlays /\ InStep)'
<1>. USE DEF TapeInv
<1>1. /\ pc = "game" /\ pc' = "push" /\ at = "render" /\ at' = "cooldown"
      /\ delta' \in Deltas /\ frameTime' = delta'
      /\ UNCHANGED <<sp, pending, abortReq, mod, sched, recordVars, plan>>
      /\ solo' \in BOOLEAN /\ (solo' => solo)
  BY DEF Render, GameFrame, playVars, RecordTypes
<1>2. RecordTypes'
  BY <1>1 DEF recordVars, RecordTypes
<1>3. Placed' /\ Current' /\ SoloPlays'
  <2>1. pc' = "push" /\ at' = "cooldown" /\ delta' = frameTime'
    BY <1>1
  <2>2. (isRecordActive => WholeFrames(seen, input60))'
    BY <1>1, SameWhole DEF recordVars
  <2>3. Placed'
    BY <2>1 DEF Placed
  <2>4. Current'
    BY <2>1, <2>2 DEF Current
  <2>5. SoloPlays'
    BY <1>1 DEF SoloPlays, Executes
  <2>. QED  BY <2>3, <2>4, <2>5
<1>4. InStep'
  <2>. SUFFICES ASSUME Steady'
                PROVE  Follows(Recorded', Tape', sched'[sp'].ttl, sched'[sp'].pad, Uncharged',
                               current', at' # "poll")
    BY DEF InStep
  <2>1. /\ UNCHANGED <<isRecordActive, seen, inputs, accumulator, input60, current>>
    BY <1>1 DEF recordVars
  <2>2. frameTime = 2
    <3>1. seen # <<>> /\ seen[Len(seen)].dur = frameTime /\ \A k \in 1 .. Len(seen) : seen[k].dur = 2
      BY <1>1, <2>1 DEF Current, Steady
    <3>2. Len(seen) \in 1 .. Len(seen)
      BY <3>1 DEF RecordTypes
    <3>. QED  BY <3>1, <3>2
  <2>3. Steady /\ Recorded' = Recorded /\ Tape' = Tape
    BY <1>1, <2>1, <2>2 DEF Steady, Recorded, Tape
  <2>4. Uncharged = 2 /\ Uncharged' = 2 /\ (at # "poll") = TRUE /\ (at' # "poll") = TRUE
    BY <1>1 DEF Uncharged
  <2>. QED  BY <1>1, <2>1, <2>3, <2>4 DEF InStep
<1>. QED  BY <1>2, <1>3, <1>4

(* There is no recording when the controls start. *)
LEMMA TapeInvInit == ControlsInit => TapeInv
<1>. SUFFICES ASSUME ControlsInit PROVE TapeInv
  OBVIOUS
<1>. USE DEF ControlsInit, Init, Rec!Init
<1>1. RecordTypes
  <2>1. <<>> \in Seq(Lasting(Pads)) /\ <<>> \in Seq(Lasting(Heard))
    OBVIOUS
  <2>2. NoInput \in Heard
    BY InputsAssumption DEF Heard
  <2>. QED  BY <2>1, <2>2 DEF RecordTypes
<1>2. Placed /\ Current /\ SoloPlays /\ InStep
  BY DEF Placed, Current, SoloPlays, InStep, Steady
<1>3. SuspendsToPlay
  BY DEF SuspendsToPlay
<1>. QED  BY <1>1, <1>2, <1>3 DEF TapeInv

(* Every step keeps the tapes in step, if inputs last whole frames. *)
LEMMA TapeInvStep ==
  ASSUME \A d \in Durations : d % 2 = 0,
         StillInv, InputInv, TapeInv, NotLoading, [ControlsNext]_allVars
  PROVE  TapeInv'
<1>1. StackOK /\ FrameStep /\ SuspendsToPlay
  BY ControlsDoFrameSteps DEF StillInv, HotkeyInv, TapeInv
<1>2. SuspendsToPlay'
  BY <1>1, SuspendsStep
<1>. DEFINE Rest == RecordTypes /\ Placed /\ Current /\ SoloPlays /\ InStep
<1>3. CASE UNCHANGED allVars
  <2>1. UNCHANGED <<vars, at, frameTime, recordVars, plan, solo>>
    BY <1>3 DEF allVars, controlVars, historyVars
  <2>2. (RecordTypes /\ Placed /\ Current /\ SoloPlays)'
    BY <2>1 DEF vars, playVars, recordVars, TapeInv, RecordTypes, Placed, Current, SoloPlays
  <2>3. InStep'
    <3>1. Uncharged' = Uncharged
      BY <2>1 DEF vars, Uncharged
    <3>. QED  BY <2>1, <3>1, SameInStep DEF vars, recordVars, TapeInv
  <2>. QED  BY <1>2, <2>2, <2>3 DEF TapeInv
<1>4. CASE WebSocketPush \/ HotkeyCooldown \/ HotkeyButtons \/ HotkeyKeyboard
  <2>1. at \in InHotkeys
    BY <1>4 DEF WebSocketPush, HotkeyCooldown, HotkeyButtons, HotkeyKeyboard, InHotkeys
  <2>2. Rest'
    BY <1>4, <2>1, HotkeysOnTape, HotkeysKeepTape
  <2>. QED  BY <1>2, <2>2 DEF TapeInv
<1>5. CASE Playback
  BY <1>1, <1>2, <1>5, PlaybackKeepsTape DEF TapeInv
<1>6. CASE at = "loop" /\ (ScriptInput \/ ScriptBind \/ ScriptRecord)
  BY <1>1, <1>2, <1>6, InputKeepsTape, BindKeepsTape, RecordKeepsTape DEF TapeInv
<1>7. CASE RecordFrame \/ Poll \/ Render
  BY <1>1, <1>2, <1>7, RecordFrameKeepsTape, PollKeepsTape, RenderKeepsTape DEF TapeInv
<1>. QED
  BY <1>3, <1>4, <1>5, <1>6, <1>7 DEF ControlsNext

(* When the script runs, its input is used up and recorded: the lag is one frame. *)
LEMMA InStepIsLag == TapeInv => RecordingLagsOneFrame
<1>. SUFFICES ASSUME TapeInv, Steady, pc = "script"
              PROVE  /\ Len(Recorded) = Len(Tape)
                     /\ \A k \in 3 .. Len(Recorded) :
                          Tape[k - 2].mode = "only" => Recorded[k] = Tape[k - 2].input
  BY Zenon DEF RecordingLagsOneFrame, Steady, Recorded, Tape
<1>1. Uncharged = 0 /\ sched[sp].ttl = 0
  BY DEF Uncharged, TapeInv, Placed, SuspendsToPlay
<1>2. Follows(Recorded, Tape, 0, sched[sp].pad, 0, current, at # "poll")
  BY <1>1 DEF TapeInv, InStep
<1>3. Len(Recorded) \in Nat
  BY TapesTyped DEF TapeInv
<1>. QED  BY <1>2, <1>3 DEF Follows

(* "inject mutated states back into record, so we can re-log final inputs     *)
(* during playback" (main.cpp:142): a script that records what it plays gets  *)
(* its inputs one frame late and as much of them as it has played, if it      *)
(* plays alone at a steady 30fps, for whatever inputs of whole frames it      *)
(* schedules and whatever the player does meanwhile, as long as the game does *)
(* not load.                                                                  *)
THEOREM RecordingLagsCorrect ==
  ASSUME \A d \in Durations : d % 2 = 0
  PROVE  ControlsSpec /\ []NotLoading => []RecordingLagsOneFrame
<1>1. StillInv /\ InputInv /\ NotLoading /\ [ControlsNext]_allVars => InputInv'
  BY ControlsDoFrameSteps, InputInvStep DEF StillInv, HotkeyInv
<1>2. StillInv /\ InputInv /\ TapeInv /\ NotLoading /\ [ControlsNext]_allVars => TapeInv'
  BY TapeInvStep
<1>. QED
  BY <1>1, <1>2, InputInvInit, TapeInvInit, StillInvariant, InStepIsLag, PTL DEF ControlsSpec
=============================================================================
