------------------------------ MODULE Schedule ------------------------------
(***************************************************************************)
(* The TAS script scheduler: the stack of script modules                   *)
(* (script/schedule.cpp), the bindings through which a running script      *)
(* schedules input, waits and pushes other scripts (tas/Playback.cpp), and *)
(* the part of the frame loop (main.cpp) that drives them.                 *)
(*                                                                         *)
(* All of it runs on one thread, but calls nest: Playback::calc resumes a  *)
(* script inside AngelScript's Execute, the script may push another script *)
(* that is executed inside the push, and so on.  One step is the code      *)
(* between two points where control enters or leaves a script; `native` is *)
(* the chain of calcCtx invocations that are inside Execute, each with the *)
(* stack slot whose context it executes.                                   *)
(*                                                                         *)
(* AngelScript contexts are external.  What is used of them: Suspend only  *)
(* raises a flag, looked at when a system call returns to the script;      *)
(* Abort does the same and moves a suspended context to aborted at once;   *)
(* Prepare and Unprepare are refused on an active or suspended context.    *)
(*                                                                         *)
(* Some definitions stand beside a deliberately faulty version of          *)
(* themselves, of the kind a careless edit of the code would produce:      *)
(* DontSuspendOngoing, IsOccupied, TryDiscardKeepsSlot,                    *)
(* AbortBelowTop, RunsWhenActive, DeltaStays,                              *)
(* PadTaken, EndAnyAwaitOf, LeftUnchecked, LoadingPausesByDebugFlag,       *)
(* StaysReleased and PlayedOrKept.  No action                              *)
(* uses them; putting one in the place of the definition it stands beside  *)
(* must break a property, which shows that the property can fail.          *)
(***************************************************************************)
EXTENDS Integers, Sequences, FiniteSets

CONSTANTS
  MaxDepth,     \* MAX_MODULE_STACK_DEPTH
  Names,        \* module names scripts are pushed under
  Broken,       \* those whose file is unreadable or whose text does not build
  NoEntry,      \* those that build but lack the requested entry point
  Handles,      \* asIScriptModule objects
  NoModule,     \* the null module pointer
  Pads,         \* controller payloads a script may schedule (input and mode)
  Vanilla,      \* NULL_VANILLA: the player's own input passes through
  Durations,    \* input durations, in 30fps half-frames
  Deltas,       \* frame times the game renders with, in half-frames
  Keys,         \* pause requests the scripts refer to
  DebugPause, LoadingPause,
  ScriptKeys,   \* those that scripts request and release themselves
  Targets,      \* pause targets the scripts refer to
  NoKey,        \* hash 0: no await in progress
  Calls,        \* which bindings the scripts of this instance call
  ElapsedMod,   \* elapsedPlayback60 is counted modulo this (2^32 in the code)
  MaxPause,     \* bound: nested requests of one pause
  MaxBypass,    \* bound: frame advance steps outstanding
  MaxHostPush,  \* bound: scripts a websocket/hotkey batch pushes in one frame
  PushDepth     \* bound: nothing is pushed at this stack index or above it

ASSUME DepthAssumption == MaxDepth \in Nat \ {0}
ASSUME ModuleAssumption == /\ NoModule \notin Handles
                           /\ Broken \subseteq Names /\ NoEntry \subseteq Names
ASSUME KeyAssumption == /\ DebugPause \in Keys /\ LoadingPause \in Keys
                        /\ ScriptKeys \subseteq Keys
                        /\ NoKey \notin Keys \cup Targets
ASSUME PadAssumption == Vanilla \in Pads
ASSUME TimeAssumption == /\ Durations \subseteq Nat /\ Deltas \subseteq Nat \ {0}
                         /\ Deltas # {} /\ ElapsedMod \in Nat \ {0}
ASSUME BoundAssumption == {MaxPause, MaxBypass, MaxHostPush, PushDepth} \subseteq Nat

VARIABLES
  pc,        \* where the main thread is
  native,    \* slots executed by the nested calcCtx calls, outermost first
  sp,        \* moduleStackIndex
  active,    \* isPlaybackActive
  pending,   \* isPlaybackBeginPending
  abortReq,  \* isAbortReq
  elapsed,   \* elapsedPlayback60
  frameAdv,  \* isFrameAdvance
  bypass,    \* bypassDebugPause60
  delta,     \* deltaFrame60, the frame time calcCtx has still to account for
  mod,       \* moduleStack[i].asModule
  sched,     \* moduleStack[i].state
  ctx, susp, abrt,  \* moduleStack[i].asCtx: status, doSuspend, doAbort
  registry,  \* the engine's modules by name
  pause,     \* mPauseCount of each pause request
  targets,   \* the pause targets in effect
  pushes,    \* scripts pushed by this frame's batch so far
  ran        \* history: a script was resumed in this frame

playVars == <<active, pending, abortReq, elapsed>>
advVars  == <<frameAdv, bypass>>
ctxVars  == <<ctx, susp, abrt>>
envVars  == <<pause, targets, pushes, ran>>
vars == <<pc, native, sp, playVars, advVars, delta, mod, sched, ctxVars, registry, envVars>>

Slots == 0 .. MaxDepth - 1
Waits == Keys \cup {NoKey}

SchedState ==
  [ttl : Nat, req : Waits, tgt : Targets \cup {NoKey}, val : BOOLEAN,
   debug : BOOLEAN, loading : BOOLEAN, pad : Pads]

Running == native[Len(native)]      \* the slot of the script that is executing
Outer   == SubSeq(native, 1, Len(native) - 1)

Paused(k) == pause[k] > 0
Requested(p, k) == [p EXCEPT ![k] = IF @ < MaxPause THEN @ + 1 ELSE @]
Released(p, k)  == [p EXCEPT ![k] = IF @ > 0 THEN @ - 1 ELSE 0]

-----------------------------------------------------------------------------
(* resetState; the payload and the mode are inherited on a push. *)
ResetState(pad) ==
  [ttl |-> 0, req |-> NoKey, tgt |-> NoKey, val |-> FALSE,
   debug |-> TRUE, loading |-> TRUE, pad |-> pad]

(* abortStackReq: every context is told to abort, c being their statuses. *)
AbortStackReq(c) ==
  /\ abortReq' = TRUE
  /\ ctx'  = [i \in Slots |-> IF c[i] = "suspended" THEN "aborted" ELSE c[i]]
  /\ susp' = [i \in Slots |-> TRUE]
  /\ abrt' = [i \in Slots |-> TRUE]

(* calcCtx returns to Playback::calc, or to the push that called it, both of *)
(* which end the playback when it returns true; the native chain is then n.  *)
CalcReturn(n, isCompleteOrFail) ==
  /\ native' = n
  /\ pc' = IF n = <<>> THEN "game" ELSE "sysret"
  /\ active' = (active /\ ~isCompleteOrFail)

(* The modules and the registry once h is discarded: Module::Discard removes *)
(* it from the engine whoever still points to it.                            *)
Unregister(h) == [n \in Names |-> IF registry[n] = h THEN NoModule ELSE registry[n]]

(* tryDiscardLastModuleForPop; the frame just below is not looked at. *)
StillInUse(h) == \E i \in 0 .. sp - 2 : mod[i] = h

TryDiscardKeepsSlot ==
  /\ UNCHANGED mod
  /\ registry' = IF mod[sp] = NoModule \/ StillInUse(mod[sp])
                 THEN registry ELSE Unregister(mod[sp])
TryDiscardLastModule ==
  /\ mod' = [mod EXCEPT ![sp] = NoModule]
  /\ registry' = IF mod[sp] = NoModule \/ StillInUse(mod[sp])
                 THEN registry ELSE Unregister(mod[sp])

-----------------------------------------------------------------------------
(* Pushing a script *)

(* An ongoing script is suspended when another goes on top of it. *)
DontSuspendOngoing == susp
SuspendOngoing == [susp EXCEPT ![sp] = @ \/ ctx[sp] = "active"]

(* pushExecModuleEntryPoint; control returns to ret unless it executes now *)
PushEntryPoint(h, hasEntry, doImmediate, block, ret) ==
  LET grow  == mod[sp] # NoModule
      top   == IF grow THEN sp + 1 ELSE sp
      fresh == ResetState(IF grow THEN sched[sp].pad ELSE Vanilla)
      ready == ctx[top] \notin {"active", "suspended"}
  IN  \/ /\ top \notin Slots         \* the stack's last slot is overrun
         /\ pc' = "corrupt"
         /\ UNCHANGED <<native, sp, playVars, mod, sched, ctxVars>>
      \/ /\ top \in Slots /\ grow /\ mod[top] # NoModule
         /\ sched' = [sched EXCEPT ![top] = fresh]
         /\ AbortStackReq(ctx)
         /\ pc' = ret
         /\ UNCHANGED <<native, sp, active, pending, elapsed, mod>>
      \/ /\ top \in Slots /\ mod[top] = NoModule /\ ~hasEntry
         /\ mod' = [mod EXCEPT ![top] = h]
         /\ sched' = [sched EXCEPT ![top] = [fresh EXCEPT !.debug = block]]
         /\ AbortStackReq(ctx)
         /\ pc' = ret
         /\ UNCHANGED <<native, sp, active, pending, elapsed>>
      \/ /\ top \in Slots /\ mod[top] = NoModule /\ hasEntry
         /\ mod' = [mod EXCEPT ![top] = h]
         /\ sched' = [sched EXCEPT ![top] = [fresh EXCEPT !.debug = block]]
         /\ ctx'  = [ctx  EXCEPT ![top] = IF ready THEN "prepared" ELSE @]
         /\ susp' = [SuspendOngoing EXCEPT ![top] = @ /\ ~ready]
         /\ abrt' = [abrt EXCEPT ![top] = @ /\ ~ready]
         /\ sp' = top
         /\ pending' = (pending \/ ~doImmediate)
         /\ pc' = IF doImmediate THEN "enter" ELSE ret
         /\ UNCHANGED <<native, active, abortReq, elapsed>>

(* pushExecLocalFileModule, pushExecLocalFileModuleNXTas, pushExecTextModule *)
(* and pushExecEval: a module of that name is reused, else one is built.     *)
PushScript(n, doImmediate, block, ret) ==
  /\ sp < PushDepth
  /\ \/ /\ n \in Broken /\ registry[n] = NoModule
        /\ AbortStackReq(ctx)
        /\ pc' = ret
        /\ UNCHANGED <<native, sp, active, pending, elapsed, mod, sched, registry>>
     \/ \E h \in Handles :
          /\ \/ registry[n] = h /\ UNCHANGED registry
             \/ /\ registry[n] = NoModule /\ n \notin Broken
                /\ \A i \in Slots : mod[i] # h
                /\ \A m \in Names : registry[m] # h
                /\ registry' = [registry EXCEPT ![n] = h]
          /\ PushEntryPoint(h, n \notin NoEntry, doImmediate, block, ret)

(* The websocket dispatch, the hotkeys and autorun push with execution left *)
(* to the main loop; hotkeys pass block = FALSE, a websocket client either. *)
HostPush ==
  /\ pc = "push" /\ pushes < MaxHostPush
  /\ pushes' = pushes + 1
  /\ \E n \in Names, block \in BOOLEAN : PushScript(n, FALSE, block, "push")
  /\ UNCHANGED <<advVars, delta, pause, targets, ran>>

HostPushDone ==
  /\ pc = "push" /\ pc' = "calc"
  /\ UNCHANGED <<native, sp, playVars, advVars, delta, mod, sched, ctxVars, registry, envVars>>

-----------------------------------------------------------------------------
(* Playback::calc and calcCtx *)

(* abortStackImpl, the case of a requested abort, over the first n frames *)
AbortFrames(n) ==
  LET cleared == 0 .. n - 1
      Unprepared(c) == IF c = "active" THEN c ELSE "uninit"
      discarded == {mod[i] : i \in cleared}
  IN  /\ abortReq' = FALSE
      /\ active' = FALSE
      /\ sp' = 0
      /\ mod' = [i \in Slots |-> IF i \in cleared THEN NoModule ELSE mod[i]]
      /\ registry' = [m \in Names |-> IF registry[m] \in discarded THEN NoModule ELSE registry[m]]
      /\ ctx'  = [i \in Slots |-> IF i \in cleared THEN Unprepared(ctx[i]) ELSE ctx[i]]
      /\ susp' = [i \in Slots |-> susp[i] \/ i \in cleared]
      /\ abrt' = [i \in Slots |-> abrt[i] \/ i \in cleared]

AbortBelowTop  == AbortFrames(sp)
AbortStackImpl == AbortFrames(MaxDepth)

RunsWhenActive == active'
PlaybackRuns   == active' \/ pending

PlaybackCalc ==
  /\ pc = "calc"
  /\ \/ abortReq /\ AbortStackImpl
     \/ ~abortReq /\ UNCHANGED <<abortReq, active, sp, mod, registry, ctxVars>>
  /\ pc' = IF PlaybackRuns THEN "enter" ELSE "game"
  /\ ran' = FALSE
  /\ UNCHANGED <<native, pending, elapsed, advVars, delta, sched, pause, targets, pushes>>

IsOccupied == ~abortReq /\ mod[sp] # NoModule
IsValidForExecution ==
  ~abortReq /\ mod[sp] # NoModule /\ ctx[sp] \in {"suspended", "prepared"}

(* isBlockedFromScheduling, as the awaits it ends and what it returns *)
DebugPauses(s)   == Paused(DebugPause) /\ s.debug
LoadingPausesByDebugFlag(s) == Paused(LoadingPause) /\ s.debug
LoadingPauses(s) == Paused(LoadingPause) /\ s.loading
Stepping         == frameAdv /\ bypass > 0

EndAnyAwaitOf(k, s) == IF s.req = k THEN [s EXCEPT !.req = NoKey] ELSE s
EndAwaitOf(k, s) == IF s.req = k /\ s.val THEN [s EXCEPT !.req = NoKey] ELSE s
AwaitsRequest(s) == s.req # NoKey /\ s.val # Paused(s.req)
AwaitsTarget(s)  == s.tgt # NoKey /\ s.val # (s.tgt \in targets)

AfterDebug(s)   == IF DebugPauses(s) THEN EndAwaitOf(DebugPause, s) ELSE s
AfterLoading(s) == IF LoadingPauses(s) THEN EndAwaitOf(LoadingPause, s) ELSE s
AfterRequest(s) == IF AwaitsRequest(s) THEN s ELSE [s EXCEPT !.req = NoKey]
AfterTarget(s)  == IF AwaitsTarget(s) THEN s ELSE [s EXCEPT !.tgt = NoKey]

(* <<blocked, state afterwards>> *)
Schedulable(s) ==
  LET s1 == AfterDebug(s)
      s2 == AfterLoading(s1)
      s3 == AfterRequest(s2)
  IN  IF pending THEN <<FALSE, s>>
      ELSE IF DebugPauses(s) /\ ~Stepping THEN <<TRUE, s1>>
      ELSE IF LoadingPauses(s1) THEN <<TRUE, s2>>
      ELSE IF AwaitsRequest(s2) THEN <<TRUE, s2>>
      ELSE <<AwaitsTarget(s3), AfterTarget(s3)>>

(* calcConsumeFrametime_queryIsInputExhausted.  The frame that has passed is *)
(* charged to the script whose input it played, which for a pending script   *)
(* is the one below it.                                                      *)
Charged == IF pending /\ sp > 0 /\ sched[sp - 1].ttl > 0 THEN sp - 1 ELSE sp

(* What the frame advance mode makes of the frame for a script that blocks   *)
(* on DebugPause or not: does its time count toward the input, toward the    *)
(* run length, what is left of the step, and what happens to DebugPause.     *)
LeftUnchecked == bypass - delta
LeftOfStep    == IF bypass < delta THEN 0 ELSE bypass - delta
StaysReleased    == pause
PauseAfterStep   == IF LeftOfStep = 0 THEN Requested(pause, DebugPause) ELSE pause

FrameAdvance(blocks) ==
  LET result(play, count, rest, p) == [play |-> play, count |-> count, bypass |-> rest, pause |-> p]
  IN  IF ~frameAdv THEN result(TRUE, TRUE, bypass, pause)
      ELSE IF bypass = 0 THEN
             IF Paused(DebugPause) THEN result(FALSE, FALSE, 0, pause)
             ELSE result(TRUE, TRUE, 0, Requested(pause, DebugPause))
      ELSE IF ~blocks THEN result(TRUE, FALSE, bypass, pause)
      ELSE IF Paused(DebugPause) THEN result(FALSE, FALSE, bypass, Released(pause, DebugPause))
      ELSE result(TRUE, TRUE, LeftOfStep, PauseAfterStep)

(* A remainder shorter than the frame is dropped. *)
PlayedOrKept(ttl) == IF ttl >= delta THEN ttl - delta ELSE ttl
Played(ttl)       == IF ttl >= delta THEN ttl - delta ELSE 0

ConsumeFrametime(st) ==
  LET s == st[Charged]
      f == FrameAdvance(s.debug)
  IN  /\ sched' = [st EXCEPT ![Charged].ttl = IF f.play THEN Played(@) ELSE @]
      /\ elapsed' = IF f.play /\ f.count THEN (elapsed + delta) % ElapsedMod ELSE elapsed
      /\ bypass' = f.bypass
      /\ pause' = f.pause

Exhausted == sched'[Charged].ttl = 0

(* CTX_ENTER with a frame that cannot be executed: the stack is aborted. *)
CtxInvalid ==
  /\ pc = "enter" /\ ~IsValidForExecution
  /\ AbortStackReq(ctx)
  /\ CalcReturn(native, TRUE)
  /\ UNCHANGED <<sp, pending, elapsed, advVars, delta, mod, sched, registry, envVars>>

(* CTX_ENTER with a script held by a pause or an await *)
CtxBlocked ==
  /\ pc = "enter" /\ IsValidForExecution
  /\ Schedulable(sched[sp])[1]
  /\ sched' = [sched EXCEPT ![sp] = Schedulable(sched[sp])[2]]
  /\ CalcReturn(native, FALSE)
  /\ UNCHANGED <<sp, pending, abortReq, elapsed, advVars, delta, mod, ctxVars, registry, envVars>>

CtxSchedulable ==
  /\ pc = "enter" /\ IsValidForExecution
  /\ ~Schedulable(sched[sp])[1]
  /\ ConsumeFrametime([sched EXCEPT ![sp] = Schedulable(sched[sp])[2]])
  /\ UNCHANGED <<sp, abortReq, frameAdv, mod, abrt, registry, targets, pushes>>

(* ... with input left to play: the script is not resumed. *)
CtxWait ==
  /\ CtxSchedulable
  /\ ~Exhausted /\ ~pending
  /\ CalcReturn(native, FALSE)
  /\ UNCHANGED <<pending, delta, ctx, susp, ran>>

(* ... with no input left: the script runs. *)
PendingEnds   == pending' = FALSE
DeltaStays    == UNCHANGED delta
DeltaConsumed == delta' = 0

CtxResume ==
  /\ CtxSchedulable
  /\ Exhausted \/ pending
  /\ PendingEnds
  /\ DeltaConsumed
  /\ ctx' = [ctx EXCEPT ![sp] = "active"]
  /\ native' = Append(native, sp)
  /\ pc' = "script"
  /\ ran' = TRUE
  /\ UNCHANGED <<active, susp>>

(* The payload of a frame whose nested script is done: inherited unless it *)
(* has input of its own left.                                              *)
PadTaken(below, done)     == done.pad
PadInherited(below, done) == IF below.ttl = 0 THEN done.pad ELSE below.pad

(* Execute returns finished: the frame is popped and the one below decides *)
(* whether it resumes, or the whole stack is complete.                     *)
ScriptReturn ==
  /\ pc = "script"
  /\ ctx'  = [ctx EXCEPT ![Running] = "uninit"]
  /\ susp' = [susp EXCEPT ![Running] = FALSE]
  /\ TryDiscardLastModule
  /\ \/ /\ sp = 0
        /\ CalcReturn(Outer, TRUE)
        /\ UNCHANGED <<sp, sched>>
     \/ /\ sp > 0
        /\ sched' = [sched EXCEPT ![Running - 1].pad =
                       PadInherited(sched[Running - 1], sched[Running])]
        /\ sp' = sp - 1
        /\ native' = Outer
        /\ pc' = "enter"
        /\ UNCHANGED active
  /\ UNCHANGED <<pending, abortReq, elapsed, advVars, delta, abrt, envVars>>

(* Execute returns exception *)
ScriptThrow ==
  /\ pc = "script" /\ "throw" \in Calls
  /\ AbortStackReq([ctx EXCEPT ![Running] = "exception"])
  /\ CalcReturn(Outer, TRUE)
  /\ UNCHANGED <<sp, pending, elapsed, advVars, delta, mod, sched, registry, envVars>>

(* A system call returns to the script, and Execute returns if a suspension *)
(* was requested meanwhile.                                                 *)
SysReturn ==
  /\ pc = "sysret"
  /\ \/ /\ ~susp[Running]
        /\ pc' = "script"
        /\ UNCHANGED <<native, active, ctxVars>>
     \/ /\ susp[Running]
        /\ susp' = [susp EXCEPT ![Running] = FALSE]
        /\ ctx'  = [ctx EXCEPT ![Running] = IF abrt[Running] THEN "aborted" ELSE "suspended"]
        /\ abrt' = [abrt EXCEPT ![Running] = FALSE]
        /\ CalcReturn(Outer, abrt[Running])
  /\ UNCHANGED <<sp, pending, abortReq, elapsed, advVars, delta, mod, sched, registry, envVars>>

-----------------------------------------------------------------------------
(* The bindings a running script calls.  They act on the frame at the stack *)
(* pointer, whoever calls them.                                             *)

SuspendTop == susp' = [susp EXCEPT ![sp] = TRUE]

ScriptCall(name) == pc = "script" /\ name \in Calls /\ pc' = "sysret"

(* setCurrentInput, Or, Xor, and setSleepInput (pad = Vanilla) *)
SetCurrentInput ==
  /\ ScriptCall("input")
  /\ \E d \in Durations, pad \in Pads :
       /\ sched' = [sched EXCEPT ![sp] = [@ EXCEPT !.ttl = d, !.pad = pad]]
       /\ IF d > 0 THEN SuspendTop ELSE UNCHANGED susp
  /\ elapsed' = IF active THEN elapsed ELSE 0
  /\ active' = TRUE
  /\ UNCHANGED <<native, sp, pending, abortReq, advVars, delta, mod, ctx, abrt, registry, envVars>>

(* doScheduleAwait{Pause,Unpause}RequestStr and ...TargetStr *)
ScheduleAwait ==
  /\ ScriptCall("await")
  /\ \E val \in BOOLEAN :
       \/ \E k \in Keys :
            sched' = [sched EXCEPT ![sp] = [@ EXCEPT !.val = val, !.req = k]]
       \/ \E t \in Targets :
            sched' = [sched EXCEPT ![sp] = [@ EXCEPT !.val = val, !.tgt = t]]
  /\ SuspendTop
  /\ active' = TRUE
  /\ UNCHANGED <<native, sp, pending, abortReq, elapsed, advVars, delta, mod, ctx, abrt, registry, envVars>>

(* doBlockOnDebugPause and doBlockOnLoadingPause *)
BlockOnPause ==
  /\ ScriptCall("block")
  /\ \E v \in BOOLEAN :
       \/ sched' = [sched EXCEPT ![sp].debug = v]
       \/ sched' = [sched EXCEPT ![sp].loading = v]
  /\ UNCHANGED <<native, sp, playVars, advVars, delta, mod, ctxVars, registry, envVars>>

(* yield() and sys::suspendCtx(): the context that executes is suspended. *)
Yield ==
  /\ ScriptCall("yield")
  /\ susp' = [susp EXCEPT ![Running] = TRUE]
  /\ UNCHANGED <<native, sp, playVars, advVars, delta, mod, sched, ctx, abrt, registry, envVars>>

BeginFrameAdvance ==
  /\ ScriptCall("advance")
  /\ frameAdv' = TRUE
  /\ bypass' = IF frameAdv THEN bypass ELSE 0
  /\ pause' = IF Paused(DebugPause) THEN pause ELSE Requested(pause, DebugPause)
  /\ UNCHANGED <<native, sp, playVars, delta, mod, sched, ctxVars, registry, targets, pushes, ran>>

StepFrameAdvance ==
  /\ ScriptCall("advance")
  /\ \E d \in Durations :
       /\ (IF frameAdv THEN bypass ELSE 0) + d <= MaxBypass
       /\ bypass' = (IF frameAdv THEN bypass ELSE 0) + d
  /\ frameAdv' = TRUE
  /\ pause' = IF frameAdv \/ Paused(DebugPause) THEN pause ELSE Requested(pause, DebugPause)
  /\ UNCHANGED <<native, sp, playVars, delta, mod, sched, ctxVars, registry, targets, pushes, ran>>

EndFrameAdvance ==
  /\ ScriptCall("advance")
  /\ frameAdv' = FALSE
  /\ bypass' = 0
  /\ pause' = Released(pause, DebugPause)
  /\ UNCHANGED <<native, sp, playVars, delta, mod, sched, ctxVars, registry, targets, pushes, ran>>

(* pause::requestPauseStr and pause::releasePauseStr from a script *)
PauseFromScript ==
  /\ ScriptCall("pause")
  /\ \E k \in ScriptKeys : pause' \in {Requested(pause, k), Released(pause, k)}
  /\ UNCHANGED <<native, sp, playVars, advVars, delta, mod, sched, ctxVars, registry, targets, pushes, ran>>

(* tas::abort *)
AbortFromScript ==
  /\ ScriptCall("abort")
  /\ AbortStackReq(ctx)
  /\ UNCHANGED <<native, sp, active, pending, elapsed, advVars, delta, mod, sched, registry, envVars>>

(* awaitExecFile, awaitEval and awaitExecFileNXTas.  They are registered     *)
(* with fewer arguments than the functions take, so that doImmediateExecute  *)
(* and blockOnDebugPause are whatever the registers hold.                    *)
PushFromScript ==
  /\ pc = "script" /\ "push" \in Calls
  /\ \E n \in Names, doImmediate \in BOOLEAN, block \in BOOLEAN :
       PushScript(n, doImmediate, block, "sysret")
  /\ UNCHANGED <<advVars, delta, envVars>>

ScriptStep ==
  \/ SetCurrentInput \/ ScheduleAwait \/ BlockOnPause \/ Yield
  \/ BeginFrameAdvance \/ StepFrameAdvance \/ EndFrameAdvance
  \/ PauseFromScript \/ AbortFromScript \/ PushFromScript
  \/ ScriptReturn \/ ScriptThrow

-----------------------------------------------------------------------------
(* The game between two frames: it holds and drops its own pauses, settles  *)
(* the targets they pause, and renders with some frame time.                *)
GameFrame ==
  /\ pc = "game"
  /\ delta' \in Deltas
  /\ pause' \in {pause} \cup
       UNION {{Requested(pause, k), Released(pause, k)} : k \in Keys \ {DebugPause}}
  /\ targets' \in SUBSET Targets
  /\ pushes' = 0
  /\ pc' = "push"
  /\ UNCHANGED <<native, sp, playVars, advVars, mod, sched, ctxVars, registry, ran>>

Init ==
  /\ pc = "push" /\ native = <<>> /\ sp = 0
  /\ active = FALSE /\ pending = FALSE /\ abortReq = FALSE
  /\ elapsed = 0 /\ frameAdv = FALSE /\ bypass = 0 /\ delta \in Deltas
  /\ mod = [i \in Slots |-> NoModule]
  /\ sched = [i \in Slots |->
               [ResetState(Vanilla) EXCEPT !.debug = FALSE, !.loading = FALSE]]
  /\ ctx = [i \in Slots |-> "uninit"]
  /\ susp = [i \in Slots |-> FALSE] /\ abrt = [i \in Slots |-> FALSE]
  /\ registry = [n \in Names |-> NoModule]
  /\ pause = [k \in Keys |-> 0] /\ targets = {}
  /\ pushes = 0 /\ ran = FALSE

CtxStep == CtxInvalid \/ CtxBlocked \/ CtxWait \/ CtxResume

(* What the main thread does by itself, given a game that renders frames. *)
MainLoop == HostPushDone \/ PlaybackCalc \/ CtxStep \/ SysReturn \/ ScriptStep \/ GameFrame

Next == HostPush \/ MainLoop

Spec == Init /\ [][Next]_vars

(* The main thread never stops: the game renders frame after frame, and a   *)
(* script that runs goes on running.  Nobody has to push anything.          *)
FairSpec == Spec /\ WF_vars(MainLoop)
=============================================================================
