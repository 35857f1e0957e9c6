------------------------- MODULE ScheduleProperties -------------------------
(***************************************************************************)
(* What the scheduler of module Schedule promises.                         *)
(***************************************************************************)
EXTENDS Schedule

CtxStatus == {"uninit", "prepared", "active", "suspended", "aborted", "exception"}
Executing == {native[k] : k \in 1 .. Len(native)}

(* Every variable keeps the type its declaration in schedule.hpp gives it, *)
(* and moduleStackIndex stays inside moduleStack.                          *)
TypeOK ==
  /\ pc \in {"push", "calc", "enter", "script", "sysret", "game", "corrupt"}
  /\ native \in Seq(Slots)
  /\ sp \in Slots
  /\ active \in BOOLEAN /\ pending \in BOOLEAN /\ abortReq \in BOOLEAN
  /\ elapsed \in 0 .. ElapsedMod - 1
  /\ frameAdv \in BOOLEAN /\ bypass \in 0 .. MaxBypass
  /\ delta \in Nat
  /\ mod \in [Slots -> Handles \cup {NoModule}]
  /\ sched \in [Slots -> SchedState]
  /\ ctx \in [Slots -> CtxStatus]
  /\ susp \in [Slots -> BOOLEAN] /\ abrt \in [Slots -> BOOLEAN]
  /\ registry \in [Names -> Handles \cup {NoModule}]
  /\ pause \in [Keys -> 0 .. MaxPause]
  /\ targets \in SUBSET Targets
  /\ pushes \in 0 .. MaxHostPush
  /\ ran \in BOOLEAN

(* The bindings of Playback.cpp write to the frame at the stack pointer and *)
(* trySuspendCtx suspends its context: that is only right if the script     *)
(* that calls them is the one on top of the stack, also after it has pushed *)
(* another script and that one has finished, suspended or failed.           *)
RunningIsTop == pc = "script" => Len(native) > 0 /\ Running = sp

(* The contexts AngelScript is executing are those of the nested calcCtx    *)
(* calls, each nested call works further up the stack, and a calcCtx that   *)
(* decides whether to resume a script has nothing running above it.         *)
NestingMatchesStack ==
  /\ \A i \in Slots : ctx[i] = "active" <=> i \in Executing
  /\ \A j, k \in 1 .. Len(native) : j < k => native[j] < native[k]
  /\ \A i \in Executing : i <= sp

(* Why the two hold: between system calls the running script is the top of  *)
(* the stack, every other script inside Execute has been told to suspend,   *)
(* so that it never runs on when the push it is in returns, and the main    *)
(* loop is entered and left with no script inside Execute.                  *)
RunsOnTop       == pc = "script" => Running = sp /\ ~abortReq
OthersSuspended ==
  \A i \in Slots :
    ctx[i] = "active" =>
      susp[i] \/ (i = sp /\ pc \in {"script", "sysret", "corrupt"} /\ ~abortReq)
IdleOutside     == pc \in {"push", "calc", "game"} => native = <<>>
CalledFromStack == pc \in {"script", "sysret"} => native # <<>>

NestInv ==
  NestingMatchesStack /\ RunsOnTop /\ OthersSuspended /\ IdleOutside /\ CalledFromStack

Usable(i) == mod[i] # NoModule /\ ctx[i] \in {"prepared", "suspended", "active"}
Empty(i)  == mod[i] = NoModule /\ ctx[i] = "uninit"

(* While no abort is requested, the frames below the stack pointer hold a   *)
(* module and a context that can go on, and everything above it is empty:   *)
(* what pushExecModuleEntryPoint's "XXX assert asCtx state is               *)
(* uninitialized/unprepared" (schedule.cpp:408) and calcCtx rely on.        *)
StackShape ==
  ~abortReq => \A i \in Slots : (i < sp => Usable(i)) /\ (i > sp => Empty(i))

(* With the frame at the stack pointer, and no context about to be aborted:  *)
(* the invariant behind StackShape.                                          *)
StackInv ==
  ~abortReq =>
    /\ \A i \in Slots : (i < sp => Usable(i)) /\ (i > sp => Empty(i))
    /\ Usable(sp) \/ (sp = 0 /\ Empty(sp))
    /\ \A i \in Slots : ctx[i] # "uninit" => ~abrt[i]

(* Why the steps below keep what they promise, whatever is pushed or aborted *)
(* between them.  A script that is still pending has never run; a frame      *)
(* below the stack pointer has its module even while an abort is requested;  *)
(* what a failed push leaves above it awaits nothing; and a script that ran  *)
(* in this frame has used up the frame's time.                               *)
PendingPrepared == pending /\ ~abortReq => mod[sp] = NoModule \/ ctx[sp] = "prepared"
FilledBelow     == \A i \in Slots : i < sp => mod[i] # NoModule
NoAwaitAbove    ==
  \A i \in Slots : i > sp /\ mod[i] # NoModule => sched[i].req = NoKey /\ sched[i].tgt = NoKey
TimeUsedUp      == ran /\ pc \in {"enter", "script", "sysret"} => delta = 0

StepInv == PendingPrepared /\ FilledBelow /\ NoAwaitAbove /\ TimeUsedUp

(* An abort leaves no script, no module and no context that can run:        *)
(* abortStackImpl must never meet a context inside Execute, which Unprepare *)
(* would refuse ("assert not within AS execution", schedule.cpp:492).       *)
AbortClearsStack ==
  [][abortReq /\ ~abortReq' =>
       \A i \in Slots : mod'[i] = NoModule /\ ctx'[i] = "uninit"]_vars

(* deltaFrame60 is "always 0 after stackframe pop+resume" (schedule.cpp:237): *)
(* once a script ran in this frame, no input loses frame time any more, nor   *)
(* does a frame advance step.                                                 *)
TimeChargedOnce ==
  [][pc = "enter" /\ ran =>
       /\ \A i \in Slots : sched'[i].ttl = sched[i].ttl
       /\ bypass' = bypass /\ elapsed' = elapsed]_vars

(* The input a script has scheduled and not yet played is never replaced   *)
(* behind its back: not by a script pushed on top, nor by the payload that *)
(* script leaves.  tas.as:46 says that a script which interrupts another   *)
(* overwrites its timers, as the state is shared across all files; the     *)
(* code keeps it in each ModuleStackFrame (schedule.hpp:60), and hands on  *)
(* only what is to be played when nothing is (schedule.cpp:257).           *)
ScheduledInputKept ==
  [][\A i \in Slots :
       /\ i <= sp /\ sched[i].ttl > 0 /\ sched'[i].pad # sched[i].pad
       /\ mod'[i] = mod[i] /\ mod[i] # NoModule
       => pc = "script" /\ i = sp]_vars

(* Only a script that was never started is exempt from pauses               *)
(* (isBlockedFromScheduling lets a pending script through): the exemption   *)
(* may not reach a script that was already running.                         *)
PausedNotResumed ==
  [][\A i \in Slots :
       ctx[i] = "suspended" /\ ctx'[i] = "active" =>
         /\ Paused(DebugPause) /\ sched[i].debug => Stepping
         /\ ~(Paused(LoadingPause) /\ sched[i].loading)]_vars

(* A script that awaits a pause, or its end, goes on when that has come     *)
(* about, and the await is over then; an await of the very pause that       *)
(* blocks the script is over when the pause begins.                         *)
AwaitHonoured ==
  [][\A i \in Slots : mod'[i] = mod[i] /\ mod[i] # NoModule /\ pc # "script" =>
       /\ sched[i].req # NoKey /\ sched'[i].req = NoKey => sched[i].val = Paused(sched[i].req)
       /\ sched[i].tgt # NoKey /\ sched'[i].tgt = NoKey => sched[i].val = (sched[i].tgt \in targets)]_vars

(* In frame advance mode DebugPause is held whenever no step is outstanding *)
(* ("hold DebugPause by default, momentarily unpause", schedule.hpp:34).    *)
StepEndsPaused == frameAdv /\ bypass = 0 => Paused(DebugPause)

(* The scripts of module ScriptStack: the frames of the module stack, all   *)
(* of them lost once an abort is requested.                                 *)
ScriptFrames ==
  IF abortReq \/ mod[sp] = NoModule THEN <<>>
  ELSE [i \in 1 .. sp + 1 |->
          CASE ctx[i - 1] = "active"   -> "running"
            [] ctx[i - 1] = "prepared" -> "queued"
            [] OTHER                   -> "waiting"]

Stack == INSTANCE ScriptStack WITH frames <- ScriptFrames

(* The scheduler is a stack of cooperative scripts. *)
ImplementsScriptStack == Stack!Spec

(* "signal that queued ctx should be executed in main loop tas calc"        *)
(* (schedule.cpp:436): the signal is always consumed by calcCtx.            *)
QueuedGetsExecuted == pending ~> ~pending

(* A script that has been pushed and is on top of the stack is started.     *)
TopIsStarted ==
  \A i \in Slots : (sp = i /\ ctx[i] = "prepared") ~> (sp # i \/ ctx[i] # "prepared")

(* A script that waits for its input to be played is resumed, unless a pause *)
(* or another script comes in between.                                       *)
InputRunsOut ==
  \A i \in Slots :
    (sp = i /\ ctx[i] = "suspended" /\ sched[i].ttl > 0 /\ mod[i] # NoModule)
      ~> (\/ sp # i \/ ctx[i] # "suspended" \/ sched[i].ttl = 0
          \/ \E k \in Keys : Paused(k))
=============================================================================
