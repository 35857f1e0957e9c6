# A TLA+ verification of totk-lotuskit

totk-lotuskit is a mod that runs inside a game: it hooks the game's main loop,
executes AngelScript sent by a web frontend, plays and records controller
input, holds the game in pauses, and streams logs over a websocket. This
directory models the parts of it that keep state across frames or threads,
checks them with TLC and proves some of their properties with TLAPS. Paths
below are relative to `src/src/program/`, those of the web frontend to
`src/frontend/`.

## The system

Once per frame the hook on `procDraw_` (`main.cpp:153-181`) calls, on the
game's main thread, `WebSocket::calc`, `hotkey::calc`, `Playback::calc`,
`Record::calc` and several displays. Another hook runs when the controller is
polled (`main.cpp:125-147`). Further hooks run on whatever thread the game calls
them and may log.

| component | state it keeps | operations | talks to |
|---|---|---|---|
| script scheduler `script/schedule.cpp` | `moduleStack` (module, context, schedule state per frame), `moduleStackIndex`, `isPlaybackActive`, `isPlaybackBeginPending`, `isAbortReq`, elapsed time, frame advance | push by file, text or entry point; `calcCtx`; abort; pauses and awaits; frame time accounting | websocket and hotkeys push; Playback calls `calcCtx`; scripts push scripts from inside `Execute` |
| playback `tas/Playback.cpp` | the frame's `InputVector`s | `setCurrentInput`, awaits, frame advance, `applyCurrentInput` | scheduler, pauses, Record |
| pauses `util/pause.cpp` | the game's pause counts by name, frozen actors | request, release, query, freeze | scheduler, frame advance |
| recording `tas/Record.cpp` | current and accumulated input, accumulated time, format, file | `applyCurrentInput`, `calc`, begin, end, toggle | controller hook, file access, logger |
| transpiler `script/schedule.cpp:559-674` | none | nx-TAS text to `tas::input` calls | scheduler |
| websocket server `server/WebSocket.cpp` | sockets, `isWsEstablished`, debounce and notice counters, ring buffer with head and tail | listen and upgrade, close, enqueue, flush, receive and dispatch | every component that logs; `JsonDispatch` pushes scripts |
| hotkeys `script/hotkey.cpp` | slots with trigger, script and cooldown | bind, unbind, `setCooldown`, `calc` | reads the input `Record` keeps; pushes scripts |
| file access `util/fs.cpp`, `server/JsonDispatch.cpp` | none but the handles it leaves open | write, write in chunks, read, list | called by messages of the frontend and by scripts; answers through the logger |
| web frontend `index.html` | subscriptions by namespace, what each callback has accumulated | send scripts, save, upload, read and list files | the websocket, in both directions |
| code patches `util/patch.cpp` | the game's instructions, patchsets and their reverse files on the sd card | prepare at the start, install, revert | scripts; frame rate |
| frame rate `util/fps.cpp` | `fixedFPS` | `fixedFPS_set` | installs and reverts two patchsets |
| text writer `TextWriter.cpp` | draw lists and the frame heap of their nodes, `drawListLock`, toast slots | print, append a callback, toast, draw | hooks on several threads print, the renderer draws |
| actor watcher `ActorWatcher.hpp` | slots | | hooks on other threads |
| bindings, engine, main, displays, game structures, disassembler, tracing | none of their own that interacts | | |

What is hard here: scripts nest inside `Execute` calls of scripts and suspend
each other; an abort is requested deep inside a nest and processed a frame
later; every pause may be awaited by the script it blocks; one frame's time
must be charged once although several scripts run in it; hook threads fill the
log ring while the main thread empties it without a lock; a frame of the
frontend may arrive in pieces; the server blocks the whole game while it waits;
counters are unsigned and subtracted; hotkeys and recordings see an input that
was polled a frame before and has the scripts' input mixed into it; a script
begins, toggles and ends recordings in any order; answers to the frontend carry
no number and find their request by a namespace, while scripts sent in one frame
share one module; the power is cut while files are rewritten; a heap is emptied
under the lists that other threads append to. PROJECT.json lists each of these hazards
at its line.

## Modules

| module | models | composes |
|---|---|---|
| `Schedule` | `schedule.cpp` up to line 511, `Playback.cpp` except the injection, the bindings and pauses that touch them | |
| `ScheduleProperties` | its properties | `ScriptStack` as what it implements |
| `ScriptStack` | abstract: a stack of cooperative scripts | |
| `MCSchedule` | instances for TLC | |
| `WsFrame` | the header operators of `WebSocket.cpp:16-61` | |
| `SendQueue`, `MCSendQueue` | the ring buffer, `WebSocket.cpp:80-137, 178-231` | `WsFrame`; implements `LogStream` |
| `LogStream` | abstract: messages whole, once, in order | |
| `WebSocket`, `WebSocketProperties` | `listenAndWaitForFrontend`, `closeActiveSocket`, `calc` | |
| `WsReceive`, `WsReceiveProperties` | `recvNoblockAndProc` | implements `LogStream` from the client's side |
| `Record` | `Record.cpp`, `Record.hpp` | |
| `Transpile` | the conversion of nx-TAS text to a script, `schedule.cpp:559-674`, as operators | |
| `RecordProperties` | properties of both | `Record`, `Transpile`: a recording is transpiled back |
| `Hotkey` | `script/hotkey.cpp` | |
| `Controls` | one frame of `main.cpp`, with the injection of `Playback.cpp` | `Schedule`, `Hotkey`, `Record` |
| `ControlsProperties`, `MCControls` | its properties and instance | |
| `Files` | the requests of `index.html` with the code that serves them in `JsonDispatch.cpp`, `fs.cpp` and `Logger.cpp` | |
| `FilesProperties`, `MCFiles` | its properties and instance | |
| `Patch` | `util/patch.cpp`, `fixedFPS_set` of `util/fps.cpp`, their place in `main.cpp` | |
| `PatchProperties`, `MCPatch` | its properties and instance | |
| `TextWriter`, `MCTextWriter` | `TextWriter.cpp`, `toastf` | implements `FrameQueue` |
| `FrameQueue` | abstract: what was accepted is shown in the next frame, once, in order | |
| `ControlsProofs` (with the scheduler's), `SendQueueProofs`, `WebSocketProofs`, `WsReceiveProofs`, `RecordProofs`, `FilesProofs`, `PatchProofs`, `TextWriterProofs` | theorems | |

### Schedule

`pc` is where the main thread is: the host's batch of pushes (`push`, the work
of `WebSocket::calc` and `hotkey::calc`), `Playback::calc` (`calc`), the top of
`calcCtx` (`enter`), inside a script (`script`), back in a binding that has
pushed and executed at once (`sysret`), the rest of the frame (`game`).
`native` is the C++ stack of nested `calcCtx` calls: the slots whose contexts
are inside `Execute`. A context is its AngelScript status with the flags that
`Suspend` and `Abort` set and that the engine acts on when the call returns.
One action stands for each binding a script may call and for each way `Execute`
returns. Scripts are arbitrary: they may call any binding in `Calls` in any
order. What is abstracted: a pad payload is one of `Pads`; `elapsedPlayback60`
counts modulo `ElapsedMod`; `inputFPSMode` is the default 30fps; the game itself
only holds pauses other than DebugPause; a release of a pause that is not held
does nothing; the arguments that AngelScript leaves unset when a script omits
the defaulted `doImmediate` and `block` are any Booleans; a push beyond the last
slot writes behind the array, after which nothing is claimed (`corrupt`, the one
state in which the system stops, hence `CHECK_DEADLOCK FALSE` in `schedule_nest`).

### The websocket

In `SendQueue` the stores of `enqueueText` (zeroed remainder, header, payload,
head) become visible to the main thread one by one, in any order, and the flush is
a loop of read, send, dequeue. The ring is counted in cells of 8 bytes, the
alignment of frames; a header is its bytes. `HeadLast` says that the store of the
head becomes visible after the others of its message; nothing else is assumed of
their order. The code has no check for a full ring,
so the model assumes there is none (`CapacityAssumption`). Two variables are
history: `queued` is the sequence of the frames whose head has become visible and
that are not dequeued yet, with the cells they start in, and `backlog` counts the
cells of what was logged and not dequeued; nothing but the bound reads them.

`WebSocket` models one `calc` per frame and each blocking call of the server
loop as a step. Requests and responses are reduced to whether they are for the
websocket. `WsReceive` counts bytes: a frame is its form and its length, the
network delivers any prefix of what was sent. Frames have at least 14 bytes, as
the frontend's JSON does, apart from the closing frame. Once a Recv has found
less than it needs (`whole` is false), the client falls silent; a blocking Recv
may then wait forever, hence `CHECK_DEADLOCK FALSE`.

### Record and Transpile

One step per `calc`, begin, end or toggle; `applyCurrentInput` changes the input
between them any number of times. Lines are kept as the inputs they stand for,
with their durations in frames of 30fps, rounded down as the code does, and nx-TAS
lines with their labels. The file of a recording may not open (`refused`); the
recording begins all the same, as nobody looks. `written` is what the file behind
the handle holds: a chunk for a handle that is not open is lost. Recordings may be
begun over each other and ended where there is none.

`Transpile` is the loop over the lines of an nx-TAS file: what it accumulates,
when it emits a call and what it does when the buffer is full. A call takes one
unit of the buffer, so that every place at which it can fill up is tried.
`TranspiledInOrder` executes what `Record` wrote, with every limit.

### Hotkey and Controls

A slot of `Hotkey` has a trigger, a script and what remains of its cooldown. A
trigger is a set of buttons, which must match exactly, or a list of keys, all of
which must be pressed. `rest` and `early` are history: they say when a trigger
may fire again by what was set when it fired, wherever its slot is.

`Controls` puts the actions of `Schedule` into the order of a frame: scripts
sent by the frontend (which may come at any time, whatever is running), cooldown, buttons, keyboard, the main loop, the recording,
the poll of the pad, and the game's frame. The poll is external as to its
place; that it lies between two calls of `procDraw_` is all that is used. What
the poll leaves in `current` is what hotkeys and the recording see in the next
frame. `asked` and `shown` are history: how long a script asked for an input and
how long the game has seen it. All four ways of mixing the player's input with
the script's are in `Mixed`; the instance plays inputs that replace the
player's and inputs that leave it alone.

### Files

The frontend asks for a file or a directory by sending a script that logs the
answer; it saves a file by a message; it uploads a mod image in chunks. `Frame`
is what the mod makes of the messages that arrived: it handles saves and chunks
while it receives, and runs the scripts afterwards, of which there is one module
per frame. `Receive` is the handler of the frontend, which calls every callback
of the namespace. `owed` is history: the answers that would have been right
since the request was made. That a file still open for reading can be neither
opened for writing nor created is what `nn::fs` does, and external.

### Patch

A patchset is the sequence of its instructions, each with the address of its
record. At every start of the game `todo` holds the patchsets whose reverse file
is still to be brought up to date; `PrepareRecord` and `PrepareWord` are the
writes to it, of which a power cut (`Restart`) may lose any that were not flushed
(`synced`). Any call may fail: before the records are compared (`PrepareGivesUp`,
which may leave the file open), between them (`PrepareReturn`), and while a
patchset is applied (`ReadFails`). The game's code is loaded anew, with or without
other patches (`Loads`), and the hooks that are installed after the preparation
are in `Hooked`. `FixedFPS` is one call of `fixedFPS_set`, `PatchInstall` and
`PatchRevert` are those of scripts. The model takes it that no script runs before
the preparation has ended; the script `autorun.as` is queued before it
(`main.cpp:209`) and runs in the main loop, after it if the game's frames and the
hook that starts the mod are on one thread. History: `prepared`, `installed`,
`unsure`, `touched` and the code at the start, which the properties compare.

### TextWriter

`pc` and `job` are where each printing thread is, `draw`, `at` and `node` where the
renderer is. `Store` is what is done with the mutex just taken; a thread that finds
it taken, or finds the heap full, does nothing that is seen. `mem` is the heap's
memory with what earlier frames left in it, of which only the links matter. A
toast's node is an address in `Toasts`; which free one is taken makes no
difference. In the refinement of `FrameQueue` a list is what its head leads to,
and for lists that are already wiped what has been drawn of them; the frame is
shown when the last list is wiped. `owed` is history. The mutex is recursive
(`TextWriter.hpp`, `InitializeMutex`): a callback that prints while it is drawn
would be let in; no callback does. `PrimitiveDrawer.cpp` keeps lists of the same
kind.

## Runs

| run | instance | shows |
|---|---|---|
| `schedule_nest` | 3 slots, 4 names of which one does not build and one has no entry point, inputs of 3 half-frames against frames of 2, 1 host push per frame, pushes down to the last slot; modules are interchangeable (symmetry) | nesting, stack shape, one charge per frame, aborts, refinement of `ScriptStack` |
| `schedule_pause` | 2 slots, DebugPause and LoadingPause, one target, frame times 2 and 3, up to 4 half-frames of frame advance | pauses, awaits, exemptions, frame advance |
| `schedule_live` | 2 slots, 2 host pushes, no pauses or failures | queued scripts are started and inputs run out |
| `sendqueue` | 2 threads, 9 cells, frames of 1 and 2 cells, at most 4 cells logged and not yet flushed | no torn or reordered message, headers, delivery |
| `websocket` | the code's counts (30, 3); every socket call may fail | consistency of the connection, debounce, requests served |
| `wsreceive` | 2 frames in flight, every form, texts of 8 bytes | frames dispatched in order and in the end |
| `record` | 3 inputs, frames of 2 or 3 half-frames, 4 frames, files that open or do not | recordings say what was held; a file holds its recording; what is recorded as nx-TAS is played back in order |
| `controls` | 2 slots of the stack, 2 hotkey slots, a combination and a list of keys, inputs of 4 half-frames against frames of 2, recordings of 3 frames; modules are interchangeable (symmetry) | hotkeys fire once and rest; input is played in full whatever is started in between; a recording of a playing script lags one frame |
| `files` | one file and its directory, 2 requests, a short and a long text, uploads of 3 and 4 bytes in chunks of 2, 4 actions of the user, 1 lost connection | answers are right and arrive; an upload is whole |
| `patch` | 2 frame rates and a patchset that overlaps them, with a record of two words; 2 addresses, one of them hooked; 2 failing calls or power cuts | reverse files are current, reverts undo, the frame rate is the one set |
| `textwriter` | 2 threads and the renderer, 2 lists, a heap of 3, a text of size 2 and a callback of size 1, 2 toast slots, 3 toasts of 1 frame | refinement of `FrameQueue`; toasts are kept for their frames and go |
| `schedule_wedge` | | a divergence, below |

Why the bounds are enough. Three slots give a nest within a nest, and a frame one
and two below the popped one, which the scan of `tryDiscardLastModuleForPop` treats
differently; the theorems cover any depth. Frame
times of 2 and 3 against durations of 2 let an input end exactly and be
overrun; in `schedule_nest` an input of 3 against frames of 2 is interrupted with
time left, so that a second charge in the same frame, or a payload taken over
the one still being played, would show. Nine cells make a frame fit exactly, leave a remainder and wrap with
both frame sizes while another thread is half way through its stores; a ring of
another size repeats these cases. With texts of 8 bytes the rest of the payload
is empty, partial or all of it, by form. Four frames of recording allow an
input to be held, change, change back and be cut off by the end. In `controls`
an input lasts two frames, so that a hotkey can start a script in its middle,
and a cooldown of two frames outlasts the release and a second press of its
trigger (other cooldowns are a matter of `CooldownCorrect`); three frames of recording show the lag of one. In `files` four actions
of the user allow two requests with a save between them, two saves between a
request and its answer, or an upload that is cut off by the loss of the
connection and begun again; lengths 3 and 4 against chunks of 2 end in a chunk
that is whole and in the one byte that the loop leaves out. In `patch` one power
cut leaves a mixture that a second start must repair while a call fails; words of
the game, of another patch, of zeroes and of three patchsets meet at the address
that all of them patch. In `textwriter` three nodes make a thread walk past one,
a text and a callback fill the heap, a second text leaves a node without text,
and three toasts overflow two slots.

Fairness. The game renders frames, so the main loop's steps are weakly fair;
scripts' calls are not, but a script that runs is assumed to return in the end
(otherwise the game hangs). A thread that waits for the mutex gets it, and the
main loop reaches the flush in every frame whatever it logs in between, which
is strong fairness for `Lock` and `FlushBegin`. The frontend reconnects until it
is let in: strong fairness of `Upgrade`. Bytes that were sent arrive. The
frontend handles what it receives and opens its connection again after it was
lost. The renderer goes on with a frame it has begun (weak fairness of `Draws`)
and gets the mutex in the end however much is printed (strong fairness of
`DrawBegin`), and a thread that holds the mutex goes on to release it. Nothing is
assumed of users, scripts that push, or pauses. Two runs stop
because a bound does: `controls` at the last frame of a recording, `files` when
the user has done all, hence their `CHECK_DEADLOCK FALSE`.

Each property has a mutant: a deliberately faulty form of one definition, which
stands before it in the module and breaks the property.

## What is proved

For all values of the constants that satisfy the named assumptions, and no others
than those given here.

The scheduler (first part of `ControlsProofs`), for any depth, scripts, pauses and frame times:

- `TypeCorrect`: `TypeOK` of `Schedule`, with `TypeInv` adding that the native
  stack is not empty while a script runs or a binding returns to it.
- `NestingCorrect` and `RunningCorrect`, from `NestInv`. That the contexts
  inside `Execute` are those of the nested calls is not inductive: a script whose
  nested push returns could run on below the top. `NestInv` adds that every
  other script inside `Execute` has been told to suspend, that the running one is
  the top, and that the main loop is entered and left with an empty native stack.
- `StackShapeCorrect` and `AbortCorrect`, from `StackInv`, which adds the frame at
  the stack pointer, which may be empty only at the bottom, and that no context
  is about to be aborted unless an abort is requested; `AbortCorrect` also needs
  `NestInv`, for the native stack is empty when an abort is processed.
- The action properties `PauseCorrect`, `AwaitCorrect`, `TimeCorrect`
  and `InputCorrect`, each by cases over the steps under
  `SchedInv`: the invariants above with `StepInv`. What `StepInv` adds is what each
  of them turns on: a pending script has never run (`PendingPrepared`, so that
  its exemption from pauses resumes nobody), slots below the stack pointer have
  their modules even during an abort (`FilledBelow`), what a failed push leaves above
  it awaits nothing (`NoAwaitAbove`), and a script that ran in a frame has used up
  the frame's time (`TimeUsedUp`).
- `StepEndsCorrect`, inductive as it stands, if scripts leave DebugPause to the frame
  advance (`DebugPause \notin ScriptKeys`; one that releases it breaks the property)
  and a pause may be requested at all (`MaxPause > 0`).
- `RefinementCorrect`: every step of `Schedule` is one of `ScriptStack` or leaves
  its frames alone. A frame is what its context's status says; an abort empties
  the abstract stack when it is requested, a frame before it is processed, and what
  runs in between is a stutter, for which `StackInv` is needed.

The send queue (`SendQueueProofs`):

- `ReadBackCorrect`: header and frame size agree for every length, by cases over
  the three forms and division with remainder.
- `StreamCorrect`: `SendQueue` implements `LogStream`, for any number of threads,
  messages and cells, under two hypotheses: the head becomes visible after the message
  it announces (`HeadLast`), and the ring is never full (`CapacityAssumption`). The
  stores of header, payload and zeroes may become visible in any order. The first
  hypothesis is one the code needs and does not establish (see the divergences);
  with `HeadLast` false TLC finds a torn message, so it cannot be dropped. The invariant `SendInv` says that the
  queued frames are a chain from tail to head, wrapped at most once; that where it
  wraps there is a null frame, and a message that did not fit there; that each of
  them is whole; that `backlog` is the length of the chain with what is still to be
  enqueued; and which of its stores the thread that holds the mutex has still to make
  visible.
  That a message did not fit bounds the wrap from below, and with the bound of the
  backlog the room before the tail: no store touches a cell the flush still has to
  read. The sum over the threads is one over a fold of the community modules, for
  which the lemmas are proved here.

The receiver (`WsReceiveProofs`):

- `DispatchCorrect`: `WsReceive` is in step with `LogStream` from the client's side as long
  as every Recv finds all of the frame it reads, for any number of frames on their
  way and payloads of any length from 8 bytes (`PayloadAssumption`: the JSON of
  the frontend is that long, so that a header and 14 bytes never reach into the next
  frame). The invariant `InStep` says that the mod is then at the beginning of a
  frame, or 14 bytes into the one it has read the header of; that no more has arrived
  than was sent; and that nothing follows the close, which is why a close in front
  means that less than 14 bytes are there.

The controls (the rest of `ControlsProofs`), over three components and any number of frames:

- `UniqueTriggerCorrect` and `CooldownCorrect`, from `HotkeyInv`, for every step of
  the controls, any number of slots, any triggers and cooldowns. That a trigger
  rests is a property of its history; `CooldownInSlot` ties the history to the
  slot that holds the trigger, which is only possible because there is one at
  most, and because a slot is freed with its cooldown.
- `PlayedInFullCorrect`, from `InputInv` with the invariants of the scheduler: what a
  script has shown of its input when its time runs out is what it asked for, less than a
  frame more. It takes facts about the whole frame: scripts in these steps never
  nest (`Alone`) and hold no pause (`NoHolds`); what is pending was pushed in this
  frame (`PendingIsNew`); a script that runs has used up the frame's time
  (`FrameTimeLeft`); when nothing plays any more, no input is left
  (`IdleHasPlayed`); and in between what was shown of each slot is what was charged to it,
  with the frame that was rendered and comes to be charged next (`ShownIsCharged`). The
  hypothesis is that the game does not load: while it does, a script is held and
  its input goes on being shown (`schedule_pause` has that pause).
- `RecordingLagsCorrect`, from `TapeInv` on top of it: what a script that plays alone
  at 30fps has recorded of itself is, played again (`Replayed`), what it was told to
  play, one frame late and none of it a frame longer (`InStep`). That what was
  recorded lasts whole frames, so that rounding takes nothing, is part of the
  invariant (`WholeFrames`). That takes which frame is charged and which is recorded at each place
  in the main loop (`Current`, `Placed`), that a script suspends itself when it has scheduled an
  input and only then (`SuspendsToPlay`), and that one which plays alone has
  input left whenever it does not run (`SoloPlays`). Beside not loading, the hypothesis is
  that inputs last whole frames: of an odd number of half-frames the last is played for
  a whole frame, and recorded as one.

The files (`FilesProofs`), for any files, contents, namespaces, requests, lengths and
chunks, any number of messages per frame and of lost connections. Of the constants it
takes `FileAssumption`, with a finite set of files, so that a directory can be listed,
and `UploadAssumption`:

- `UploadCorrect`, from `Uploading`: what a frame does is a fold over the messages that
  have arrived, so the invariant is about the messages on their way. For each closing
  message among them, the pieces of its upload stand before it, or the first of them
  have arrived and the image has grown by just these (`Due`, `Held`). A loss of the connection takes messages from the end only,
  which leaves it true; the next upload begins by emptying the file.
- `ReadYourWritesCorrect`, from `FollowType`, as long as a namespace is none of the
  exceptions (`spoiled`): `Following` says that in each namespace nobody waits and
  nothing is on its way (`Quiet`), or one callback waits and either its script is on
  its way (`Sent`) or what the script has logged is, of which the first texts have
  been accumulated (`Coming`). For `Sent` it says that the answer is right however many
  of the messages behind the script arrive in the same frame with it, for they are saved
  before the script runs. `Subscribed` says that whoever is subscribed waits in that
  namespace, once, although `forEach` keeps every second one.

The text writer (`TextWriterProofs`), for any number of threads, slots, lists and
nodes:

- `ToastCorrect`, from `ToastInv`: a toast in a slot is alive, in no other slot and owed
  as many frames as it has left; a toast for which a thread still seeks a slot is in
  none, and no other thread seeks one for it.
- `FrameQueueCorrect`, from `ListInv`: the safety part of `FrameQueue`
  (`Queue!Safety`). The lists are disjoint chains of nodes that were allocated one
  after the other below the mark of the frame heap; the node to append is the last
  allocated and in none of them; a thread that walks is at a node of its
  list, and the renderer where it has drawn what stood before. That the walk of `Chain`
  is the sequence of that path is a lemma about a recursive function.

The other components:

- `ConnectionCorrect`, from `ServerInv`: that an established connection has an
  open client and a bound server is not inductive, for the flag is set long after
  the sockets. `ServerInv` adds what holds at each call of
  `listenAndWaitForFrontend`, and that a server socket, once bound, holds the
  port. It is needed for every count of frames and every set of failing calls.
- `DebounceCorrect`, from `CountInv`: the notice and the debounce are counted down
  together, so that the frames since the last toggle make up for what has been
  counted. It assumes only that the notice is shorter than the debounce and
  longer than a frame.
- `FileHoldsCorrect`, without hypotheses: `FileHoldsRecording` is inductive with the types.
  A recording that is begun over another, or ended where there is none, neither adds
  to a file that is closed nor leaves an open one short.
- `NxLabelsCorrect`, from `NxInv`: the lines that were emitted and the time that is
  accumulated make up the recording, and in every frame without a line the
  accumulated pad was held.
- `HeldCorrect`: `RecordsWhatWasHeld` says that what was emitted is what was held, each
  run of equal inputs rounded down to frames of 30fps, and that the one under way is
  accumulated exactly. `HeldInv` adds that only a recording that has begun has time
  accumulated, and `HeldTyped` that a recording without a frame has emitted nothing.
  What was held is folded into runs by a recursive function, of which the proof needs
  one step (`RunsNext`).
- `TranspiledCorrect`, for any recording and every size of the script buffer. The loop over
  the lines is a fold, which goes in step with the count of the runs of equal lines
  (`Collects`): what it has accumulated is the run it is in, and the calls
  it has written are the runs before, as many as fit. Nothing is needed of the
  recording but that its lines hold pads; how they came about is the matter of the
  two theorems above.
- `CacheCorrect` and `RevertCorrect`, from `PatchInv`, over `PatchTypeCorrect`: that
  a prepared reverse file holds the loaded code is not inductive without saying,
  for the file being prepared, which part is already up to date, and that the code
  is not patched before preparation has ended; that reverts undo needs, in the
  middle of a revert, that what it has passed is as it was. They hold for any
  patchsets, overlaps, hooks, number of failures and power cuts.
- `FpsCorrect`, from `FpsInv`: between two changes of the frame rate the code is as
  `fixedFPS` says; during one, the records before the current one are as the new
  rate has them. It uses that the two patchsets touch the same addresses, each once
  (`FpsAssumption`), as the files in the repository do.

Eight results are about recursive functions: the project's own `Runs` and `HalfFrames`
(`HeldCorrect`, `RecordingLagsCorrect`), the sum of a function (`StreamCorrect`) and the
folds over frames, lines and messages (`DispatchCorrect`, `TranspiledCorrect`,
`UploadCorrect`, `ReadYourWritesCorrect`) of the community modules, and `Chain` (`FrameQueueCorrect`). The induction theorems
of the library cannot be used here; the lemmas take a least counterexample instead, by
the well-foundedness of the order of the natural numbers.

Only model-checked: all liveness, and with it the fairness of `FrameQueue`, so that
`textwriter` checks `ImplementsFrameQueue` and the theorem states its safety part.
Every other property that the passing runs check is the statement of a theorem.

## Divergences

Kept as a run, with the line quoted in PROJECT.json: a push between an abort
request and its processing leaves the scheduler aborting in every frame
(`schedule_wedge`).

Seen while modelling and not kept as runs.

In the scheduler: the module of the frame just below a popped one is discarded
while still in use, for the scan stops one short (`schedule.cpp:469`, against "only
proceed to discard unused modules" in the line before, "reuse any existing module by
name during a single script execution", `schedule.cpp:444`, and "built once per script
run", `tas.as:43`); `StillInUse` is modelled as it stands, and no property is stated
of it; a script that yields is not resumed unless something else is
played (`Playback.cpp:19`, while `sys.as:18` offers `suspendCtx`); a module
without its entry point, or pushed while an abort is requested, stays registered, so
that later runs under its name get its text (`schedule.cpp:407`, against `tas.as:43`); of two scripts queued during a pause the lower one is never
started (`Playback.cpp:19`); a script pushed during DebugPause uses up the input
time of the one below (`schedule.cpp:78`); a script executed inline that
finishes at once aborts the stack (`schedule.cpp:268`); when two scripts are
pushed in one frame on top of one that plays input, that frame's time is not
charged to it and its input is seen a frame longer (`schedule.cpp:151`, the
exception in `InputPlayedInFull`).

In the recording: an nx-TAS recording that is ended labels the frames of its last
input one too low, and one ended in its first input emits none of its frames
(`Record.cpp:164`, against "one line per frame, un-accumulated" in the next line; the
reason why `NxLabelsRight` speaks of active recordings); an input held for an odd
number of half-frames is emitted a half-frame short (`Record.cpp:130`, as `tas.as:66`
says), so that a recording at 20fps may lose time with every line; whether the file
could be opened is not looked at (`fs.cpp:99`; that its directory must exist is in the
`README.md:30` of the repository), and the recording goes on with its chunks lost
(`refused`, the exception in `FileHoldsRecording`); `endDump` without a recording, which
the page's button may cause (`index.html:1053`), writes its footer to a handle that is
closed (`Record.cpp:104`); one begun over another leaves the other's handle open.

In the transpiler: a call lasts one frame longer than its input was held, for
the line that ends it is counted too (the reason for the inequality in
`TranspiledInOrder`; `tas.as:34` calls the format frame-per-line); the
closing text is appended without asking for room (`schedule.cpp:672`).

In the server: the flush reads the ring without the mutex, which is right only
while the head becomes visible after the message it announces (`HeadLast`). Nothing
asks for that: neither the store of the head (`WebSocket.cpp:119`) nor its reading
(`WebSocket.cpp:180`) is atomic or ordered. A host that keeps stores in order, as an emulator's
does, gives it; the console's aarch64 does not have to, and then the flush may take old
bytes of the ring for a header. With `HeadLast` false, `sendqueue` ends in a torn
message. Further,
a payload of 65535 bytes gets the large header (`WebSocket.cpp:26`); asking to
listen while connected shows "serving" and closes (`WebSocket.cpp:485`), and a script that
asks a second time before the server is started thereby closes the connection it
gets; a
failed accept leaves the port bound for good (`WebSocket.cpp:334`, reached in
`websocket` as the guard of `BindFails`); the blocking receive may return less
than the payload (`WebSocket.cpp:268`, the reason for `whole` in `WsReceive`).

In the patches: the words of a record are all written to, and saved from, its first
address (`patch.cpp:119, 200`; the patchsets that come with the mod have records of
one word); a preparation that gives up leaves its files open (`patch.cpp:34-64`), after
which the reverse file cannot be read; a revert uses a reverse file whatever became
of its preparation, and takes away hooks installed after it (`main.cpp:224`); that a
patchset could not be applied is not reported, and `fixedFPS` says that it was.

In the text writer: a toast is in its slot before it has its text
(`TextWriter.hpp:79`), and with a `ttlFrames` that is very short it may be freed
before; a toast that finds no slot is not freed (`TextWriter.cpp:133`).

Where notes of the repository's authors and the runs disagree, or agree only in part:

- `tas.as:46` (FIXME) says that waits and inputs that interrupt others, as hotkeys do,
  "overwrite those timers/flags/etc, as this state is currently shared across all
  files". The code at hand keeps them for each frame of the stack
  (`ModuleStackFrame::state`, `schedule.hpp:60`), and a push resets those of the new
  frame only (`schedule.cpp:398, 403`). `ScheduledInputKept` and `InputPlayedInFull` say
  that input interrupted by scripts, by hotkeys and by the frontend is neither replaced
  nor shortened, and they hold, in the runs and as theorems; so the note seems to
  describe an earlier state of the code. What is left of it is the case of two scripts pushed in
  one frame, given above, in which the time of the frame below is charged to the one
  on top.
- `main.cpp:143` (FIXME) suspects, and `README.md:27` of the repository reports, that
  input recorded during playback is late and a frame longer for each input. The lag
  is there: `RecordingLagsOneFrame` says that it is exactly one frame. That inputs
  become longer it excludes for a script that plays alone at a steady 30fps, recorded
  as `tas::input` calls, with what was recorded played again. Outside of that there
  are two places in this code where an input does grow: at 20fps it is shown up to
  the end of its last frame (two frames asked for, four half-frames, are shown for six and
  recorded as three), and an nx-TAS recording that is executed holds each input a
  frame longer (`schedule.cpp:627`, the inequality in `TranspiledInOrder`). Either may
  be what was observed; what other causes it may have in the game, no module can say.

Between the frontend and the files: of several scripts that arrive in one frame
all run the text of the first; `forEach` over subscriptions that unsubscribe
themselves skips every other one (`index.html:78, 101`); a second request in a
namespace that waits already gets its text twice, or part of it; files of one name
in different directories, or with different extensions, share a namespace
(`index.html:152`); reading a file that is too long leaves it open, after which it
cannot be saved and nobody is told (`fs.cpp:47`); the upload leaves out the last
byte of an image whose length is one more than a multiple of the chunk
(`index.html:1103`). These are the exceptions of `ReadYourWrites`, `Answered` and
`UploadWhole`.

## Not modelled, and the plan

Not modelled because it has no protocol or is not in the repository: drawing,
disassembler, tracing, measuring of frame rates, access to game structures, the AngelScript
engine, the decoding of JSON. The JavaScript modules under
`frontend/assets` are lists of names, hashes and actors that the frontend searches,
a table of translations with one lookup, and copies of third-party libraries:
they have no state and no step, so nothing in them is modelled, although
they are most of the repository's lines. In `Patch` a file of patches is the same at
every start of the game: that one is replaced between two starts, and the resizing of
its reverse file that this leads to (`patch.cpp:50-53`), is left out. Of the frontend, the page `index.html`
keeps state and is in `Files`, apart from its editors, its timers for
reconnecting and its display. In `Controls` the gyro, which is mixed as the
sticks are, is left out.

Next, in this order:

1. Freezing and thawing of actors by pauses, and the display of pauses.
2. `ActorWatcher` with the threads of its hooks: slots that are selected on one
   thread and read on another.
3. A composition of `Files` with `SendQueue` and `WsReceive`, in place of the two
   queues of `Files`.

TLC's runs and TLAPS's theorems share every definition: no configuration
replaces one.
