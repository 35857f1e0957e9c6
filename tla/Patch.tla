-------------------------------- MODULE Patch --------------------------------
(***************************************************************************)
(* Patches of the game's code that scripts install and revert at runtime    *)
(* (util/patch.cpp), and the fixed frame rate that is made of two of them   *)
(* (util/fps.cpp).  A patchset has a file with the new instructions (ips)   *)
(* and, next to it, one with those to go back to (rips).  The second is     *)
(* brought up to date at every start of the game, between the installation  *)
(* of two groups of hooks (main.cpp:221-225).  The files outlive the game;  *)
(* the game's code is loaded again.                                         *)
(*                                                                          *)
(* A file is the sequence of its instructions, each with the address of its *)
(* record: ApplyPatchImpl and PrepareRevertPatchImpl take that address for  *)
(* every instruction of a record.                                           *)
(*                                                                          *)
(* Trusting, CutShort and OldRate are deliberately faulty forms of the       *)
(* definitions that follow them.                                            *)
(***************************************************************************)
EXTENDS Integers, Sequences

CONSTANTS
  Addr, Inst,      \* addresses of the game's code, and instructions
  Zero,            \* the instruction that is four bytes of zeroes
  Sets, Ips,       \* patchsets, and their files
  Fps20, Fps30,    \* "lotuskit-fixed-20fps", "lotuskit-fixed-30fps"
  Loads,           \* code as loaded, with or without exefs_patches and earlier hooks
  Hooked, Hook,    \* addresses of the hooks installed afterwards; what a hook puts there
  Absent, NoFile,  \* a record of a new file, all zeroes; a missing file
  MaxFaults        \* bound: calls that fail and power cuts

ASSUME InstAssumption == {Zero, Hook} \subseteq Inst /\ Absent \notin Inst
ASSUME LoadAssumption == Loads \subseteq [Addr -> Inst] /\ Hooked \subseteq Addr
ASSUME IpsAssumption  == Ips \in [Sets -> Seq([at : Addr, word : Inst])]
ASSUME BoundAssumption == MaxFaults \in Nat

Words(s) == 1 .. Len(Ips[s])
At(s, k) == Ips[s][k].at
Area(s)  == {At(s, k) : k \in Words(s)}
FpsArea  == Area(Fps20) \cup Area(Fps30)

File(s)  == [Words(s) -> Inst \cup {Absent}]    \* what a reverse file may hold

ASSUME FileAssumption == \A s \in Sets : NoFile \notin File(s)

(* What fps.cpp relies on ("assert it can revert 20fps too"), and that the   *)
(* two patchsets are as build.py writes them.                                *)
ASSUME FpsAssumption ==
  /\ {Fps20, Fps30} \subseteq Sets /\ Area(Fps20) = Area(Fps30)
  /\ FpsArea \cap Hooked = {}
  /\ \A s \in {Fps20, Fps30} : \A j, k \in Words(s) : At(s, j) = At(s, k) => j = k

VARIABLES
  phase,       \* "boot" or "running"
  code,        \* the game's instructions
  ips,         \* patchsets on the sd card
  rips,        \* their reverse files
  todo,        \* patchsets that PrepareRevertPatches has still to visit
  held,        \* those whose reverse file was left open for writing
  op, set, pos,\* the loop that runs, its patchset and the instruction it is at
  synced,      \* the reverse file as it was last flushed
  fps,         \* the frame rate that is being set, or -1
  fixedFPS,
  loaded, booted,   \* history: the code when preparation and initialisation ended
  prepared,         \* history: patchsets prepared to the end since the start
  installed,        \* history: patchsets installed and not reverted to the end
  unsure,           \* history: patchsets reverted without having been prepared
  touched,          \* history: fixed frame rates were patched by hand or incompletely
  faults            \* bounded by MaxFaults

disk == <<ips, rips, synced, held>>
loop == <<op, set, pos, fps>>
past == <<loaded, booted, prepared, installed, unsure, touched>>
vars == <<phase, code, disk, todo, loop, fixedFPS, past, faults>>

-----------------------------------------------------------------------------
Init ==
  /\ ips \in SUBSET Sets
  /\ rips = [s \in Sets |-> NoFile] /\ synced = NoFile
  /\ code \in Loads /\ loaded = code /\ booted = code
  /\ phase = "boot" /\ todo = ips /\ held = {}
  /\ op = "none" /\ set = Fps20 /\ pos = 1 /\ fps = -1 /\ fixedFPS = 0
  /\ prepared = {} /\ installed = {} /\ unsure = {} /\ touched = FALSE /\ faults = 0

(* The user adds a patchset to the sd card.                                  *)
AddPatchset(s) ==
  /\ op = "none" /\ todo = {} /\ s \notin ips
  /\ ips' = ips \cup {s}
  /\ UNCHANGED <<phase, code, rips, synced, held, todo, loop, fixedFPS, past, faults>>

(* The console is switched off at any point and started again: of what was   *)
(* written and not flushed, anything may be lost.                            *)
Surviving(s) ==
  IF synced = NoFile THEN {NoFile, rips[s]}
  ELSE {f \in File(s) :
          \A k \in Words(s) : f[k] \in {rips[s][k], synced[k]}}

Fault == faults < MaxFaults /\ faults' = faults + 1

Idle == op' = "none" /\ set' = Fps20 /\ pos' = 1 /\ fps' = -1

Restart ==
  /\ ips' = ips /\ synced' = NoFile
  /\ IF op = "prepare"
     THEN Fault /\ \E f \in Surviving(set) : rips' = [rips EXCEPT ![set] = f]
     ELSE UNCHANGED <<rips, faults>>
  /\ code' \in Loads /\ loaded' = code' /\ booted' = code'
  /\ phase' = "boot" /\ todo' = ips /\ held' = {}
  /\ Idle /\ fixedFPS' = 0
  /\ prepared' = {} /\ installed' = {} /\ unsure' = {} /\ touched' = FALSE

-----------------------------------------------------------------------------
(* PrepareRevertPatchImpl, for each directory in turn *)
Blank(s) == [k \in Words(s) |-> Absent]

PrepareBegin(s) ==
  /\ phase = "boot" /\ op = "none" /\ s \in todo
  /\ todo' = todo \ {s}
  /\ op' = "prepare" /\ set' = s /\ pos' = 1
  /\ synced' = rips[s]
  /\ rips' = IF rips[s] = NoFile THEN [rips EXCEPT ![s] = Blank(s)] ELSE rips
  /\ UNCHANGED <<phase, code, ips, held, fps, fixedFPS, past, faults>>

(* A call fails before the records are compared: the file may exist now, and *)
(* the returns after it was opened leave it open.                            *)
PrepareGivesUp(s) ==
  /\ phase = "boot" /\ op = "none" /\ s \in todo
  /\ todo' = todo \ {s}
  /\ rips' \in {rips, [rips EXCEPT ![s] = IF @ = NoFile THEN Blank(s) ELSE @]}
  /\ held' \in {held, held \cup {s}}
  /\ s \in held' => rips'[s] # NoFile
  /\ Fault
  /\ UNCHANGED <<phase, code, ips, synced, loop, fixedFPS, past>>

(* The address and the size of a record are written before its payload, for  *)
(* which a new file has zeroes.                                              *)
PrepareRecord ==
  /\ op = "prepare" /\ pos \in Words(set) /\ rips[set][pos] = Absent
  /\ rips' = [rips EXCEPT ![set] =
       [k \in Words(set) |-> IF @[k] = Absent /\ At(set, k) = At(set, pos) THEN Zero ELSE @[k]]]
  /\ UNCHANGED <<phase, code, ips, synced, held, todo, loop, fixedFPS, past, faults>>

Trusting(old, inst) == IF old = Zero THEN inst ELSE old
Compared(old, inst) == inst

PrepareWord ==
  /\ op = "prepare" /\ pos \in Words(set) /\ rips[set][pos] # Absent
  /\ rips' = [rips EXCEPT ![set] =
       [k \in Words(set) |-> IF k = pos THEN Compared(@[k], code[At(set, k)]) ELSE @[k]]]
  /\ pos' = pos + 1
  /\ UNCHANGED <<phase, code, ips, synced, held, todo, op, set, fps, fixedFPS, past, faults>>

(* RETURN: flush and close, after the last record or when a call fails.      *)
PrepareReturn ==
  /\ op = "prepare"
  /\ Idle /\ synced' = NoFile
  /\ IF pos \in Words(set) THEN Fault /\ UNCHANGED prepared
     ELSE prepared' = prepared \cup {set} /\ UNCHANGED faults
  /\ UNCHANGED <<phase, code, ips, rips, held, todo, fixedFPS,
                 loaded, booted, installed, unsure, touched>>

(* player::InstallHooks and world::InstallHooks; the main loop starts.       *)
InstallHooks ==
  /\ phase = "boot" /\ op = "none" /\ todo = {}
  /\ phase' = "running"
  /\ code' = [a \in Addr |-> IF a \in Hooked THEN Hook ELSE code[a]]
  /\ booted' = code'
  /\ UNCHANGED <<disk, todo, loop, fixedFPS, loaded, prepared, installed, unsure, touched, faults>>

-----------------------------------------------------------------------------
(* ApplyPatchImpl: a reverse file that was left open for writing cannot be   *)
(* opened again.                                                             *)
Opens(o, s) == IF o = "install" THEN s \in ips ELSE rips[s] # NoFile /\ s \notin held

ByHand(s, v) == v = -1 /\ Area(s) \cap FpsArea # {}

Apply(o, s, v) ==
  /\ phase = "running" /\ op = "none"
  /\ IF Opens(o, s)
     THEN /\ op' = o /\ set' = s /\ pos' = 1 /\ fps' = v
          /\ installed' = IF o = "install" THEN installed \cup {s} ELSE installed
          /\ unsure' = IF o = "revert" /\ s \notin prepared THEN unsure \cup {s} ELSE unsure
          /\ touched' = (touched \/ ByHand(s, v))
          /\ UNCHANGED fixedFPS
     ELSE /\ fixedFPS' = IF v = -1 THEN fixedFPS ELSE v
          /\ touched' = (touched \/ v # -1)
          /\ UNCHANGED <<loop, installed, unsure>>
  /\ UNCHANGED <<phase, code, disk, todo, loaded, booted, prepared, faults>>

PatchInstall(s) == Apply("install", s, -1)
PatchRevert(s)  == Apply("revert", s, -1)

(* fixedFPS_set; any other rate is ignored.                                  *)
FixedFPS(v) ==
  /\ v # fixedFPS
  /\ \/ v = 0  /\ Apply("revert", Fps30, v)
     \/ v = 20 /\ Apply("install", Fps20, v)
     \/ v = 30 /\ Apply("install", Fps30, v)

Applying == op \in {"install", "revert"}
Word == IF op = "install" THEN Ips[set][pos].word ELSE rips[set][pos]

(* A record of zeroes has no payload.                                        *)
WriteInst ==
  /\ Applying /\ pos \in Words(set)
  /\ code' = IF Word = Absent THEN code ELSE [code EXCEPT ![At(set, pos)] = Word]
  /\ pos' = pos + 1
  /\ UNCHANGED <<phase, disk, todo, op, set, fps, fixedFPS, past, faults>>

(* The end of the file, or a read that fails: the caller is not told, and    *)
(* fixedFPS_set takes note of the rate.                                      *)
CutShort == Applying
AtEOF    == Applying /\ pos \notin Words(set)

OldRate == fixedFPS
NewRate == IF fps = -1 THEN fixedFPS ELSE fps

Returned ==
  /\ Idle
  /\ fixedFPS' = NewRate
  /\ UNCHANGED <<phase, code, disk, todo, loaded, booted, prepared, unsure>>

ApplyReturn ==
  /\ AtEOF
  /\ installed' = IF op = "revert" THEN installed \ {set} ELSE installed
  /\ UNCHANGED <<touched, faults>>
  /\ Returned

ReadFails ==
  /\ Applying /\ pos \in Words(set)
  /\ touched' = (touched \/ fps # -1)
  /\ UNCHANGED installed
  /\ Fault
  /\ Returned

-----------------------------------------------------------------------------
Next ==
  \/ \E s \in Sets : AddPatchset(s) \/ PrepareBegin(s) \/ PrepareGivesUp(s)
                     \/ PatchInstall(s) \/ PatchRevert(s)
  \/ PrepareRecord \/ PrepareWord \/ PrepareReturn \/ InstallHooks
  \/ \E v \in {0, 20, 30} : FixedFPS(v)
  \/ WriteInst \/ ApplyReturn \/ ReadFails
  \/ Restart

Spec == Init /\ [][Next]_vars
=============================================================================
