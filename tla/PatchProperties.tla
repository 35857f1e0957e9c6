--------------------------- MODULE PatchProperties ---------------------------
(* Properties of the patches of module Patch.                                *)
EXTENDS Patch

RipsOK ==
  rips = [s \in Sets |-> rips[s]] /\ \A s \in Sets : rips[s] \in File(s) \cup {NoFile}

TypeOK ==
  /\ phase \in {"boot", "running"}
  /\ code \in [Addr -> Inst] /\ loaded \in [Addr -> Inst] /\ booted \in [Addr -> Inst]
  /\ ips \subseteq Sets /\ todo \subseteq Sets /\ held \subseteq Sets
  /\ RipsOK
  /\ op = "prepare" => rips[set] # NoFile /\ synced \in File(set) \cup {NoFile}
  /\ op = "revert" => rips[set] # NoFile
  /\ op \in {"none", "prepare", "install", "revert"} /\ set \in Sets /\ pos \in Nat \ {0}
  /\ fps \in {-1, 0, 20, 30} /\ fixedFPS \in {0, 20, 30}
  /\ prepared \subseteq Sets /\ installed \subseteq Sets /\ unsure \subseteq Sets
  /\ touched \in BOOLEAN /\ faults \in Nat

(* Once a patchset has been prepared, its reverse file holds the code the     *)
(* game was loaded with this time, whatever other code, a failed write or a   *)
(* power cut had left in it ("regenerated at bootup as needed",               *)
(* runtime_patches/README.md).                                                *)
CacheIsCurrent ==
  \A s \in prepared : rips[s] = [k \in Words(s) |-> loaded[At(s, k)]]

(* Code differs from what it was when the game had started only where a       *)
(* patchset is installed, however patchsets overlap, are installed twice or   *)
(* reverted in any order ("reversable ips patching", util/patch.hpp).  Not so *)
(* where a patchset was reverted whose preparation had failed or which came   *)
(* later, and at the hooks installed after preparation, which a revert takes  *)
(* away.                                                                      *)
OnlyInstalledChanged ==
  phase = "running" => \A a \in Addr \ Hooked :
    code[a] # booted[a] => \E s \in installed \cup unsure : a \in Area(s)

(* The invariant behind the two: during preparation the game's code is what    *)
(* it was loaded as; the part of a reverse file before pos is up to date;      *)
(* the patchset that is being installed counts as installed, and what a        *)
(* revert has gone through is as it was.                                       *)
PatchInv ==
  /\ phase = "boot" =>
       code = loaded /\ booted = loaded /\ op \in {"none", "prepare"}
  /\ phase = "running" => op # "prepare"
  /\ CacheIsCurrent
  /\ op = "prepare" => \A k \in Words(set) : k < pos => rips[set][k] = loaded[At(set, k)]
  /\ \A a \in Addr \ Hooked : booted[a] = loaded[a]
  /\ OnlyInstalledChanged
  /\ op = "install" => set \in installed
  /\ op = "revert" =>
       /\ set \in prepared \cup unsure
       /\ set \in prepared => \A k \in Words(set) :
            k < pos /\ At(set, k) \notin Hooked => code[At(set, k)] = booted[At(set, k)]

(* The code that times frames is what fixedFPS says, although going back to   *)
(* the game's own only reverts one of the two patchsets, unless a script has  *)
(* installed or reverted one of them, or one like them, itself, or a file     *)
(* could not be read.                                                         *)
RecordAt(s, a) == CHOOSE k \in Words(s) : At(s, k) = a

RateAt(v, a) ==
  CASE v = 0  -> booted[a]
    [] v = 20 -> Ips[Fps20][RecordAt(Fps20, a)].word
    [] OTHER  -> Ips[Fps30][RecordAt(Fps30, a)].word

FpsAsSet ==
  phase = "running" /\ op = "none" /\ ~touched /\ Fps30 \in prepared =>
    \A a \in FpsArea : code[a] = RateAt(fixedFPS, a)

(* The invariant behind it: while fixedFPS_set patches, the part of the        *)
(* patchset before pos is as the new rate has it; at any other time, what      *)
(* scripts install or revert is somewhere else.                                *)
FpsChange ==
  <<op, set, fps>> \in
    {<<"revert", Fps30, 0>>, <<"install", Fps20, 20>>, <<"install", Fps30, 30>>}

FpsInv ==
  /\ phase = "boot" => fixedFPS = 0
  /\ op = "none" => fps = -1
  /\ phase = "running" /\ ~touched /\ Fps30 \in prepared =>
       IF fps = -1
       THEN /\ op # "none" => Area(set) \cap FpsArea = {}
            /\ \A a \in FpsArea : code[a] = RateAt(fixedFPS, a)
       ELSE /\ FpsChange
            /\ \A k \in Words(set) : k < pos => code[At(set, k)] = RateAt(fps, At(set, k))
=============================================================================
