----------------------------- MODULE PatchProofs -----------------------------
(* Proofs about the patches, for any files, any overlap of patchsets, any     *)
(* number of failures and of starts of the game.                              *)
EXTENDS PatchProperties, SequenceTheorems, TLAPS

(* Addresses and instructions of a file. *)
LEMMA RecordType ==
  ASSUME NEW s \in Sets, NEW k \in Words(s)
  PROVE  At(s, k) \in Addr /\ Ips[s][k].word \in Inst /\ At(s, k) \in Area(s)
<1>1. Ips[s] \in Seq([at : Addr, word : Inst])
  BY IpsAssumption
<1>2. Ips[s][k] \in [at : Addr, word : Inst]
  BY <1>1, ElementOfSeq DEF Words
<1>. QED  BY <1>2 DEF At, Area

(* The two frame rates are patch sets of the program. *)
LEMMA FpsType == Fps20 \in Sets /\ Fps30 \in Sets
BY FpsAssumption

(* A file that was never written is a file. *)
LEMMA BlankType == ASSUME NEW s \in Sets PROVE Blank(s) \in File(s)
BY DEF Blank, File

(* Every variable keeps its type. *)
THEOREM PatchTypeCorrect == Spec => []TypeOK
<1>1. Init => TypeOK
  <2>. SUFFICES ASSUME Init PROVE TypeOK
    OBVIOUS
  <2>1. RipsOK
    BY DEF Init, RipsOK
  <2>2. code \in [Addr -> Inst] /\ loaded \in [Addr -> Inst] /\ booted \in [Addr -> Inst]
    BY LoadAssumption DEF Init
  <2>3. faults \in Nat /\ pos \in Nat \ {0} /\ fps \in {-1, 0, 20, 30} /\ fixedFPS \in {0, 20, 30}
    BY DEF Init
  <2>. QED  BY <2>1, <2>2, <2>3, FpsType DEF Init, TypeOK
<1>2. ASSUME TypeOK, [Next]_vars PROVE TypeOK'
  <2>. USE <1>2 DEF TypeOK
  <2>1. CASE UNCHANGED vars
    BY <2>1 DEF vars, disk, loop, past, RipsOK
  <2>2. ASSUME NEW s \in Sets, AddPatchset(s) PROVE TypeOK'
    BY <2>2 DEF AddPatchset, loop, past, RipsOK
  <2>3. ASSUME NEW s \in Sets, PrepareBegin(s) PROVE TypeOK'
    <3>1. RipsOK' /\ rips'[s] # NoFile
      BY <2>3, BlankType, FileAssumption DEF PrepareBegin, RipsOK
    <3>2. synced' \in File(s) \cup {NoFile}
      BY <2>3 DEF PrepareBegin, RipsOK
    <3>. QED  BY <2>3, <3>1, <3>2 DEF PrepareBegin, past
  <2>4. ASSUME NEW s \in Sets, PrepareGivesUp(s) PROVE TypeOK'
    <3>1. RipsOK'
      BY <2>4, BlankType DEF PrepareGivesUp, RipsOK
    <3>. QED  BY <2>4, <3>1 DEF PrepareGivesUp, past, loop, Fault
  <2>5. CASE PrepareRecord
    <3>1. rips[set] \in File(set)
      BY <2>5 DEF PrepareRecord, RipsOK
    <3>2. rips'[set] \in File(set)
      BY <2>5, <3>1, InstAssumption DEF PrepareRecord, File, RipsOK
    <3>3. RipsOK' /\ rips'[set] # NoFile
      BY <2>5, <3>2, FileAssumption DEF PrepareRecord, RipsOK
    <3>. QED  BY <2>5, <3>3 DEF PrepareRecord, past, loop
  <2>6. CASE PrepareWord
    <3>1. rips[set] \in File(set) /\ \A k \in Words(set) : code[At(set, k)] \in Inst
      BY <2>6, RecordType DEF PrepareWord, RipsOK
    <3>2. rips'[set] \in File(set)
      BY <2>6, <3>1 DEF PrepareWord, File, Compared, RipsOK
    <3>3. RipsOK' /\ rips'[set] # NoFile
      BY <2>6, <3>2, FileAssumption DEF PrepareWord, RipsOK
    <3>. QED  BY <2>6, <3>3 DEF PrepareWord, past
  <2>7. CASE PrepareReturn
    BY <2>7, FpsType DEF PrepareReturn, Idle, Fault, RipsOK
  <2>8. CASE InstallHooks
    BY <2>8, InstAssumption DEF InstallHooks, disk, loop, RipsOK
  <2>9. ASSUME NEW o \in {"install", "revert"}, NEW s \in Sets, NEW v \in {-1, 0, 20, 30},
               Apply(o, s, v)
        PROVE  TypeOK'
    <3>1. RipsOK'
      BY <2>9 DEF Apply, disk, RipsOK
    <3>2. CASE Opens(o, s)
      <4>1. fps' \in {-1, 0, 20, 30} /\ pos' \in Nat \ {0} /\ touched' \in BOOLEAN
        BY <2>9, <3>2 DEF Apply
      <4>2. op' = "revert" => rips'[set'] # NoFile
        BY <2>9, <3>2 DEF Apply, disk, Opens
      <4>. QED  BY <2>9, <3>1, <3>2, <4>1, <4>2 DEF Apply, disk
    <3>3. CASE ~Opens(o, s)
      <4>1. fixedFPS' \in {0, 20, 30} /\ touched' \in BOOLEAN
        BY <2>9, <3>3 DEF Apply
      <4>. QED  BY <2>9, <3>1, <3>3, <4>1 DEF Apply, disk, loop
    <3>. QED  BY <3>2, <3>3
  <2>10. CASE WriteInst
    <3>1. pos \in Words(set) /\ Applying
      BY <2>10 DEF WriteInst
    <3>2. op = "revert" => rips[set][pos] \in Inst \cup {Absent}
      BY <3>1 DEF File, RipsOK
    <3>3. Word \in Inst \cup {Absent}
      BY <3>1, <3>2, RecordType DEF Word, Applying
    <3>4. code' \in [Addr -> Inst]
      BY <2>10, <3>1, <3>3, RecordType DEF WriteInst
    <3>. QED  BY <2>10, <3>1, <3>4 DEF WriteInst, disk, past, RipsOK
  <2>11. CASE ApplyReturn
    BY <2>11, FpsType DEF ApplyReturn, Returned, Idle, NewRate, disk, RipsOK
  <2>12. CASE ReadFails
    BY <2>12, FpsType DEF ReadFails, Returned, Idle, NewRate, disk, Fault, RipsOK
  <2>13. CASE Restart
    <3>1. ASSUME op = "prepare", NEW f \in Surviving(set) PROVE f \in File(set) \cup {NoFile}
      BY <3>1 DEF Surviving, RipsOK
    <3>2. RipsOK'
      BY <2>13, <3>1 DEF Restart, RipsOK
    <3>3. faults' \in Nat
      BY <2>13 DEF Restart, Fault
    <3>4. code' \in [Addr -> Inst] /\ loaded' \in [Addr -> Inst] /\ booted' \in [Addr -> Inst]
      BY <2>13, LoadAssumption DEF Restart
    <3>5. pos' \in Nat \ {0} /\ fps' \in {-1, 0, 20, 30} /\ fixedFPS' \in {0, 20, 30}
      BY <2>13 DEF Restart, Idle
    <3>. QED  BY <2>13, <3>2, <3>3, <3>4, <3>5, FpsType DEF Restart, Idle
  <2>. QED  BY <1>2, <2>1, <2>2, <2>3, <2>4, <2>5, <2>6, <2>7, <2>8, <2>9, <2>10, <2>11, <2>12, <2>13,
               FpsType DEF Next, PatchInstall, PatchRevert, FixedFPS
<1>. QED  BY <1>1, <1>2, PTL DEF Spec

-----------------------------------------------------------------------------
(* What preparation and the main loop leave alone *)
LEMMA SameCache ==
  ASSUME TypeOK, CacheIsCurrent, UNCHANGED <<prepared, loaded>>,
         \A s \in prepared : rips'[s] = rips[s]
  PROVE  CacheIsCurrent'
BY DEF CacheIsCurrent, TypeOK

(* While the code stays as it is, more installed sets excuse what was changed. *)
LEMMA SamePast ==
  ASSUME TypeOK, OnlyInstalledChanged, phase = "running",
         UNCHANGED <<phase, code, booted>>,
         installed \subseteq installed', unsure \subseteq unsure'
  PROVE  OnlyInstalledChanged'
BY DEF OnlyInstalledChanged

(* A reverse file that exists is not touched when another is begun. *)
LEMMA PreparedExists ==
  ASSUME TypeOK, CacheIsCurrent, NEW s \in prepared
  PROVE  s \in Sets /\ rips[s] # NoFile /\ rips[s] = [k \in Words(s) |-> loaded[At(s, k)]]
<1>1. s \in Sets /\ NoFile \notin File(s)
  BY FileAssumption DEF TypeOK
<1>2. [k \in Words(s) |-> loaded[At(s, k)]] \in File(s)
  BY <1>1, RecordType DEF TypeOK, File
<1>3. rips[s] = [k \in Words(s) |-> loaded[At(s, k)]]
  BY DEF CacheIsCurrent
<1>. QED  BY <1>1, <1>2, <1>3

(* The invariant of preparation, installation and reverting. *)
LEMMA PatchStep == TypeOK /\ TypeOK' /\ PatchInv /\ [Next]_vars => PatchInv'
<1>. SUFFICES ASSUME TypeOK, TypeOK', PatchInv, [Next]_vars PROVE PatchInv'
  OBVIOUS
<1>. USE DEF PatchInv
<1>1. CASE UNCHANGED vars
  BY <1>1 DEF vars, disk, loop, past, CacheIsCurrent, OnlyInstalledChanged
<1>2. ASSUME NEW s \in Sets, AddPatchset(s) PROVE PatchInv'
  BY <1>2 DEF AddPatchset, loop, past, CacheIsCurrent, OnlyInstalledChanged
<1>3. ASSUME NEW s \in Sets, PrepareBegin(s) PROVE PatchInv'
  <2>0. ASSUME NEW t \in prepared PROVE rips'[t] = rips[t]
    <3>1. t \in Sets /\ rips[t] # NoFile
      BY <2>0, PreparedExists
    <3>2. CASE t = s
      BY <1>3, <3>1, <3>2 DEF PrepareBegin
    <3>3. CASE t # s
      BY <1>3, <3>1, <3>3 DEF PrepareBegin, TypeOK, RipsOK
    <3>. QED  BY <3>2, <3>3
  <2>1. CacheIsCurrent'
    BY <1>3, <2>0, SameCache DEF PrepareBegin, past
  <2>2. \A k \in Words(s) : ~(k < 1)
    BY DEF Words
  <2>. QED  BY <1>3, <2>1, <2>2 DEF PrepareBegin, past, OnlyInstalledChanged
<1>4. ASSUME NEW s \in Sets, PrepareGivesUp(s) PROVE PatchInv'
  <2>0. ASSUME NEW t \in prepared PROVE rips'[t] = rips[t]
    <3>1. t \in Sets /\ rips[t] # NoFile
      BY <2>0, PreparedExists
    <3>2. CASE t = s
      BY <1>4, <3>1, <3>2 DEF PrepareGivesUp, TypeOK, RipsOK
    <3>3. CASE t # s
      BY <1>4, <3>1, <3>3 DEF PrepareGivesUp, TypeOK, RipsOK
    <3>. QED  BY <3>2, <3>3
  <2>1. CacheIsCurrent'
    BY <1>4, <2>0, SameCache DEF PrepareGivesUp, past
  <2>2. op = "none"
    BY <1>4 DEF PrepareGivesUp
  <2>. QED  BY <1>4, <2>1, <2>2 DEF PrepareGivesUp, past, loop, OnlyInstalledChanged
<1>5. CASE PrepareRecord
  <2>1. \A k \in Words(set) : rips[set][k] # Absent => rips'[set][k] = rips[set][k]
    BY <1>5 DEF PrepareRecord, TypeOK, RipsOK
  <2>2. \A k \in Words(set) : loaded[At(set, k)] # Absent
    BY RecordType, InstAssumption DEF TypeOK
  <2>3. ASSUME NEW s \in prepared PROVE rips'[s] = rips[s]
    <3>1. CASE s # set
      BY <1>5, <3>1 DEF PrepareRecord, TypeOK, RipsOK
    <3>2. CASE s = set
      <4>1. pos \in Words(set) /\ rips[set][pos] = Absent
        BY <1>5 DEF PrepareRecord
      <4>2. rips[set] = [k \in Words(set) |-> loaded[At(set, k)]]
        BY <2>3, <3>2, PreparedExists
      <4>. QED  BY <2>2, <4>1, <4>2
    <3>. QED  BY <3>1, <3>2
  <2>4. CacheIsCurrent'
    BY <1>5, <2>3, SameCache DEF PrepareRecord, past
  <2>5. \A k \in Words(set) : k < pos => rips'[set][k] = loaded[At(set, k)]
    BY <1>5, <2>1, <2>2 DEF PrepareRecord
  <2>. QED  BY <1>5, <2>4, <2>5 DEF PrepareRecord, past, loop, OnlyInstalledChanged
<1>6. CASE PrepareWord
  <2>1. code = loaded
    BY <1>6 DEF PrepareWord, TypeOK
  <2>2. \A k \in Words(set) : rips'[set][k] = IF k = pos THEN loaded[At(set, k)] ELSE rips[set][k]
    BY <1>6, <2>1 DEF PrepareWord, Compared, TypeOK, RipsOK
  <2>3. ASSUME NEW s \in prepared PROVE rips'[s] = rips[s]
    <3>1. CASE s # set
      BY <1>6, <3>1 DEF PrepareWord, TypeOK, RipsOK
    <3>2. CASE s = set
      <4>1. rips[set] = [k \in Words(set) |-> loaded[At(set, k)]]
        BY <2>3, <3>2, PreparedExists
      <4>2. rips'[set] = [k \in Words(set) |-> IF k = pos THEN loaded[At(set, k)] ELSE rips[set][k]]
        BY <1>6, <2>1 DEF PrepareWord, Compared, TypeOK, RipsOK
      <4>3. rips'[set] = [k \in Words(set) |-> loaded[At(set, k)]]
        BY <4>1, <4>2
      <4>. QED  BY <3>2, <4>1, <4>3
    <3>. QED  BY <3>1, <3>2
  <2>4. CacheIsCurrent'
    BY <1>6, <2>3, SameCache DEF PrepareWord, past
  <2>5. \A k \in Words(set) : k < pos + 1 => rips'[set][k] = loaded[At(set, k)]
    <3>. SUFFICES ASSUME NEW k \in Words(set), k < pos + 1 PROVE rips'[set][k] = loaded[At(set, k)]
      OBVIOUS
    <3>1. k < pos \/ k = pos
      BY DEF Words, TypeOK
    <3>. QED  BY <1>6, <2>2, <3>1 DEF PrepareWord
  <2>. QED  BY <1>6, <2>4, <2>5 DEF PrepareWord, past, OnlyInstalledChanged
<1>7. CASE PrepareReturn
  <2>1. phase = "boot"
    BY <1>7 DEF PrepareReturn, TypeOK
  <2>2. ASSUME pos \notin Words(set)
        PROVE  rips[set] = [k \in Words(set) |-> loaded[At(set, k)]]
    <3>1. rips[set] \in File(set)
      BY <1>7 DEF PrepareReturn, TypeOK, RipsOK
    <3>2. \A k \in Words(set) : k < pos
      BY <2>2 DEF Words, TypeOK
    <3>3. \A k \in Words(set) : rips[set][k] = loaded[At(set, k)]
      BY <1>7, <3>2 DEF PrepareReturn
    <3>. QED  BY <3>1, <3>3 DEF File
  <2>3. CacheIsCurrent'
    BY <1>7, <2>2 DEF PrepareReturn, CacheIsCurrent
  <2>. QED  BY <1>7, <2>1, <2>3 DEF PrepareReturn, Idle, OnlyInstalledChanged
<1>8. CASE InstallHooks
  <2>1. \A a \in Addr \ Hooked : code'[a] = code[a] /\ booted'[a] = code[a]
    BY <1>8 DEF InstallHooks
  <2>2. CacheIsCurrent'
    BY <1>8, SameCache DEF InstallHooks, disk
  <2>3. OnlyInstalledChanged'
    BY <1>8 DEF InstallHooks, OnlyInstalledChanged
  <2>. QED  BY <1>8, <2>1, <2>2, <2>3 DEF InstallHooks, loop, disk
<1>9. ASSUME NEW o \in {"install", "revert"}, NEW s \in Sets, NEW v \in {-1, 0, 20, 30},
             Apply(o, s, v)
      PROVE  PatchInv'
  <2>1. CacheIsCurrent'
    BY <1>9, SameCache DEF Apply, disk
  <2>2. OnlyInstalledChanged'
    BY <1>9, SamePast DEF Apply, loop
  <2>3. \A k \in Words(s) : ~(k < 1)
    BY DEF Words
  <2>4. CASE Opens(o, s)
    BY <1>9, <2>1, <2>2, <2>3, <2>4 DEF Apply, disk
  <2>5. CASE ~Opens(o, s)
    BY <1>9, <2>1, <2>2, <2>5 DEF Apply, disk, loop
  <2>. QED  BY <2>4, <2>5
<1>10. CASE WriteInst
  <2>. DEFINE at == At(set, pos)
  <2>1. /\ pos \in Words(set) /\ phase = "running" /\ at \in Area(set)
        /\ op \in {"install", "revert"}
    BY <1>10, RecordType DEF WriteInst, Applying, TypeOK
  <2>2. \A a \in Addr : a # at => code'[a] = code[a]
    BY <1>10 DEF WriteInst, TypeOK
  <2>3. ASSUME op = "revert", set \in prepared, at \notin Hooked PROVE code'[at] = booted[at]
    <3>1. rips[set][pos] = loaded[at] /\ loaded[at] = booted[at]
      BY <2>1, <2>3, PreparedExists, RecordType
    <3>2. loaded[at] # Absent
      BY <2>1, RecordType, InstAssumption DEF TypeOK
    <3>. QED  BY <1>10, <2>1, <2>3, <3>1, <3>2, RecordType DEF WriteInst, Word, TypeOK
  <2>4. CacheIsCurrent'
    BY <1>10, SameCache DEF WriteInst, disk, past
  <2>5. OnlyInstalledChanged'
    <3>. SUFFICES ASSUME NEW a \in Addr \ Hooked, code'[a] # booted[a]
                  PROVE  \E s \in installed \cup unsure : a \in Area(s)
      BY <1>10 DEF WriteInst, past, OnlyInstalledChanged
    <3>1. CASE a # at
      BY <2>1, <2>2, <3>1 DEF OnlyInstalledChanged
    <3>2. CASE a = at
      BY <2>1, <2>3, <3>2
    <3>. QED  BY <3>1, <3>2
  <2>6. ASSUME op = "revert", set \in prepared, NEW k \in Words(set), k < pos + 1,
               At(set, k) \notin Hooked
        PROVE  code'[At(set, k)] = booted[At(set, k)]
    <3>1. CASE At(set, k) = at
      BY <2>3, <2>6, <3>1
    <3>2. CASE At(set, k) # at
      <4>1. k < pos
        BY <2>6, <3>2 DEF Words, TypeOK
      <4>. QED  BY <2>2, <2>6, <3>2, <4>1, RecordType DEF TypeOK
    <3>. QED  BY <3>1, <3>2
  <2>. QED  BY <1>10, <2>1, <2>4, <2>5, <2>6 DEF WriteInst, disk, past
<1>11. CASE ApplyReturn
  <2>1. phase = "running" /\ op \in {"install", "revert"} /\ pos \notin Words(set)
    BY <1>11 DEF ApplyReturn, AtEOF, Applying, TypeOK
  <2>2. CacheIsCurrent'
    BY <1>11, SameCache DEF ApplyReturn, Returned, disk
  <2>3. \A k \in Words(set) : k < pos
    BY <2>1 DEF Words, TypeOK
  <2>4. OnlyInstalledChanged'
    <3>. SUFFICES ASSUME NEW a \in Addr \ Hooked, code[a] # booted[a]
                  PROVE  \E s \in installed' \cup unsure : a \in Area(s)
      BY <1>11 DEF ApplyReturn, Returned, OnlyInstalledChanged
    <3>1. PICK s \in installed \cup unsure : a \in Area(s)
      BY <2>1 DEF OnlyInstalledChanged
    <3>2. CASE s \in installed'
      BY <3>1, <3>2
    <3>3. CASE s \in unsure
      BY <3>1, <3>3
    <3>4. CASE s \notin installed' /\ s \notin unsure
      <4>1. op = "revert" /\ s = set /\ set \in prepared
        BY <1>11, <2>1, <3>1, <3>4 DEF ApplyReturn
      <4>2. code[a] = booted[a]
        BY <2>3, <3>1, <4>1 DEF Area
      <4>. QED  BY <4>2
    <3>. QED  BY <3>2, <3>3, <3>4
  <2>. QED  BY <1>11, <2>1, <2>2, <2>4 DEF ApplyReturn, Returned, Idle
<1>12. CASE ReadFails
  <2>1. phase = "running"
    BY <1>12 DEF ReadFails, Applying, TypeOK
  <2>2. CacheIsCurrent'
    BY <1>12, SameCache DEF ReadFails, Returned, disk
  <2>3. OnlyInstalledChanged'
    BY <1>12, <2>1, SamePast DEF ReadFails, Returned
  <2>. QED  BY <1>12, <2>1, <2>2, <2>3 DEF ReadFails, Returned, Idle
<1>13. CASE Restart
  BY <1>13 DEF Restart, Idle, CacheIsCurrent, OnlyInstalledChanged
<1>. QED  BY <1>1, <1>2, <1>3, <1>4, <1>5, <1>6, <1>7, <1>8, <1>9, <1>10, <1>11, <1>12, <1>13,
             FpsType DEF Next, PatchInstall, PatchRevert, FixedFPS

(* What the cache and the past of a patch file are in every state the game    *)
(* can be in, wherever an install or a revert was interrupted.                *)
THEOREM PatchInvCorrect == Spec => []PatchInv
<1>1. Init => PatchInv
  BY DEF Init, PatchInv, CacheIsCurrent, OnlyInstalledChanged
<1>. QED  BY <1>1, PatchStep, PatchTypeCorrect, PTL DEF Spec

(* A prepared patchset's reverse file holds the code as it was loaded, in     *)
(* whatever state failures and power cuts had left it.                        *)
THEOREM CacheCorrect == Spec => []CacheIsCurrent
BY PatchInvCorrect, PTL DEF PatchInv

(* Only installed patchsets change code, however they overlap.                *)
THEOREM RevertCorrect == Spec => []OnlyInstalledChanged
BY PatchInvCorrect, PTL DEF PatchInv

-----------------------------------------------------------------------------
(* The frame rate *)

(* The two patchsets of the frame rates have no hook in their way, the same   *)
(* addresses, and each address once.                                          *)
LEMMA FpsFiles ==
  ASSUME NEW s \in {Fps20, Fps30}
  PROVE  /\ s \in Sets /\ Area(s) = FpsArea
         /\ \A k \in Words(s) : At(s, k) \in FpsArea /\ At(s, k) \notin Hooked
         /\ \A j, k \in Words(s) : At(s, j) = At(s, k) => j = k
<1>1. s \in Sets /\ Area(s) = FpsArea
  BY FpsAssumption DEF FpsArea
<1>2. ASSUME NEW k \in Words(s) PROVE At(s, k) \in FpsArea /\ At(s, k) \notin Hooked
  BY <1>1, RecordType, FpsAssumption
<1>. QED  BY <1>1, <1>2, FpsAssumption

(* What the rate v > 0 has at an address is the word of its patchset's record. *)
LEMMA RateWord ==
  ASSUME NEW v \in {20, 30}, NEW k \in Words(IF v = 20 THEN Fps20 ELSE Fps30)
  PROVE  LET s == IF v = 20 THEN Fps20 ELSE Fps30
         IN  RateAt(v, At(s, k)) = Ips[s][k].word
<1>1. ASSUME NEW s \in {Fps20, Fps30}, NEW j \in Words(s)
      PROVE  RecordAt(s, At(s, j)) = j
  BY <1>1, FpsFiles DEF RecordAt
<1>2. CASE v = 20
  BY <1>1, <1>2 DEF RateAt
<1>3. CASE v = 30
  BY <1>1, <1>3 DEF RateAt
<1>. QED  BY <1>2, <1>3

(* The invariant of the rates. *)
LEMMA FpsStep == TypeOK /\ TypeOK' /\ PatchInv /\ FpsInv /\ [Next]_vars => FpsInv'
<1>. SUFFICES ASSUME TypeOK, TypeOK', PatchInv, FpsInv, [Next]_vars PROVE FpsInv'
  OBVIOUS
<1>. DEFINE Sound == phase = "running" /\ ~touched /\ Fps30 \in prepared
            Kept  == \A a \in FpsArea : code[a] = RateAt(fixedFPS, a)
<1>0. FpsArea \subseteq Addr /\ FpsArea \cap Hooked = {}
  <2>1. FpsArea = Area(Fps20) /\ Fps20 \in Sets
    BY FpsAssumption DEF FpsArea
  <2>2. Area(Fps20) \subseteq Addr
    BY <2>1, RecordType DEF Area
  <2>. QED  BY <2>1, <2>2, FpsAssumption
<1>1. CASE UNCHANGED vars
  BY <1>1 DEF vars, disk, loop, past, FpsInv, FpsChange, RateAt
<1>2. ASSUME NEW s \in Sets, AddPatchset(s) PROVE FpsInv'
  BY <1>2 DEF AddPatchset, loop, past, FpsInv, FpsChange, RateAt
<1>3. CASE phase' = "boot" /\ fixedFPS' = 0 /\ (op' = "none" => fps' = -1)
  BY <1>3 DEF FpsInv
<1>4. ASSUME NEW s \in Sets, PrepareBegin(s) \/ PrepareGivesUp(s) PROVE FpsInv'
  <2>1. phase' = "boot" /\ fixedFPS' = 0 /\ (op' = "none" => fps' = -1)
    BY <1>4 DEF PrepareBegin, PrepareGivesUp, FpsInv, loop
  <2>. QED  BY <2>1, <1>3
<1>5. CASE PrepareRecord \/ PrepareWord \/ PrepareReturn \/ Restart
  <2>1. phase' = "boot" /\ fixedFPS' = 0 /\ (op' = "none" => fps' = -1)
    BY <1>5 DEF PrepareRecord, PrepareWord, PrepareReturn, Restart, Idle, PatchInv, TypeOK, FpsInv,
       loop
  <2>. QED  BY <2>1, <1>3
<1>6. CASE InstallHooks
  <2>1. op' = "none" /\ fps' = -1 /\ fixedFPS' = 0 /\ booted' = code'
    BY <1>6 DEF InstallHooks, FpsInv, loop
  <2>2. \A a \in FpsArea : code'[a] = RateAt(0, a)'
    BY <2>1 DEF RateAt
  <2>. QED  BY <1>6, <2>1, <2>2 DEF FpsInv, InstallHooks
<1>7. ASSUME NEW o \in {"install", "revert"}, NEW s \in Sets, NEW v \in {-1, 0, 20, 30},
             Apply(o, s, v),
             v # -1 => <<o, s, v>> \in
               {<<"revert", Fps30, 0>>, <<"install", Fps20, 20>>, <<"install", Fps30, 30>>}
      PROVE  FpsInv'
  <2>1. phase = "running" /\ op = "none" /\ fps = -1
    BY <1>7 DEF Apply, FpsInv
  <2>2. UNCHANGED <<code, booted, phase, prepared>>
    BY <1>7 DEF Apply
  <2>3. CASE Opens(o, s)
    <3>1. op' = o /\ set' = s /\ pos' = 1 /\ fps' = v /\ UNCHANGED fixedFPS
      BY <1>7, <2>3 DEF Apply
    <3>2. touched' = (touched \/ ByHand(s, v))
      BY <1>7, <2>3 DEF Apply
    <3>. SUFFICES ASSUME ~touched', Fps30 \in prepared
                  PROVE  IF fps' = -1
                         THEN Area(s) \cap FpsArea = {} /\ Kept'
                         ELSE FpsChange' /\ \A k \in Words(s) : ~(k < 1)
      BY <1>7, <2>1, <2>2, <3>1 DEF FpsInv
    <3>3. Kept
      BY <2>1, <3>2 DEF FpsInv
    <3>4. Kept'
      BY <2>2, <3>1, <3>3 DEF RateAt
    <3>5. \A k \in Words(s) : ~(k < 1)
      BY DEF Words
    <3>. QED  BY <1>7, <3>1, <3>2, <3>4, <3>5 DEF ByHand, FpsChange
  <2>4. CASE ~Opens(o, s)
    <3>1. UNCHANGED loop /\ touched' = (touched \/ v # -1) /\ fixedFPS' = IF v = -1 THEN fixedFPS ELSE v
      BY <1>7, <2>4 DEF Apply
    <3>. QED  BY <2>1, <2>2, <3>1 DEF FpsInv, RateAt, loop
  <2>. QED  BY <2>3, <2>4
<1>8. ASSUME NEW s \in Sets, PatchInstall(s) \/ PatchRevert(s) PROVE FpsInv'
  BY <1>7, <1>8 DEF PatchInstall, PatchRevert
<1>9. ASSUME NEW v \in {0, 20, 30}, FixedFPS(v) PROVE FpsInv'
  BY <1>7, <1>9, FpsType DEF FixedFPS
<1>10. CASE WriteInst
  <2>. DEFINE at == At(set, pos)
  <2>1. /\ pos \in Words(set) /\ phase = "running" /\ at \in Area(set) /\ op \in {"install", "revert"}
        /\ UNCHANGED <<phase, op, set, fps, fixedFPS, booted, touched, prepared>>
        /\ pos' = pos + 1 /\ set \in Sets /\ at \in Addr
    BY <1>10, RecordType DEF WriteInst, Applying, TypeOK, PatchInv, past
  <2>2. \A a \in Addr : a # at => code'[a] = code[a]
    BY <1>10 DEF WriteInst, TypeOK
  <2>. SUFFICES ASSUME Sound PROVE FpsInv'
    BY <2>1 DEF FpsInv
  <2>3. CASE fps = -1
    <3>1. at \notin FpsArea /\ Kept /\ Area(set) \cap FpsArea = {}
      BY <2>1, <2>3 DEF FpsInv
    <3>2. Kept'
      BY <1>0, <2>1, <2>2, <3>1 DEF RateAt
    <3>. QED  BY <2>1, <2>3, <3>1, <3>2 DEF FpsInv
  <2>4. CASE fps # -1
    <3>1. FpsChange /\ \A k \in Words(set) : k < pos => code[At(set, k)] = RateAt(fps, At(set, k))
      BY <2>4 DEF FpsInv
    <3>2. set \in {Fps20, Fps30}
      BY <3>1 DEF FpsChange
    <3>3. at \notin Hooked /\ \A j, k \in Words(set) : At(set, j) = At(set, k) => j = k
      BY <2>1, <3>2, FpsFiles
    <3>4. Word = RateAt(fps, at) /\ Word \in Inst
      <4>1. CASE op = "install"
        <5>1. Word = Ips[set][pos].word
          BY <4>1 DEF Word
        <5>2. fps \in {20, 30} /\ set = IF fps = 20 THEN Fps20 ELSE Fps30
          BY <3>1, <4>1 DEF FpsChange
        <5>3. Ips[set][pos].word \in Inst
          BY <2>1, RecordType
        <5>4. RateAt(fps, At(set, pos)) = Ips[set][pos].word
          BY <2>1, <5>2, RateWord
        <5>. QED  BY <5>1, <5>3, <5>4
      <4>2. CASE op = "revert"
        <5>1. set = Fps30 /\ fps = 0
          BY <3>1, <4>2 DEF FpsChange
        <5>2. rips[set][pos] = loaded[at]
          <6>1. TypeOK /\ CacheIsCurrent /\ set \in prepared
            BY <2>1, <5>1 DEF PatchInv
          <6>2. rips[set] = [k \in Words(set) |-> loaded[At(set, k)]]
            BY <6>1, PreparedExists
          <6>. QED  BY <2>1, <6>2
        <5>3. loaded[at] = booted[at] /\ loaded[at] \in Inst
          BY <2>1, <3>3 DEF PatchInv, TypeOK
        <5>. QED  BY <4>2, <5>1, <5>2, <5>3 DEF Word, RateAt
      <4>. QED  BY <2>1, <4>1, <4>2
    <3>5. code'[at] = RateAt(fps, at)
      BY <1>10, <2>1, <3>4, InstAssumption DEF WriteInst, TypeOK
    <3>6. ASSUME NEW k \in Words(set), k < pos + 1
          PROVE  code'[At(set, k)] = RateAt(fps, At(set, k))
      <4>1. CASE k = pos
        BY <3>5, <4>1
      <4>2. CASE k # pos
        <5>1. k < pos /\ At(set, k) # at /\ At(set, k) \in Addr
          BY <2>1, <3>3, <3>6, <4>2, RecordType DEF Words, TypeOK
        <5>. QED  BY <2>2, <3>1, <5>1
      <4>. QED  BY <4>1, <4>2
    <3>7. \A a : RateAt(fps, a)' = RateAt(fps, a)
      BY <2>1 DEF RateAt
    <3>. QED  BY <2>1, <2>4, <3>1, <3>6, <3>7 DEF FpsInv, FpsChange
  <2>. QED  BY <2>3, <2>4
<1>11. CASE ApplyReturn
  <2>1. /\ phase = "running" /\ op # "none" /\ pos \notin Words(set)
        /\ UNCHANGED <<phase, code, booted, touched, prepared>>
        /\ op' = "none" /\ fps' = -1 /\ fixedFPS' = IF fps = -1 THEN fixedFPS ELSE fps
    BY <1>11 DEF ApplyReturn, AtEOF, Applying, TypeOK, PatchInv, Returned, Idle, NewRate
  <2>. SUFFICES ASSUME Sound PROVE Kept'
    BY <2>1 DEF FpsInv
  <2>2. CASE fps = -1
    BY <2>1, <2>2 DEF FpsInv, RateAt
  <2>3. CASE fps # -1
    <3>1. FpsChange /\ \A k \in Words(set) : k < pos => code[At(set, k)] = RateAt(fps, At(set, k))
      BY <2>3 DEF FpsInv
    <3>2. Area(set) = FpsArea
      BY <3>1, FpsFiles DEF FpsChange
    <3>3. \A k \in Words(set) : k < pos
      BY <2>1 DEF Words, TypeOK
    <3>4. \A a \in FpsArea : code[a] = RateAt(fps, a)
      BY <3>1, <3>2, <3>3 DEF Area
    <3>. QED  BY <2>1, <2>3, <3>4 DEF RateAt
  <2>. QED  BY <2>2, <2>3
<1>12. CASE ReadFails
  <2>1. /\ phase = "running" /\ op # "none"
        /\ UNCHANGED <<phase, code, booted, prepared>>
        /\ touched' = (touched \/ fps # -1)
        /\ op' = "none" /\ fps' = -1 /\ fixedFPS' = IF fps = -1 THEN fixedFPS ELSE fps
    BY <1>12 DEF ReadFails, Applying, TypeOK, PatchInv, Returned, Idle, NewRate
  <2>. QED  BY <2>1 DEF FpsInv, RateAt
<1>. QED  BY <1>1, <1>2, <1>4, <1>5, <1>6, <1>8, <1>9, <1>10, <1>11, <1>12 DEF Next

(* The code that times frames is what fixedFPS says, for any files that touch *)
(* the same addresses, whatever else is installed, and wherever a power cut   *)
(* or a failure had struck before.                                            *)
THEOREM FpsCorrect == Spec => []FpsAsSet
<1>1. Init => FpsInv
  BY DEF Init, FpsInv
<1>2. FpsInv => FpsAsSet
  BY DEF FpsInv, FpsAsSet
<1>. QED  BY <1>1, <1>2, FpsStep, PatchInvCorrect, PatchTypeCorrect, PTL DEF Spec
=============================================================================
