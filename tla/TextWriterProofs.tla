--------------------------- MODULE TextWriterProofs ---------------------------
(***************************************************************************)
(* Proofs about the text writer, for any number of threads, lists, slots   *)
(* and toasts, and any frame heap.                                         *)
(***************************************************************************)
EXTENDS TextWriter, FiniteSetTheorems, SequenceTheorems, WellFoundedInduction, TLAPS

(* Lists and slots are numbered from one. *)
LEMMA Numbered ==
  /\ HeapSize \in Nat \ {0}
  /\ Lists \subseteq Nat \ {0} /\ 1 \in Lists /\ \A i \in Lists : 1 .. i \subseteq Lists
  /\ Slots \subseteq Nat \ {0} /\ 1 \in Slots
<1>1. Cardinality(Lists) \in Nat /\ Cardinality(Slots) \in Nat
  BY SizeAssumption, FS_CardinalityType
<1>. DEFINE m == Cardinality(Lists)
            n == Cardinality(Slots)
<1>2. m \in Nat /\ n \in Nat /\ Lists = 1 .. m /\ Slots = 1 .. n /\ Lists # {} /\ Slots # {}
  BY <1>1, SizeAssumption
<1>. HIDE DEF m, n
<1>3. m # 0 /\ n # 0
  BY <1>2
<1>. QED  BY <1>2, <1>3, SizeAssumption

Jobs == [list : Lists, node : Nodes \cup Toasts \cup {Null}, at : Nat \cup {Null}]

(* Where threads and the renderer are *)
PlaceTypes ==
  /\ pc \in [Threads -> {"idle", "link", "walk", "insert", "text"}]
  /\ job \in [Threads -> Jobs]
  /\ draw \in {"idle", "lists", "free", "toasts"}
  /\ at \in Nat

(* That a thread has nothing to do is one. *)
LEMMA NoJobIsJob == NoJob \in Jobs
BY Numbered DEF NoJob, Jobs

-----------------------------------------------------------------------------
(* Toasts *)

ToastTypes ==
  /\ PlaceTypes
  /\ toasts \in [Slots -> Toasts \cup {Null}]
  /\ toast \in [Toasts -> [live : BOOLEAN, ttl : 0 .. Modulus - 1, owed : Int]]

(* A toast that is alive is owed the frames it has left. *)
OwedIn(what, n) == n \in Toasts /\ what[n].live /\ what[n].owed = what[n].ttl
Owed(n)         == OwedIn(toast, n)

(* What is in a slot is alive, and in that slot only. *)
InSlots ==
  /\ \A i \in Slots : toasts[i] # Null => Owed(toasts[i])
  /\ \A i, j \in Slots : toasts[i] # Null /\ i # j => toasts[i] # toasts[j]

(* What a thread looks for a slot for is in none, and no other thread does it. *)
Seeking ==
  \A t \in Threads : pc[t] = "insert" =>
    /\ Owed(job[t].node) /\ job[t].at \in Slots
    /\ \A i \in Slots : toasts[i] # job[t].node
    /\ \A u \in Threads : pc[u] = "insert" /\ job[u].node = job[t].node => u = t

(* The renderer looks at a slot. *)
AtSlot == (draw = "free" => at = 1) /\ (draw = "toasts" => at \in Slots)

ToastInv == ToastTypes /\ InSlots /\ Seeking /\ AtSlot

(* The remainder of what is below the modulus. *)
LEMMA SmallRemainder ==
  ASSUME NEW x \in 0 .. Modulus - 1 PROVE x % Modulus = x
BY TtlAssumption

(* At first there is no toast. *)
LEMMA ToastInvInit == Init => ToastInv
<1>. SUFFICES ASSUME Init PROVE ToastInv
  OBVIOUS
<1>1. ToastTypes
  BY Numbered, NoJobIsJob, TtlAssumption DEF Init, ToastTypes, PlaceTypes, NoToast
<1>2. InSlots /\ Seeking /\ AtSlot
  BY DEF Init, InSlots, Seeking, AtSlot
<1>. QED  BY <1>1, <1>2 DEF ToastInv

(* A thread that prints, or the renderer with the lists, leaves toasts alone. *)
LEMMA PrintingKeepsToasts ==
  ASSUME ToastInv, PlaceTypes', UNCHANGED <<draw, at, toastVars>>,
         NEW t \in Threads, pc'[t] # "insert",
         \A u \in Threads : u # t => pc'[u] = pc[u] /\ job'[u] = job[u]
  PROVE  ToastInv'
<1>1. ToastTypes'
  BY DEF ToastInv, ToastTypes, PlaceTypes, toastVars
<1>2. InSlots' /\ AtSlot'
  BY DEF ToastInv, InSlots, Owed, OwedIn, AtSlot, toastVars
<1>3. ASSUME NEW u \in Threads, pc'[u] = "insert" PROVE pc[u] = "insert" /\ job'[u] = job[u]
  BY <1>3 DEF ToastInv, ToastTypes, PlaceTypes
<1>4. Seeking'
  BY <1>3 DEF ToastInv, Seeking, Owed, OwedIn, toastVars
<1>. QED  BY <1>1, <1>2, <1>4 DEF ToastInv

(* The renderer with the lists, and a thread without room for its text, leave
   toasts and those who look for a slot alone. *)
LEMMA RenderingKeepsToasts ==
  ASSUME ToastInv, UNCHANGED <<pc, job, toastVars>>,
         draw' \in {"idle", "lists", "free", "toasts"}, at' \in Nat, AtSlot'
  PROVE  ToastInv'
<1>1. ToastTypes'
  BY DEF ToastInv, ToastTypes, PlaceTypes, toastVars
<1>2. InSlots' /\ Seeking'
  BY DEF ToastInv, InSlots, Seeking, Owed, OwedIn, toastVars
<1>. QED  BY <1>1, <1>2 DEF ToastInv

(* The renderer frees the slot of a toast that was drawn as often as it was owed. *)
LEMMA DrawToastKeepsToasts ==
  ASSUME ToastInv, DrawToast
  PROVE  /\ ToastInv'
         /\ \A i \in Slots : toasts[i] # Null /\ toasts'[i] # toasts[i] =>
              toasts'[i] = Null /\ toast[toasts[i]].owed = 0
<1>1. /\ draw = "toasts" /\ at \in Slots /\ at \in Nat /\ pc' = pc /\ job' = job
      /\ toasts \in [Slots -> Toasts \cup {Null}]
      /\ toast \in [Toasts -> [live : BOOLEAN, ttl : 0 .. Modulus - 1, owed : Int]]
  BY DEF DrawToast, ToastInv, ToastTypes, PlaceTypes, AtSlot
<1>2. AtSlot' /\ draw' \in {"idle", "lists", "free", "toasts"} /\ at' \in Nat
  BY <1>1, Numbered DEF DrawToast, AtSlot
<1>. DEFINE n == toasts[at]
<1>3. CASE n = Null
  <2>1. UNCHANGED toastVars
    BY <1>3 DEF DrawToast, toastVars
  <2>. QED  BY <1>1, <1>2, <2>1, RenderingKeepsToasts DEF toastVars
<1>4. ASSUME n # Null PROVE Owed(n) /\ \A i \in Slots : i # at => toasts[i] # n
  BY <1>1, <1>4 DEF ToastInv, InSlots
<1>5. ASSUME n # Null PROVE \A t \in Threads : pc[t] = "insert" => job[t].node # n
  BY <1>1, <1>5 DEF ToastInv, Seeking
<1>6. CASE n # Null /\ Expired(toast[n].ttl)
  <2>1. /\ toasts' = [toasts EXCEPT ![at] = Null]
        /\ toast' = [toast EXCEPT ![n] = NoToast]
    BY <1>6 DEF DrawToast
  <2>2. /\ \A i \in Slots : toasts'[i] = IF i = at THEN Null ELSE toasts[i]
        /\ \A m \in Toasts : m # n => toast'[m] = toast[m]
    BY <1>1, <2>1
  <2>3. ToastTypes'
    <3>1. NoToast \in [live : BOOLEAN, ttl : 0 .. Modulus - 1, owed : Int]
      BY TtlAssumption DEF NoToast
    <3>2. toast' \in [Toasts -> [live : BOOLEAN, ttl : 0 .. Modulus - 1, owed : Int]]
      BY <1>1, <2>1, <3>1
    <3>3. toasts' \in [Slots -> Toasts \cup {Null}]
      BY <1>1, <2>1
    <3>. QED  BY <1>1, <1>2, <3>2, <3>3 DEF ToastInv, ToastTypes, PlaceTypes
  <2>4. \A m : Owed(m) /\ m # n => OwedIn(toast', m)
    BY <2>2 DEF Owed, OwedIn
  <2>5. InSlots'
    BY <1>4, <1>6, <2>2, <2>4 DEF ToastInv, InSlots, Owed
  <2>6. Seeking'
    <3>1. ASSUME NEW t \in Threads, pc[t] = "insert"
          PROVE  /\ OwedIn(toast', job[t].node) /\ \A i \in Slots : toasts'[i] # job[t].node
      <4>1. job[t].node \in Toasts /\ job[t].node # Null
        BY <3>1, NameAssumption DEF ToastInv, Seeking, Owed, OwedIn
      <4>. QED  BY <1>5, <1>6, <2>2, <2>4, <3>1, <4>1 DEF ToastInv, Seeking
    <3>. QED  BY <1>1, <3>1 DEF ToastInv, Seeking, Owed
  <2>7. toast[n].owed = 0
    BY <1>4, <1>6 DEF Owed, OwedIn, Expired
  <2>. QED  BY <1>2, <2>2, <2>3, <2>5, <2>6, <2>7 DEF ToastInv
<1>7. CASE n # Null /\ ~Expired(toast[n].ttl)
  <2>. DEFINE left == toast[n].ttl - 1
  <2>1. n \in Toasts /\ toast[n].live /\ toast[n].owed = toast[n].ttl /\ toast[n].ttl \in 1 .. Modulus - 1
    BY <1>1, <1>4, <1>7, TtlAssumption DEF Owed, OwedIn, Expired
  <2>2. left % Modulus = left /\ left \in 0 .. Modulus - 1 /\ Max2(toast[n].owed - 1, -1) = left
    <3>1. left \in 0 .. Modulus - 1
      BY <2>1, TtlAssumption
    <3>2. Max2(toast[n].owed - 1, -1) = left
      BY <2>1, TtlAssumption DEF Max2
    <3>. QED  BY <3>1, <3>2, SmallRemainder
  <2>3. toasts' = toasts /\ toast' = [toast EXCEPT ![n].ttl = left, ![n].owed = left]
    BY <1>7, <2>2 DEF DrawToast
  <2>. HIDE DEF left
  <2>4. /\ toast'[n] = [live |-> TRUE, ttl |-> left, owed |-> left]
        /\ \A m \in Toasts : m # n => toast'[m] = toast[m]
    BY <1>1, <2>1, <2>3
  <2>5. ToastTypes'
    <3>1. [live |-> TRUE, ttl |-> left, owed |-> left]
            \in [live : BOOLEAN, ttl : 0 .. Modulus - 1, owed : Int]
      BY <2>2, TtlAssumption
    <3>2. \A m \in Toasts : toast'[m] \in [live : BOOLEAN, ttl : 0 .. Modulus - 1, owed : Int]
      BY <1>1, <2>4, <3>1, Zenon
    <3>3. toast' \in [Toasts -> [live : BOOLEAN, ttl : 0 .. Modulus - 1, owed : Int]]
      BY <1>1, <2>3, <3>2
    <3>. QED  BY <1>1, <1>2, <2>3, <3>3 DEF ToastInv, ToastTypes, PlaceTypes
  <2>6. \A m : Owed(m) => OwedIn(toast', m)
    BY <2>1, <2>4 DEF Owed, OwedIn
  <2>7. InSlots' /\ Seeking'
    BY <1>1, <2>3, <2>6 DEF ToastInv, InSlots, Seeking, Owed
  <2>. QED  BY <1>2, <2>3, <2>5, <2>7 DEF ToastInv
<1>. QED  BY <1>3, <1>6, <1>7

(* A new toast takes the place of none that is in a slot or about to be. *)
LEMMA ToastKeepsToasts ==
  ASSUME ToastInv, NEW t \in Threads, NEW ttl \in Ttls, Toast(t, ttl)
  PROVE  ToastInv'
<1>. DEFINE n == CHOOSE m \in Free : TRUE
            new == [live |-> TRUE, ttl |-> ttl, owed |-> ttl]
            j == [list |-> 1, node |-> n, at |-> 1]
<1>1. n \in Toasts /\ ~toast[n].live
  BY DEF Toast, Free
<1>2. /\ pc[t] = "idle" /\ toast' = [toast EXCEPT ![n] = new]
      /\ job' = [job EXCEPT ![t] = j] /\ pc' = [pc EXCEPT ![t] = "insert"]
      /\ UNCHANGED <<draw, at, toasts>>
  BY Zenon DEF Toast, Goes, drawVars
<1>3. ttl \in 0 .. Modulus - 1 /\ ttl \in Int
  BY TtlAssumption
<1>. HIDE DEF n
<1>4. /\ j \in Jobs
      /\ j.node = n /\ j.at = 1
      /\ new \in [live : BOOLEAN, ttl : 0 .. Modulus - 1, owed : Int]
  BY <1>1, <1>3, Numbered DEF Jobs
<1>. HIDE DEF j
<1>5. ToastTypes'
  <2>. HIDE DEF new
  <2>. QED  BY <1>1, <1>2, <1>4 DEF ToastInv, ToastTypes, PlaceTypes
<1>6. /\ toast'[n] = new /\ \A m \in Toasts : m # n => toast'[m] = toast[m]
      /\ \A u \in Threads : u # t => pc'[u] = pc[u] /\ job'[u] = job[u]
      /\ pc'[t] = "insert" /\ job'[t].node = n /\ job'[t].at = 1
  BY <1>1, <1>2, <1>4 DEF ToastInv, ToastTypes, PlaceTypes
<1>7. (\A m : Owed(m) => m # n /\ OwedIn(toast', m)) /\ OwedIn(toast', n)
  BY <1>1, <1>6 DEF Owed, OwedIn
<1>8. InSlots' /\ AtSlot'
  BY <1>2, <1>7 DEF ToastInv, InSlots, AtSlot, Owed
<1>9. \A i \in Slots : toasts[i] # n
  <2>1. ASSUME NEW i \in Slots, toasts[i] = n PROVE FALSE
    BY <1>1, <2>1, NameAssumption, <1>7 DEF ToastInv, InSlots
  <2>. QED  BY <2>1
<1>10. Seeking'
  <2>1. ASSUME NEW u \in Threads, pc'[u] = "insert"
        PROVE  /\ OwedIn(toast', job'[u].node) /\ job'[u].at \in Slots
               /\ \A i \in Slots : toasts[i] # job'[u].node
    BY <1>6, <1>7, <1>9, <2>1, Numbered DEF ToastInv, Seeking
  <2>2. ASSUME NEW u \in Threads, NEW v \in Threads, pc'[u] = "insert", pc'[v] = "insert",
               job'[u].node = job'[v].node
        PROVE  u = v
    BY <1>6, <1>7, <2>2 DEF ToastInv, Seeking
  <2>. QED  BY <1>2, <2>1, <2>2 DEF Seeking, Owed
<1>. QED  BY <1>5, <1>8, <1>10 DEF ToastInv

(* A thread takes a slot that is free, with the toast that no other has. *)
LEMMA InsertKeepsToasts ==
  ASSUME ToastInv, NEW t \in Threads, Insert(t)
  PROVE  /\ ToastInv'
         /\ \A i \in Slots : toasts[i] # Null => toasts'[i] = toasts[i]
<1>. DEFINE n == job[t].node
            i == job[t].at
<1>1. /\ pc[t] = "insert" /\ UNCHANGED <<draw, at>>
      /\ IF toasts[i] = Null THEN InSlot(t) ELSE NextSlot(t)
  BY DEF Insert, CompareExchange, drawVars
<1>2. /\ n \in Toasts /\ Owed(n) /\ i \in Slots /\ i \in Nat /\ n # Null
      /\ \A k \in Slots : toasts[k] # n
      /\ \A u \in Threads : pc[u] = "insert" /\ job[u].node = n => u = t
  BY <1>1, Numbered, NameAssumption DEF ToastInv, Seeking, Owed, OwedIn
<1>3. AtSlot'
  BY <1>1 DEF ToastInv, AtSlot
<1>4. /\ toasts \in [Slots -> Toasts \cup {Null}]
      /\ pc \in [Threads -> {"idle", "link", "walk", "insert", "text"}]
      /\ job \in [Threads -> Jobs]
      /\ toast \in [Toasts -> [live : BOOLEAN, ttl : 0 .. Modulus - 1, owed : Int]]
  BY DEF ToastInv, ToastTypes, PlaceTypes
<1>5. CASE toasts[i] = Null
  <2>1. /\ toasts' = [toasts EXCEPT ![i] = n] /\ pc' = [pc EXCEPT ![t] = "text"]
        /\ UNCHANGED <<toast, job>>
    BY <1>1, <1>5 DEF InSlot, Goes
  <2>2. /\ \A k \in Slots : toasts'[k] = IF k = i THEN n ELSE toasts[k]
        /\ \A u \in Threads : pc'[u] = IF u = t THEN "text" ELSE pc[u]
    BY <1>2, <1>4, <2>1
  <2>3. ToastTypes'
    BY <1>1, <1>2, <1>4, <2>1 DEF ToastInv, ToastTypes, PlaceTypes
  <2>4. InSlots'
    BY <1>2, <2>1, <2>2 DEF ToastInv, InSlots, Owed
  <2>5. Seeking'
    BY <1>2, <2>1, <2>2 DEF ToastInv, Seeking, Owed
  <2>. QED  BY <1>3, <1>5, <2>2, <2>3, <2>4, <2>5 DEF ToastInv
<1>6. CASE toasts[i] # Null /\ i + 1 \in Slots
  <2>1. job' = [job EXCEPT ![t].at = @ + 1] /\ UNCHANGED <<pc, toastVars>>
    BY <1>1, <1>6 DEF NextSlot, toastVars
  <2>2. /\ job'[t].node = n /\ job'[t].at = i + 1
        /\ \A u \in Threads : u # t => job'[u] = job[u]
        /\ job' \in [Threads -> Jobs]
    BY <1>2, <1>4, <2>1 DEF Jobs
  <2>3. ToastTypes' /\ InSlots'
    BY <1>1, <2>1, <2>2 DEF ToastInv, ToastTypes, PlaceTypes, InSlots, Owed, OwedIn, toastVars
  <2>4. \A u \in Threads : job'[u].node = job[u].node
    BY <2>2
  <2>5. Seeking'
    BY <1>6, <2>1, <2>2, <2>4 DEF ToastInv, Seeking, Owed, OwedIn, toastVars
  <2>. QED  BY <1>3, <2>1, <2>3, <2>5 DEF ToastInv, toastVars
<1>7. CASE toasts[i] # Null /\ i + 1 \notin Slots
  <2>1. /\ job' = [job EXCEPT ![t] = NoJob] /\ toast' = [toast EXCEPT ![n] = NoToast]
        /\ pc' = [pc EXCEPT ![t] = "idle"] /\ UNCHANGED toasts
    BY <1>1, <1>7 DEF NextSlot, Goes
  <2>2. /\ \A u \in Threads : pc'[u] = IF u = t THEN "idle" ELSE pc[u]
        /\ \A u \in Threads : u # t => job'[u] = job[u]
        /\ \A m \in Toasts : m # n => toast'[m] = toast[m]
    BY <1>2, <1>4, <2>1
  <2>3. ToastTypes'
    <3>1. /\ NoToast \in [live : BOOLEAN, ttl : 0 .. Modulus - 1, owed : Int]
          /\ NoJob \in Jobs
      BY TtlAssumption, NoJobIsJob DEF NoToast
    <3>2. /\ toast' \in [Toasts -> [live : BOOLEAN, ttl : 0 .. Modulus - 1, owed : Int]]
          /\ job' \in [Threads -> Jobs]
      BY <1>4, <2>1, <3>1
    <3>. QED  BY <1>1, <1>4, <2>1, <3>2 DEF ToastInv, ToastTypes, PlaceTypes
  <2>4. \A m : Owed(m) /\ m # n => OwedIn(toast', m)
    BY <2>2 DEF Owed, OwedIn
  <2>5. InSlots'
    BY <1>2, <2>1, <2>4 DEF ToastInv, InSlots, Owed
  <2>6. Seeking'
    <3>1. ASSUME NEW u \in Threads, pc'[u] = "insert"
          PROVE  pc[u] = "insert" /\ job'[u] = job[u] /\ job[u].node # n
      BY <1>2, <2>2, <3>1
    <3>2. ASSUME NEW u \in Threads, pc'[u] = "insert"
          PROVE  /\ OwedIn(toast', job'[u].node) /\ job'[u].at \in Slots
                 /\ \A k \in Slots : toasts'[k] # job'[u].node
      BY <2>1, <2>4, <3>1, <3>2, Zenon DEF ToastInv, Seeking
    <3>3. ASSUME NEW u \in Threads, NEW v \in Threads, pc'[u] = "insert", pc'[v] = "insert",
                 job'[v].node = job'[u].node
          PROVE  v = u
      BY <3>1, <3>3, Zenon DEF ToastInv, Seeking
    <3>. QED  BY <3>2, <3>3 DEF Seeking, Owed
  <2>. QED  BY <1>3, <2>1, <2>3, <2>5, <2>6 DEF ToastInv
<1>. QED  BY <1>5, <1>6, <1>7

(* What a step does to the slots; that it keeps the types is shown for lists. *)
LEMMA ToastStep ==
  ASSUME ToastInv, PlaceTypes', [Next]_vars
  PROVE  /\ ToastInv'
         /\ \A i \in Slots : toasts[i] # Null /\ toasts'[i] # toasts[i] =>
              toasts'[i] = Null /\ toast[toasts[i]].owed = 0
<1>1. PlaceTypes
  BY DEF ToastInv, ToastTypes
<1>2. ASSUME NEW t \in Threads, NEW i \in Lists, NEW e \in Entries, Store(t, i, e)
      PROVE  ToastInv' /\ toasts' = toasts
  BY <1>1, <1>2, PrintingKeepsToasts DEF Store, Goes, toastVars, drawVars, PlaceTypes
<1>3. ASSUME NEW t \in Threads, NEW e \in Entries, NoRoom(t, e) PROVE ToastInv' /\ toasts' = toasts
  BY <1>1, <1>3, RenderingKeepsToasts DEF NoRoom, toastVars, drawVars, PlaceTypes, ToastInv, AtSlot
<1>4. ASSUME NEW t \in Threads, Link(t) PROVE ToastInv' /\ toasts' = toasts
  BY <1>1, <1>4, PrintingKeepsToasts DEF Link, Release, Goes, toastVars, drawVars, PlaceTypes
<1>5. ASSUME NEW t \in Threads, Walk(t) PROVE ToastInv' /\ toasts' = toasts
  BY <1>1, <1>5, PrintingKeepsToasts DEF Walk, Release, Goes, toastVars, drawVars, PlaceTypes
<1>6. ASSUME NEW t \in Threads, NEW ttl \in Ttls, Toast(t, ttl) PROVE ToastInv' /\ toasts' = toasts
  BY <1>6, ToastKeepsToasts DEF Toast
<1>7. ASSUME NEW t \in Threads, SetText(t) PROVE ToastInv' /\ toasts' = toasts
  BY <1>1, <1>7, PrintingKeepsToasts DEF SetText, Goes, toastVars, drawVars, PlaceTypes
<1>8. ASSUME DrawBegin \/ DrawNode \/ WipeList \/ FreeAllAndUnlock PROVE ToastInv' /\ toasts' = toasts
  BY <1>1, <1>8, RenderingKeepsToasts, Numbered
     DEF DrawBegin, DrawNode, WipeList, FreeAllAndUnlock, PlaceTypes, toastVars, ToastInv, AtSlot
<1>9. ASSUME UNCHANGED vars PROVE ToastInv' /\ toasts' = toasts
  BY <1>1, <1>9, RenderingKeepsToasts DEF vars, drawVars, toastVars, PlaceTypes, ToastInv, AtSlot
<1>10. ASSUME NEW t \in Threads, Prints(t) PROVE ToastInv' /\ toasts' = toasts
  BY <1>4, <1>5, <1>10 DEF Prints
<1>. QED
  BY <1>2, <1>3, <1>6, <1>7, <1>8, <1>9, <1>10, InsertKeepsToasts, DrawToastKeepsToasts DEF Next, Draws

-----------------------------------------------------------------------------
(* Lists *)

Memory == [Nodes -> [entry : Entries \cup {Null}, next : Nodes \cup {Null}]]

ListTypes ==
  /\ PlaceTypes
  /\ owner \in Threads \cup {Drawer, Nobody}
  /\ heads \in [Lists -> Nodes \cup {Null}]
  /\ mem \in Memory
  /\ used \in 0 .. HeapSize
  /\ frame \in [Lists -> Seq(Entries \cup {Null})]

(* Who is at a list has the mutex. *)
Locked ==
  /\ \A t \in Threads : pc[t] \in {"link", "walk"} <=> owner = t
  /\ draw \in {"lists", "free"} <=> owner = Drawer

(* The nodes p are linked, from head, in the memory m of which top are used. *)
Linked(p, head, m, top) ==
  /\ head = IF p = <<>> THEN Null ELSE p[1]
  /\ \A j \in 1 .. Len(p) :
       /\ j <= p[j] /\ p[j] <= top
       /\ m[p[j]].next = IF j = Len(p) THEN Null ELSE p[j + 1]

(* No node is in two lists. *)
Disjoint(path) ==
  \A i, k \in Lists : i # k =>
    \A j \in 1 .. Len(path[i]), l \in 1 .. Len(path[k]) : path[i][j] # path[k][l]

(* A node that is to be appended is the last one that was allocated. *)
Appending(path) ==
  \A t \in Threads : pc[t] \in {"link", "walk"} =>
    LET n == job[t].node
    IN  /\ n \in Nodes /\ n <= used
        /\ mem[n].next = Null /\ mem[n].entry \in Entries
        /\ \A i \in Lists : \A j \in 1 .. Len(path[i]) : path[i][j] < n

(* Who walks along a list is at one of its nodes. *)
Walking(path) ==
  \A t \in Threads : pc[t] = "walk" =>
    LET p == path[job[t].list] IN \E j \in 1 .. Len(p) : job[t].at = p[j]

Content(p, m) == [j \in 1 .. Len(p) |-> m[p[j]].entry]

(* The renderer is at n of the nodes p, and drew what is before it. *)
DrawnTo(n, drawn, p, m) ==
  \E j \in 1 .. Len(p) + 1 : /\ n = IF j = Len(p) + 1 THEN Null ELSE p[j]
                             /\ drawn = [l \in 1 .. j - 1 |-> m[p[l]].entry]

(* The renderer has drawn a part of one list, all of those before it, which   *)
(* are empty then, and nothing of those behind it.                            *)
Drawing(path) ==
  /\ draw = "lists" =>
       /\ at \in Lists
       /\ \A i \in Lists : (i < at => path[i] = <<>>) /\ (i > at => frame[i] = <<>>)
       /\ DrawnTo(node, frame[at], path[at], mem)
  /\ draw = "free" => \A i \in Lists : path[i] = <<>>

PathInv(path) ==
  /\ \A i \in Lists : Linked(path[i], heads[i], mem, used)
  /\ Disjoint(path) /\ Appending(path) /\ Walking(path) /\ Drawing(path)

ListInv == ListTypes /\ Locked /\ \E path \in [Lists -> Seq(Nodes)] : PathInv(path)

-----------------------------------------------------------------------------
(* The list a head stands for is the sequence of what is in its nodes. *)

(* The walks of at most n nodes, as Chain defines them *)
Walked(w, m, n) ==
  w = [k \in 0 .. n |->
         [x \in Nodes \cup {Null} |->
            IF k = 0 \/ x = Null THEN <<>> ELSE <<m[x].entry>> \o w[k - 1][m[x].next]]]
Walks(m) == CHOOSE w : Walked(w, m, HeapSize)

(* A chain is the longest walk, before and after a step. *)
LEMMA ChainIsWalk ==
  ASSUME NEW n
  PROVE  Chain(n) = Walks(mem)[HeapSize][n] /\ Chain(n)' = Walks(mem')[HeapSize][n]
BY Zenon DEF Chain, Walks, Walked

(* A set of natural numbers that is not empty has a least element. *)
LEMMA LeastNat ==
  ASSUME NEW T, T \subseteq Nat, T # {}
  PROVE  \E x \in T : \A y \in T : x <= y
<1>1. PICK x \in T : \A y \in T : ~(<<y, x>> \in OpToRel(<, Nat))
  BY WFMin, NatLessThanWellFounded
<1>2. ASSUME NEW y \in T PROVE x <= y
  <2>1. x \in Nat /\ y \in Nat
    OBVIOUS
  <2>2. y < x => <<y, x>> \in OpToRel(<, Nat)
    BY <2>1 DEF OpToRel
  <2>3. ~(y < x)
    BY <1>1, <2>2, Zenon
  <2> QED  BY <2>1, <2>3
<1> QED  BY <1>2

(* There are such walks, although each is defined by a shorter one. *)
LEMMA WalksExist ==
  ASSUME NEW m
  PROVE  \A n \in Nat : \E w : Walked(w, m, n)
<1>. DEFINE Ends == Nodes \cup {Null}
            Row(k, r) == [x \in Ends |->
                            IF k = 0 \/ x = Null THEN <<>> ELSE <<m[x].entry>> \o r[m[x].next]]
            Rows(w, n) == w = [k \in 0 .. n |-> Row(k, w[k - 1])]
            bad == {n \in Nat : ~ \E w : Rows(w, n)}
<1>. SUFFICES ASSUME bad # {} PROVE FALSE
  BY Zenon DEF Walked
<1>1. PICK n \in bad : \A y \in bad : n <= y
  BY LeastNat
<1>2. Row(0, 0) = [x \in Ends |-> <<>>] /\ \A r : Row(0, r) = [x \in Ends |-> <<>>]
  BY Zenon
<1>3. n # 0
  <2>. DEFINE w == [j \in 0 .. 0 |-> Row(0, 0)]
  <2>1. Rows(w, 0)
    <3>1. \A j \in 0 .. 0 : Row(j, w[j - 1]) = Row(0, 0)
      <4>1. \A j \in 0 .. 0 : j = 0
        OBVIOUS
      <4>. HIDE DEF Row, w
      <4>. QED  BY <1>2, <4>1, Zenon
    <3>. HIDE DEF Row
    <3>. QED  BY <3>1, Zenon
  <2>. HIDE DEF Rows, w
  <2>. QED  BY <1>1, <2>1, Zenon
<1>4. n \in Nat /\ n - 1 \in Nat /\ ~(n <= n - 1)
  BY <1>1, <1>3
<1>5. PICK f : Rows(f, n - 1)
  <2>. HIDE DEF Rows
  <2>1. n - 1 \notin bad
    <3>. HIDE DEF bad
    <3>. QED  BY <1>1, <1>4, Zenon
  <2>. QED  BY <1>4, <2>1, Zenon
<1>. HIDE DEF Row
<1>6. \A k \in 0 .. n - 1 : f[k] = Row(k, f[k - 1])
  BY <1>5
<1>. DEFINE g == [k \in 0 .. n |-> IF k = n THEN Row(n, f[n - 1]) ELSE f[k]]
<1>7. ASSUME NEW k \in 0 .. n PROVE g[k] = Row(k, g[k - 1])
  <2>1. CASE k = n
    BY <1>3, <1>4, <2>1
  <2>2. CASE k # n
    <3>1. k \in 0 .. n - 1 /\ g[k] = f[k] /\ (k # 0 => g[k - 1] = f[k - 1])
      BY <1>4, <2>2
    <3>2. f[k] = Row(k, f[k - 1])
      BY <1>6, <3>1, Zenon
    <3>3. k = 0 => Row(k, f[k - 1]) = Row(k, g[k - 1])
      BY <1>2, Zenon
    <3>. HIDE DEF g
    <3>. QED  BY <3>1, <3>2, <3>3, Zenon
  <2>. QED  BY <2>1, <2>2
<1>8. g = [k \in 0 .. n |-> g[k]]
  BY Zenon
<1>. HIDE DEF g
<1>9. Rows(g, n)
  BY <1>7, <1>8, Zenon
<1>. QED  BY <1>1, <1>9, Zenon

(* The walks are what Chain defines them by. *)
LEMMA WalksDef == ASSUME NEW m PROVE Walked(Walks(m), m, HeapSize)
<1>1. \E w : Walked(w, m, HeapSize)
  BY WalksExist, Numbered
<1>. QED  BY <1>1, Zenon DEF Walks

(* A walk that is long enough collects what is in the nodes of the list. *)
LEMMA WalkCollects ==
  ASSUME NEW m \in Memory, NEW p \in Seq(Nodes), NEW head, Linked(p, head, m, HeapSize)
  PROVE  Walks(m)[HeapSize][head] = Content(p, m)
<1>. DEFINE W == Walks(m)
            Ends == Nodes \cup {Null}
            N == Len(p)
            At(j) == IF j = N + 1 THEN Null ELSE p[j]
            Rest(j) == [l \in 1 .. N + 1 - j |-> m[p[j + l - 1]].entry]
            Good(k) == \A j \in 1 .. N + 1 : N + 1 - j <= k => W[k][At(j)] = Rest(j)
            bad == {k \in 0 .. HeapSize : ~Good(k)}
<1>1. /\ N \in Nat /\ HeapSize \in Nat /\ HeapSize > 0 /\ N <= HeapSize
      /\ \A j \in 1 .. N : p[j] \in Nodes /\ p[j] # Null /\ m[p[j]].next = At(j + 1)
      /\ head = At(1)
  <2>1. N \in Nat /\ HeapSize \in Nat /\ HeapSize > 0 /\ \A j \in 1 .. N : p[j] \in Nodes
    BY Numbered
  <2>2. \A j \in 1 .. N : j <= p[j] /\ p[j] <= HeapSize /\ m[p[j]].next = IF j = N THEN Null ELSE p[j + 1]
    BY DEF Linked
  <2>3. N <= HeapSize
    <3>1. CASE N = 0
      BY <2>1, <3>1
    <3>2. CASE N # 0
      BY <2>1, <2>2, <3>2 DEF Nodes
    <3>. QED  BY <3>1, <3>2
  <2>4. Null \notin Nodes
    BY NameAssumption DEF Nodes
  <2>5. head = At(1)
    <3>1. N = 0 <=> p = <<>>
      BY EmptySeq
    <3>. QED  BY <2>1, <3>1 DEF Linked
  <2>. QED  BY <2>1, <2>2, <2>3, <2>4, <2>5
<1>2. \A k \in 0 .. HeapSize :
        W[k] = [x \in Ends |-> IF k = 0 \/ x = Null THEN <<>> ELSE <<m[x].entry>> \o W[k - 1][m[x].next]]
  <2>1. Walked(W, m, HeapSize)
    BY WalksDef
  <2>. HIDE DEF W
  <2>. QED  BY <2>1 DEF Walked
<1>. HIDE DEF W
<1>3. ASSUME NEW k \in 0 .. HeapSize, k # 0 => Good(k - 1), NEW j \in 1 .. N + 1, N + 1 - j <= k
      PROVE  W[k][At(j)] = Rest(j)
  <2>1. CASE j = N + 1
    <3>1. At(j) = Null /\ Rest(j) = <<>>
      BY <1>1, <2>1
    <3>2. W[k][Null] = <<>>
      BY <1>2
    <3>. QED  BY <3>1, <3>2
  <2>2. CASE j # N + 1
    <3>1. j \in 1 .. N /\ k # 0 /\ j + 1 \in 1 .. N + 1 /\ N + 1 - (j + 1) <= k - 1 /\ k - 1 \in 0 .. HeapSize
      BY <1>1, <1>3, <2>2
    <3>2. At(j) = p[j] /\ p[j] \in Nodes /\ p[j] # Null /\ m[p[j]].next = At(j + 1)
      BY <1>1, <2>2, <3>1
    <3>3. W[k][p[j]] = <<m[p[j]].entry>> \o W[k - 1][At(j + 1)]
      <4>1. /\ p[j] \in Ends
            /\ W[k] = [x \in Ends |->
                 IF k = 0 \/ x = Null THEN <<>> ELSE <<m[x].entry>> \o W[k - 1][m[x].next]]
        BY <1>2, <3>2
      <4>2. W[k][p[j]] = IF k = 0 \/ p[j] = Null THEN <<>> ELSE <<m[p[j]].entry>> \o W[k - 1][m[p[j]].next]
        BY <4>1, Zenon
      <4>. QED  BY <3>1, <3>2, <4>2, Zenon
    <3>4. W[k - 1][At(j + 1)] = Rest(j + 1)
      BY <1>3, <3>1
    <3>5. <<m[p[j]].entry>> \o Rest(j + 1) = Rest(j)
      <4>. DEFINE S == {m[x].entry : x \in Nodes}
                  s == <<m[p[j]].entry>> \o Rest(j + 1)
      <4>1. /\ Rest(j + 1) \in Seq(S) /\ Len(Rest(j + 1)) = N - j
            /\ Rest(j) \in Seq(S) /\ Len(Rest(j)) = N + 1 - j
        BY <1>1, <3>1
      <4>2. s \in Seq(S) /\ Len(s) = N + 1 - j
        BY <1>1, <3>1, <3>2, <4>1
      <4>3. ASSUME NEW l \in 1 .. N + 1 - j PROVE s[l] = Rest(j)[l]
        <5>1. CASE l = 1
          BY <1>1, <3>1, <3>2, <4>1, <5>1
        <5>2. CASE l # 1
          <6>1. s[l] = Rest(j + 1)[l - 1]
            BY <1>1, <3>1, <4>1, <5>2
          <6>2. Rest(j + 1)[l - 1] = m[p[j + l - 1]].entry
            <7>1. N \in Nat /\ j \in Nat /\ l \in Nat /\ l >= 2 /\ l <= N + 1 - j
              BY <3>1, <5>2
            <7>2. l - 1 \in 1 .. N + 1 - (j + 1) /\ j + 1 + (l - 1) - 1 = j + l - 1
              BY <7>1
            <7>3. Rest(j + 1)[l - 1] = m[p[j + 1 + (l - 1) - 1]].entry
              BY <7>2
            <7>. QED  BY <7>2, <7>3, Zenon
          <6>. QED  BY <6>1, <6>2
        <5>. QED  BY <5>1, <5>2
      <4>. DEFINE r == Rest(j)
      <4>4. r \in Seq(S) /\ Len(r) = Len(s) /\ \A l \in 1 .. Len(s) : s[l] = r[l]
        BY <4>1, <4>2, <4>3
      <4>. HIDE DEF s, r, S
      <4>5. s = r
        BY <4>2, <4>4, SeqEqual
      <4>. QED  BY <4>5 DEF s, r
    <3>. QED  BY <3>2, <3>3, <3>4, <3>5, Zenon
  <2>. QED  BY <2>1, <2>2
<1>4. bad = {}
  <2>. SUFFICES ASSUME bad # {} PROVE FALSE
    OBVIOUS
  <2>1. bad \subseteq Nat
    BY <1>1
  <2>. HIDE DEF Good, bad
  <2>2. PICK k \in bad : \A y \in bad : k <= y
    BY <2>1, LeastNat
  <2>. USE DEF bad
  <2>3. k \in 0 .. HeapSize /\ ~Good(k)
    BY <2>2
  <2>4. k # 0 => Good(k - 1)
    BY <1>1, <2>2, <2>3
  <2>. QED  BY <1>3, <2>3, <2>4 DEF Good
<1>5. Good(HeapSize)
  <2>. HIDE DEF Good
  <2>. QED  BY <1>1, <1>4
<1>6. W[HeapSize][At(1)] = Rest(1)
  BY <1>1, <1>5
<1>7. Rest(1) = Content(p, m)
  BY <1>1 DEF Content
<1>. QED  BY <1>1, <1>6, <1>7 DEF W

-----------------------------------------------------------------------------
(* What lists hold *)

(* Memory that is not used yet is in no list. *)
LEMMA LinkedBelow ==
  ASSUME NEW p \in Seq(Nodes), NEW head, NEW m, NEW n, NEW top \in Nat, NEW higher \in Nat,
         Linked(p, head, m, top), top <= higher, \A x \in 1 .. top : n[x] = m[x]
  PROVE  Linked(p, head, n, higher) /\ Content(p, n) = Content(p, m)
<1>1. \A j \in 1 .. Len(p) : p[j] \in 1 .. top /\ p[j] <= higher
  BY Numbered DEF Linked, Nodes
<1>2. \A j \in 1 .. Len(p) : n[p[j]] = m[p[j]]
  BY <1>1
<1>3. Linked(p, head, n, higher)
  BY <1>1, <1>2 DEF Linked
<1>4. Content(p, n) = Content(p, m)
  BY <1>2 DEF Content
<1>. QED  BY <1>3, <1>4

(* A node that is linked to none comes behind the nodes p. *)
Behind(n, p, m, top) == n <= top /\ m[n].next = Null /\ \A j \in 1 .. Len(p) : p[j] < n

(* The memory and the head when n is linked behind the nodes p *)
LinkLast(m, p, n)    == IF p = <<>> THEN m ELSE [m EXCEPT ![p[Len(p)]].next = n]
FirstOf(head, p, n)  == IF p = <<>> THEN n ELSE head

(* A node behind all others is appended by linking it to the last of them.   *)
LEMMA LinkedAppend ==
  ASSUME NEW p \in Seq(Nodes), NEW head, NEW m \in Memory, NEW top \in Nat, Linked(p, head, m, top),
         NEW n \in Nodes, Behind(n, p, m, top)
  PROVE  /\ Append(p, n) \in Seq(Nodes)
         /\ Linked(Append(p, n), FirstOf(head, p, n), LinkLast(m, p, n), top)
         /\ Content(Append(p, n), LinkLast(m, p, n)) = Append(Content(p, m), m[n].entry)
         /\ LinkLast(m, p, n) \in Memory
<1>. DEFINE N == Len(p)
            q == Append(p, n)
            first == FirstOf(head, p, n)
            o == LinkLast(m, p, n)
<1>0. n <= top /\ m[n].next = Null /\ \A j \in 1 .. N : p[j] < n
  BY DEF Behind
<1>1. first = (IF p = <<>> THEN n ELSE head) /\ o = (IF p = <<>> THEN m ELSE [m EXCEPT ![p[N]].next = n])
  BY DEF FirstOf, LinkLast
<1>. HIDE DEF first, o
<1>2. /\ N \in Nat /\ q \in Seq(Nodes) /\ Len(q) = N + 1 /\ q[N + 1] = n
      /\ \A j \in 1 .. N : q[j] = p[j] /\ p[j] \in Nodes
      /\ (p = <<>> <=> N = 0) /\ Nodes \subseteq Nat \ {0} /\ Null \notin Nodes
  BY EmptySeq, NameAssumption, Numbered DEF Nodes
<1>3. \A j \in 1 .. N : /\ j <= p[j] /\ p[j] <= top
                        /\ m[p[j]].next = IF j = N THEN Null ELSE p[j + 1]
  BY DEF Linked
<1>4. o \in Memory
  <2>1. CASE N = 0
    BY <1>0, <1>1, <1>2, <2>1
  <2>2. CASE N # 0
    BY <1>0, <1>1, <1>2, <2>2, ZenonT(40) DEF Memory
  <2>. QED  BY <2>1, <2>2
<1>5. /\ o[n] = m[n]
      /\ \A j \in 1 .. N : o[p[j]].entry = m[p[j]].entry /\ o[p[j]].next = IF j = N THEN n ELSE p[j + 1]
  <2>1. CASE N = 0
    BY <1>0, <1>1, <1>2, <2>1
  <2>2. CASE N # 0
    <3>1. N \in 1 .. N /\ p[N] \in Nodes /\ p[N] # n
      BY <1>0, <1>2, <2>2
    <3>2. o = [m EXCEPT ![p[N]].next = n]
      BY <1>0, <1>1, <1>2, <2>2
    <3>3. \A x \in Nodes : /\ x # p[N] => o[x] = m[x]
                           /\ o[x].entry = m[x].entry /\ (x = p[N] => o[x].next = n)
      BY <3>1, <3>2 DEF Memory
    <3>4. ASSUME NEW j \in 1 .. N, j # N PROVE p[j] # p[N]
      <4>1. j + 1 \in 1 .. N
        BY <1>0, <1>2, <3>4
      <4>2. m[p[j]].next \in Nodes /\ m[p[N]].next = Null
        BY <1>0, <1>2, <1>3, <3>1, <3>4, <4>1
      <4>. QED  BY <1>0, <1>2, <4>2
    <3>. QED  BY <1>0, <1>2, <1>3, <3>1, <3>3, <3>4
  <2>. QED  BY <2>1, <2>2
<1>6. N + 1 <= n
  <2>1. CASE N = 0
    BY <1>0, <1>2, <2>1
  <2>2. CASE N # 0
    <3>1. N \in 1 .. N
      BY <1>2, <2>2
    <3>3. p[N] \in Nat /\ n \in Nat
      BY <1>2, <3>1
    <3>2. N <= p[N] /\ p[N] < n
      BY <1>0, <1>3, <3>1
    <3>. QED  BY <1>2, <3>2, <3>3
  <2>. QED  BY <2>1, <2>2
<1>7. Linked(q, first, o, top)
  <2>1. first = IF q = <<>> THEN Null ELSE q[1]
    BY <1>0, <1>1, <1>2 DEF Linked
  <2>2. ASSUME NEW j \in 1 .. N + 1
        PROVE  j <= q[j] /\ q[j] <= top /\ o[q[j]].next = IF j = N + 1 THEN Null ELSE q[j + 1]
    <3>1. CASE j = N + 1
      BY <1>0, <1>2, <1>5, <1>6, <3>1
    <3>2. CASE j # N + 1
      BY <1>0, <1>2, <1>3, <1>5, <3>2
    <3>. QED  BY <3>1, <3>2
  <2>. QED  BY <1>0, <1>2, <2>1, <2>2 DEF Linked
<1>8. Content(q, o) = Append(Content(p, m), m[n].entry)
  <2>. DEFINE S == {m[x].entry : x \in Nodes}
              c == Content(p, m)
              d == Content(q, o)
              e == Append(c, m[n].entry)
  <2>1. c \in Seq(S) /\ Len(c) = N /\ \A j \in 1 .. N : c[j] = m[p[j]].entry
    BY <1>0, <1>2 DEF Content
  <2>2. Len(d) = N + 1 /\ \A j \in 1 .. N + 1 : d[j] = IF j = N + 1 THEN m[n].entry ELSE m[p[j]].entry
    BY <1>0, <1>2, <1>5 DEF Content
  <2>3. e \in Seq(S) /\ Len(e) = N + 1 /\ \A j \in 1 .. N + 1 : e[j] = IF j = N + 1 THEN m[n].entry ELSE c[j]
    <3>. HIDE DEF c
    <3>. QED  BY <1>0, <1>2, <2>1
  <2>4. d \in Seq(S)
    <3>1. d = [j \in 1 .. N + 1 |-> d[j]]
      BY <1>0, <1>2 DEF Content
    <3>2. ASSUME NEW j \in 1 .. N + 1 PROVE d[j] \in S
      <4>1. j = N + 1 \/ j \in 1 .. N
        BY <1>0, <1>2
      <4>. HIDE DEF d
      <4>. QED  BY <1>0, <1>2, <2>2, <4>1
    <3>. HIDE DEF d
    <3>. QED  BY <1>0, <1>2, <3>1, <3>2
  <2>5. \A j \in 1 .. N + 1 : d[j] = e[j]
    <3>. HIDE DEF c, d, e
    <3>1. ASSUME NEW j \in 1 .. N + 1 PROVE j = N + 1 \/ j \in 1 .. N
      BY <1>0, <1>2
    <3>. QED  BY <2>1, <2>2, <2>3, <3>1
  <2>. HIDE DEF d, e, S
  <2>6. d = e
    BY <2>2, <2>3, <2>4, <2>5, SeqEqual
  <2>. QED  BY <2>6 DEF d, e
<1>. QED  BY <1>0, <1>2, <1>4, <1>7, <1>8 DEF first, o

(* What is queued for a list is what was drawn of it, or what its nodes hold. *)
LEMMA QueuedIs ==
  ASSUME ListTypes, NEW path \in [Lists -> Seq(Nodes)], PathInv(path), NEW i \in Lists
  PROVE  Queued(i) = IF Drawn(i) THEN frame[i] ELSE Content(path[i], mem)
<1>1. Linked(path[i], heads[i], mem, HeapSize)
  <2>1. path[i] \in Seq(Nodes) /\ used \in Nat /\ HeapSize \in Nat /\ used <= HeapSize
    BY Numbered DEF ListTypes
  <2>. QED  BY <2>1, LinkedBelow DEF PathInv
<1>2. Chain(heads[i]) = Content(path[i], mem)
  BY <1>1, ChainIsWalk, WalkCollects DEF ListTypes
<1>. QED  BY <1>2 DEF Queued

(* The same of the state after a step. *)
LEMMA QueuedIsNext ==
  ASSUME ListTypes', NEW path \in [Lists -> Seq(Nodes)], PathInv(path)', NEW i \in Lists
  PROVE  Queued(i)' = IF Drawn(i)' THEN frame'[i] ELSE Content(path[i], mem')
<1>1. Linked(path[i], heads'[i], mem', HeapSize)
  <2>1. path[i] \in Seq(Nodes) /\ used' \in Nat /\ HeapSize \in Nat /\ used' <= HeapSize
    BY Numbered DEF ListTypes
  <2>2. Linked(path[i], heads'[i], mem', used')
    BY DEF PathInv
  <2>. QED  BY <2>1, <2>2, LinkedBelow
<1>2. Chain(heads[i])' = Content(path[i], mem')
  <2>. DEFINE h == heads'[i]
  <2>1. Chain(heads[i])' = Walks(mem')[HeapSize][h]
    BY Zenon DEF Chain, Walks, Walked
  <2>2. mem' \in Memory
    BY DEF ListTypes
  <2>. QED  BY <1>1, <2>1, <2>2, WalkCollects
<1>. QED  BY <1>2 DEF Queued

-----------------------------------------------------------------------------
(* The steps *)

Shown == IF draw = "free" THEN frame ELSE Nothing

(* What a step does to the queue and to what is shown *)
Silent   == (\A i \in Lists : Queued(i)' = Queued(i)) /\ Shown' = Shown
Accepted == \E i \in Lists, e \in Entries :
              /\ \A k \in Lists : Queued(k)' = IF k = i THEN Append(Queued(k), e) ELSE Queued(k)
              /\ Shown' = Shown
Showing  == Shown' = [i \in Lists |-> Queued(i)] /\ \A i \in Lists : Queued(i)' = <<>>
Clearing == Shown' = Nothing /\ \A i \in Lists : Queued(i)' = Queued(i)

(* At first all lists are empty and nothing is shown. *)
LEMMA ListInvInit == Init => ListInv /\ (\A i \in Lists : Queued(i) = <<>>) /\ Shown = Nothing
<1>. SUFFICES ASSUME Init PROVE ListInv /\ (\A i \in Lists : Queued(i) = <<>>) /\ Shown = Nothing
  OBVIOUS
<1>. DEFINE path == [i \in Lists |-> <<>>]
<1>1. ListTypes
  BY Numbered, NoJobIsJob DEF Init, ListTypes, PlaceTypes, Memory, Nothing
<1>2. Locked
  BY NameAssumption DEF Init, Locked
<1>3. path \in [Lists -> Seq(Nodes)] /\ PathInv(path)
  BY DEF Init, PathInv, Linked, Disjoint, Appending, Walking, Drawing
<1>4. ASSUME NEW i \in Lists PROVE Queued(i) = <<>>
  <2>1. Queued(i) = IF Drawn(i) THEN frame[i] ELSE Content(path[i], mem)
    BY <1>1, <1>3, QueuedIs
  <2>. QED  BY <2>1 DEF Init, Drawn, Content
<1>5. Shown = Nothing
  BY DEF Init, Shown
<1>. QED  BY <1>1, <1>2, <1>3, <1>4, <1>5 DEF ListInv

(* Memory is allocated for a node, which a thread may go on to append. *)
LEMMA AllocateKeepsLists ==
  ASSUME ListInv, owner = Nobody, UNCHANGED <<heads, drawVars>>, PlaceTypes',
         NEW e \in Entries \cup {Null}, mem' = [mem EXCEPT ![used + 1] = [entry |-> e, next |-> Null]],
         used' \in used + 1 .. HeapSize,
         NEW t \in Threads,
         \/ UNCHANGED <<owner, pc, job>>
         \/ /\ owner' = t /\ e \in Entries
            /\ pc' = [pc EXCEPT ![t] = "link"] /\ job'[t].node = used + 1
            /\ \A u \in Threads : u # t => job'[u] = job[u]
  PROVE  ListInv' /\ Silent
<1>. DEFINE n == used + 1
<1>1. /\ used \in Nat /\ HeapSize \in Nat /\ n \in Nodes /\ used < n
      /\ used' \in Nat /\ n <= used' /\ used' \in 0 .. HeapSize
      /\ mem \in Memory /\ pc \in [Threads -> {"idle", "link", "walk", "insert", "text"}]
  BY Numbered DEF ListInv, ListTypes, PlaceTypes, Nodes
<1>2. ListTypes'
  <2>1. mem' \in Memory
    BY <1>1 DEF Memory
  <2>2. owner' \in Threads \cup {Drawer, Nobody}
    BY DEF ListInv, ListTypes
  <2>. QED  BY <1>1, <2>1, <2>2 DEF ListInv, ListTypes, drawVars
<1>3. /\ \A u \in Threads : pc[u] \notin {"link", "walk"}
      /\ draw \notin {"lists", "free"} /\ draw' = draw
  BY NameAssumption DEF ListInv, Locked, drawVars
<1>4. \A u \in Threads : pc'[u] \in {"link", "walk"} => owner' = t /\ u = t /\ pc'[u] = "link"
  BY <1>1, <1>3
<1>5. Locked'
  <2>1. CASE UNCHANGED <<owner, pc, job>>
    BY <1>3, <2>1 DEF ListInv, Locked
  <2>2. CASE owner' = t /\ pc' = [pc EXCEPT ![t] = "link"]
    BY <1>1, <1>3, <2>2, NameAssumption DEF Locked
  <2>. QED  BY <2>1, <2>2
<1>6. /\ mem'[n] = [entry |-> e, next |-> Null]
      /\ \A x \in 1 .. used : mem'[x] = mem[x]
  BY <1>1 DEF Memory, Nodes
<1>7. PICK path \in [Lists -> Seq(Nodes)] : PathInv(path)
  BY DEF ListInv
<1>8. \A i \in Lists : /\ Linked(path[i], heads[i], mem', used')
                       /\ Content(path[i], mem') = Content(path[i], mem)
  <2>. DEFINE m == mem'
              higher == used'
  <2>1. higher \in Nat /\ used <= higher /\ \A x \in 1 .. used : m[x] = mem[x]
    BY <1>1, <1>6
  <2>. HIDE DEF m, higher
  <2>2. ASSUME NEW i \in Lists
        PROVE  Linked(path[i], heads[i], m, higher) /\ Content(path[i], m) = Content(path[i], mem)
    <3>1. path[i] \in Seq(Nodes) /\ Linked(path[i], heads[i], mem, used)
      BY <1>7 DEF PathInv
    <3>. QED  BY <1>1, <2>1, <3>1, LinkedBelow
  <2>. QED  BY <2>2 DEF m, higher
<1>9. PathInv(path)'
  <2>1. Appending(path)'
    <3>1. \A i \in Lists : \A j \in 1 .. Len(path[i]) : path[i][j] < n
      BY <1>1, <1>7 DEF PathInv, Linked, Nodes
    <3>2. ASSUME NEW u \in Threads, pc'[u] \in {"link", "walk"}
          PROVE  u = t /\ e \in Entries /\ job'[u].node = n
      BY <1>1, <1>3, <1>4, <3>2
    <3>. QED  BY <1>1, <1>6, <3>1, <3>2 DEF Appending
  <2>2. Walking(path)' /\ Disjoint(path)' /\ Drawing(path)'
    BY <1>3, <1>4, <1>7 DEF PathInv, Walking, Disjoint, Drawing
  <2>3. \A i \in Lists : Linked(path[i], heads'[i], mem', used')
    BY <1>8
  <2>. QED  BY <2>1, <2>2, <2>3 DEF PathInv
<1>10. Silent
  <2>1. ASSUME NEW i \in Lists PROVE Queued(i)' = Queued(i)
    BY <1>2, <1>3, <1>7, <1>8, <1>9, QueuedIs, QueuedIsNext DEF ListInv, Drawn
  <2>. QED  BY <1>3, <2>1 DEF Silent, Shown
<1>. QED  BY <1>2, <1>5, <1>7, <1>9, <1>10 DEF ListInv

(* A thread at the end of its list appends its node and releases the mutex. *)
Appends(t, i, p, n, path) ==
  /\ pc[t] \in {"link", "walk"} /\ i = job[t].list /\ p = path[i] /\ n = job[t].node
  /\ heads' = [heads EXCEPT ![i] = FirstOf(@, p, n)]
  /\ mem' = LinkLast(mem, p, n)
  /\ Release(t) /\ UNCHANGED <<used, drawVars>>

(* The thread that appends its node makes one list longer, by what it prints. *)
LEMMA AppendKeepsLists ==
  ASSUME ListTypes, Locked, NEW path \in [Lists -> Seq(Nodes)], PathInv(path), PlaceTypes',
         NEW t \in Threads, NEW i \in Lists, NEW p, NEW n, Appends(t, i, p, n, path)
  PROVE  ListInv' /\ Accepted
<1>. DEFINE q == Append(p, n)
            longer == [path EXCEPT ![i] = q]
            e == mem[n].entry
<1>0. /\ pc[t] \in {"link", "walk"} /\ i = job[t].list /\ p = path[i] /\ n = job[t].node
      /\ heads' = [heads EXCEPT ![i] = FirstOf(@, p, n)]
      /\ mem' = LinkLast(mem, p, n) /\ used' = used
      /\ Release(t) /\ UNCHANGED drawVars
  BY DEF Appends
<1>1. /\ pc \in [Threads -> {"idle", "link", "walk", "insert", "text"}] /\ job \in [Threads -> Jobs]
      /\ owner = t /\ owner' = Nobody /\ pc' = [pc EXCEPT ![t] = "idle"]
      /\ \A u \in Threads : u # t => owner # u /\ pc[u] \notin {"link", "walk"}
      /\ t # Drawer /\ draw \notin {"lists", "free"} /\ draw' = draw
      /\ used \in Nat /\ used <= HeapSize /\ HeapSize \in Nat /\ mem \in Memory /\ p \in Seq(Nodes)
  BY <1>0, NameAssumption, Numbered DEF ListTypes, PlaceTypes, Locked, Release, Goes, drawVars
<1>2. /\ n \in Nodes /\ n <= used /\ mem[n].next = Null /\ e \in Entries
      /\ \A k \in Lists : \A j \in 1 .. Len(path[k]) : path[k][j] < n
  BY <1>0 DEF PathInv, Appending
<1>3. Linked(p, heads[i], mem, used)
  BY <1>0 DEF PathInv
<1>4. heads'[i] = FirstOf(heads[i], p, n)
  BY <1>0 DEF ListTypes
<1>5. /\ q \in Seq(Nodes) /\ Linked(q, heads'[i], mem', used)
      /\ Content(q, mem') = Append(Content(p, mem), e) /\ mem' \in Memory
  <2>. DEFINE o == LinkLast(mem, p, n)
              head == heads[i]
  <2>1. Linked(p, head, mem, used) /\ n \in Nodes /\ Behind(n, p, mem, used)
    BY <1>0, <1>2, <1>3 DEF Behind
  <2>2. p \in Seq(Nodes) /\ mem \in Memory /\ used \in Nat
    BY <1>0, <1>1
  <2>. HIDE DEF e, q, head
  <2>3. /\ Append(p, n) \in Seq(Nodes) /\ Linked(Append(p, n), FirstOf(head, p, n), o, used)
        /\ Content(Append(p, n), o) = Append(Content(p, mem), mem[n].entry) /\ o \in Memory
    BY <2>1, <2>2, LinkedAppend, Zenon
  <2>4. heads'[i] = FirstOf(head, p, n) /\ mem' = o
    BY <1>0, <1>4 DEF head
  <2>. HIDE DEF o
  <2>. QED  BY <2>3, <2>4, Zenon DEF q, e
<1>6. ASSUME NEW k \in Lists, k # i
      PROVE  Linked(path[k], heads'[k], mem', used) /\ Content(path[k], mem') = Content(path[k], mem)
  <2>1. heads'[k] = heads[k]
    BY <1>0, <1>6 DEF ListTypes
  <2>2. \A j \in 1 .. Len(path[k]) : mem'[path[k][j]] = mem[path[k][j]]
    <3>1. CASE p = <<>>
      BY <1>0, <3>1 DEF LinkLast
    <3>2. CASE p # <<>>
      <4>1. Len(p) \in 1 .. Len(p) /\ p[Len(p)] \in Nodes
        BY <1>0, <1>1, <3>2, EmptySeq
      <4>2. ASSUME NEW j \in 1 .. Len(path[k]) PROVE path[k][j] # p[Len(p)] /\ path[k][j] \in Nodes
        BY <1>0, <1>6, <4>1 DEF PathInv, Disjoint
      <4>3. \A x \in Nodes : x # p[Len(p)] => mem'[x] = mem[x]
        BY <1>0, <1>1, <3>2, <4>1 DEF Memory, LinkLast
      <4>. QED  BY <4>2, <4>3
    <3>. QED  BY <3>1, <3>2
  <2>3. Linked(path[k], heads[k], mem, used)
    BY <1>0 DEF PathInv
  <2>. DEFINE m == mem'
  <2>. HIDE DEF m
  <2>4. \A j \in 1 .. Len(path[k]) : m[path[k][j]] = mem[path[k][j]]
    BY <1>0, <2>2 DEF m
  <2>5. Linked(path[k], heads[k], m, used)
    BY <1>0, <2>3, <2>4 DEF Linked
  <2>6. Content(path[k], m) = Content(path[k], mem)
    BY <1>0, <2>4 DEF Content
  <2>. QED  BY <2>1, <2>5, <2>6 DEF m
<1>7. /\ longer \in [Lists -> Seq(Nodes)] /\ longer[i] = q
      /\ \A k \in Lists : k # i => longer[k] = path[k]
  BY <1>0, <1>5
<1>. HIDE DEF longer
<1>8. ListTypes'
  <2>1. heads' \in [Lists -> Nodes \cup {Null}]
    BY <1>0, <1>2 DEF ListTypes, FirstOf
  <2>. QED  BY <1>0, <1>1, <1>5, <2>1 DEF ListTypes, drawVars
<1>9. Locked'
  BY <1>0, <1>1, NameAssumption DEF Locked
<1>10. PathInv(longer)'
  <2>1. \A k \in Lists : Linked(longer[k], heads'[k], mem', used')
    BY <1>0, <1>5, <1>6, <1>7
  <2>2. Disjoint(longer)
    <3>1. /\ Len(q) = Len(p) + 1 /\ Len(p) \in Nat /\ q[Len(p) + 1] = n
          /\ \A j \in 1 .. Len(p) : q[j] = p[j]
      BY <1>0, <1>1
    <3>2. ASSUME NEW k \in Lists, k # i, NEW j \in 1 .. Len(q), NEW l \in 1 .. Len(path[k])
          PROVE  q[j] # path[k][l]
      <4>1. CASE j \in 1 .. Len(p)
        BY <1>0, <3>1, <3>2, <4>1 DEF PathInv, Disjoint
      <4>2. CASE j = Len(p) + 1
        <5>1. path[k][l] < n /\ path[k][l] \in Nodes
          BY <1>0, <1>2, <3>2
        <5>. QED  BY <1>2, <3>1, <4>2, <5>1, Numbered DEF Nodes
      <4>. QED  BY <3>1, <4>1, <4>2
    <3>3. \A k, l \in Lists : k # i /\ l # i /\ k # l =>
            \A j \in 1 .. Len(path[k]), h \in 1 .. Len(path[l]) : path[k][j] # path[l][h]
      BY <1>0 DEF PathInv, Disjoint
    <3>. HIDE DEF q
    <3>4. ASSUME NEW k \in Lists, NEW l \in Lists, k # l,
                 NEW j \in 1 .. Len(longer[k]), NEW h \in 1 .. Len(longer[l])
          PROVE  longer[k][j] # longer[l][h]
      <4>1. CASE k = i
        BY <1>0, <1>7, <3>2, <3>4, <4>1
      <4>2. CASE l = i
        BY <1>0, <1>7, <3>2, <3>4, <4>2
      <4>3. CASE k # i /\ l # i
        BY <1>0, <1>7, <3>3, <3>4, <4>3
      <4>. QED  BY <4>1, <4>2, <4>3
    <3>. QED  BY <3>4 DEF Disjoint
  <2>3. Appending(longer)' /\ Walking(longer)' /\ Drawing(longer)'
    BY <1>0, <1>1 DEF Appending, Walking, Drawing
  <2>. QED  BY <2>1, <2>2, <2>3 DEF PathInv, Disjoint
<1>11. Accepted
  <2>1. ASSUME NEW k \in Lists PROVE Queued(k)' = IF k = i THEN Append(Queued(k), e) ELSE Queued(k)
    <3>1. Queued(k) = Content(path[k], mem)
      BY <1>0, <1>1, QueuedIs DEF Drawn
    <3>2. Queued(k)' = Content(longer[k], mem')
      BY <1>0, <1>1, <1>7, <1>8, <1>10, QueuedIsNext DEF Drawn
    <3>3. CASE k = i
      BY <1>0, <1>5, <1>7, <3>1, <3>2, <3>3, Zenon
    <3>4. CASE k # i
      BY <1>6, <1>7, <3>1, <3>2, <3>4, Zenon
    <3>. QED  BY <3>3, <3>4, Zenon
  <2>2. Shown' = Shown
    BY <1>0, <1>1 DEF Shown
  <2>. HIDE DEF e
  <2>. QED  BY <1>2, <2>1, <2>2 DEF Accepted
<1>. QED  BY <1>7, <1>8, <1>9, <1>10, <1>11 DEF ListInv

(* A step that leaves the lists and who works on them as they are *)
LEMMA OthersKeepLists ==
  ASSUME ListInv, PlaceTypes', UNCHANGED <<listVars, node, frame>>,
         \A t \in Threads : pc[t] \in {"link", "walk"} \/ pc'[t] \in {"link", "walk"} =>
                              pc'[t] = pc[t] /\ job'[t] = job[t],
         draw \in {"lists", "free"} \/ draw' \in {"lists", "free"} => draw' = draw /\ at' = at
  PROVE  ListInv' /\ Silent
<1>1. ListTypes' /\ Locked'
  BY DEF ListInv, ListTypes, Locked, listVars
<1>2. PICK path \in [Lists -> Seq(Nodes)] : PathInv(path)
  BY DEF ListInv
<1>3. Appending(path)' /\ Walking(path)'
  BY <1>2 DEF PathInv, Appending, Walking, listVars
<1>4. Drawing(path)'
  <2>1. CASE draw' \in {"lists", "free"}
    <3>1. draw' = draw /\ at' = at /\ node' = node /\ frame' = frame /\ mem' = mem
      BY <2>1 DEF listVars
    <3>2. Drawing(path)
      BY <1>2 DEF PathInv
    <3>3. CASE draw = "free"
      BY <3>1, <3>2, <3>3 DEF Drawing
    <3>4. CASE draw = "lists"
      BY <3>1, <3>2, <3>4 DEF Drawing
    <3>. QED  BY <2>1, <3>1, <3>3, <3>4
  <2>2. CASE draw' \notin {"lists", "free"}
    BY <2>2 DEF Drawing
  <2>. QED  BY <2>1, <2>2
<1>5. PathInv(path)'
  BY <1>2, <1>3, <1>4 DEF PathInv, Disjoint, listVars
<1>6. ASSUME NEW i \in Lists PROVE Queued(i)' = Queued(i)
  <2>1. Queued(i) = IF Drawn(i) THEN frame[i] ELSE Content(path[i], mem)
    BY <1>2, QueuedIs DEF ListInv
  <2>2. Queued(i)' = IF Drawn(i)' THEN frame'[i] ELSE Content(path[i], mem')
    BY <1>1, <1>5, QueuedIsNext
  <2>3. Drawn(i)' = Drawn(i) /\ frame'[i] = frame[i] /\ mem' = mem
    BY DEF Drawn, listVars
  <2>. QED  BY <2>1, <2>2, <2>3
<1>7. Shown' = Shown
  BY DEF Shown
<1>. QED  BY <1>1, <1>2, <1>5, <1>6, <1>7 DEF ListInv, Silent

(* A node that is allocated is in no list yet. *)
LEMMA StoreKeepsLists ==
  ASSUME ListInv, NEW t \in Threads,
         (\E i \in Lists, e \in Entries : Store(t, i, e)) \/ (\E e \in Entries : NoRoom(t, e))
  PROVE  ListInv' /\ Silent
<1>0. ListTypes /\ used \in Nat /\ HeapSize \in Nat /\ PlaceTypes
  BY Numbered DEF ListInv, ListTypes
<1>1. ASSUME NEW i \in Lists, NEW e \in Entries, Store(t, i, e) PROVE ListInv' /\ Silent
  <2>1. /\ owner = Nobody /\ owner' = t /\ UNCHANGED <<heads, drawVars>>
        /\ used' \in used + 1 .. HeapSize
        /\ mem' = [mem EXCEPT ![used + 1] = [entry |-> e, next |-> Null]]
        /\ pc' = [pc EXCEPT ![t] = "link"]
        /\ job' = [job EXCEPT ![t] = [list |-> i, node |-> used + 1, at |-> Null]]
    BY <1>0, <1>1 DEF Store, Goes, NewNode, Size
  <2>2. used + 1 \in Nodes
    BY <1>0, <2>1 DEF Nodes
  <2>3. [list |-> i, node |-> used + 1, at |-> Null] \in Jobs
    BY <2>2 DEF Jobs
  <2>4. PlaceTypes'
    BY <1>0, <2>1, <2>3 DEF PlaceTypes, drawVars
  <2>5. job'[t].node = used + 1 /\ \A u \in Threads : u # t => job'[u] = job[u]
    BY <1>0, <2>1 DEF PlaceTypes
  <2>. QED  BY <2>1, <2>4, <2>5, AllocateKeepsLists
<1>2. ASSUME NEW e \in Entries, NoRoom(t, e) PROVE ListInv' /\ Silent
  <2>1. /\ owner = Nobody /\ UNCHANGED <<owner, heads, pc, job, drawVars>>
        /\ used' \in used + 1 .. HeapSize
        /\ mem' = [mem EXCEPT ![used + 1] = [entry |-> Null, next |-> Null]]
    BY <1>0, <1>2 DEF NoRoom, NewNode
  <2>2. PlaceTypes'
    BY <1>0, <2>1 DEF PlaceTypes, drawVars
  <2>. DEFINE e0 == Null
  <2>3. e0 \in Entries \cup {Null}
    OBVIOUS
  <2>. QED  BY <2>1, <2>2, <2>3, AllocateKeepsLists
<1>. QED  BY <1>1, <1>2

(* A thread goes to a node of its list. *)
LEMMA WalkOnKeepsLists ==
  ASSUME ListInv, NEW path \in [Lists -> Seq(Nodes)], PathInv(path),
         NEW t \in Threads, pc[t] \in {"link", "walk"}, pc' = [pc EXCEPT ![t] = "walk"],
         NEW j \in 1 .. Len(path[job[t].list]),
         job' = [job EXCEPT ![t].at = path[job[t].list][j]],
         UNCHANGED <<listVars, drawVars>>
  PROVE  ListInv' /\ Silent
<1>. DEFINE i == job[t].list
            x == path[i][j]
<1>0. /\ pc \in [Threads -> {"idle", "link", "walk", "insert", "text"}] /\ job \in [Threads -> Jobs]
      /\ i \in Lists /\ x \in Nodes /\ Nodes \subseteq Nat
  <2>1. pc \in [Threads -> {"idle", "link", "walk", "insert", "text"}] /\ job \in [Threads -> Jobs]
    BY DEF ListInv, ListTypes, PlaceTypes
  <2>2. i \in Lists
    BY <2>1 DEF Jobs
  <2>3. path[i] \in Seq(Nodes)
    BY <2>2
  <2>4. x \in Nodes
    BY <2>3
  <2>. QED  BY <2>1, <2>2, <2>4, Numbered DEF Nodes
<1>1. /\ job'[t].list = i /\ job'[t].node = job[t].node /\ job'[t].at = x
      /\ job' \in [Threads -> Jobs]
      /\ \A u \in Threads : u # t => job'[u] = job[u] /\ pc'[u] = pc[u]
      /\ pc'[t] = "walk"
  BY <1>0 DEF Jobs
<1>2. ListTypes' /\ Locked'
  BY <1>0, <1>1 DEF ListInv, ListTypes, PlaceTypes, Locked, listVars, drawVars
<1>3. Appending(path)'
  BY <1>1 DEF PathInv, Appending, listVars
<1>4. Walking(path)'
  <2>1. ASSUME NEW u \in Threads, pc'[u] = "walk"
        PROVE  \E k \in 1 .. Len(path[job'[u].list]) : job'[u].at = path[job'[u].list][k]
    <3>1. CASE u = t
      BY <1>1, <3>1
    <3>2. CASE u # t
      BY <1>1, <2>1, <3>2 DEF PathInv, Walking
    <3>. QED  BY <3>1, <3>2
  <2>. QED  BY <2>1 DEF Walking
<1>5. Drawing(path)'
  BY DEF PathInv, Drawing, listVars, drawVars
<1>6. PathInv(path)'
  BY <1>3, <1>4, <1>5 DEF PathInv, Disjoint, listVars
<1>7. ASSUME NEW k \in Lists PROVE Queued(k)' = Queued(k)
  <2>1. Queued(k) = IF Drawn(k) THEN frame[k] ELSE Content(path[k], mem)
    BY QueuedIs DEF ListInv
  <2>2. Queued(k)' = IF Drawn(k)' THEN frame'[k] ELSE Content(path[k], mem')
    BY <1>2, <1>6, QueuedIsNext
  <2>3. Drawn(k)' = Drawn(k) /\ frame'[k] = frame[k] /\ mem' = mem
    BY DEF Drawn, listVars, drawVars
  <2>. QED  BY <2>1, <2>2, <2>3
<1>8. Shown' = Shown
  BY DEF Shown, drawVars
<1>. QED  BY <1>2, <1>6, <1>7, <1>8 DEF ListInv, Silent

(* A thread walks on, or appends its node at the end of its list. *)
LEMMA PrintingKeepsLists ==
  ASSUME ListInv, NEW t \in Threads, Prints(t)
  PROVE  ListInv' /\ (Silent \/ Accepted)
<1>. DEFINE i == job[t].list
            n == job[t].node
<1>0. /\ pc \in [Threads -> {"idle", "link", "walk", "insert", "text"}] /\ job \in [Threads -> Jobs]
      /\ i \in Lists /\ Null \notin Nodes /\ heads \in [Lists -> Nodes \cup {Null}] /\ mem \in Memory
      /\ ListTypes /\ PlaceTypes /\ Locked
  BY NameAssumption DEF ListInv, ListTypes, PlaceTypes, Jobs, Nodes
<1>1. PICK path \in [Lists -> Seq(Nodes)] : PathInv(path)
  BY DEF ListInv
<1>. DEFINE p == path[i]
<1>2. /\ p \in Seq(Nodes) /\ Len(p) \in Nat /\ (p = <<>> <=> Len(p) = 0)
      /\ heads[i] = (IF p = <<>> THEN Null ELSE p[1])
      /\ \A j \in 1 .. Len(p) : p[j] \in Nodes /\ mem[p[j]].next = IF j = Len(p) THEN Null ELSE p[j + 1]
  BY <1>0, <1>1, EmptySeq DEF PathInv, Linked
<1>3. ASSUME Release(t) PROVE PlaceTypes' \/ ~UNCHANGED drawVars
  BY <1>0, <1>3, NoJobIsJob DEF Release, Goes, PlaceTypes, drawVars
<1>4. ASSUME Link(t), heads[i] = Null PROVE ListInv' /\ Accepted
  <2>1. /\ pc[t] = "link" /\ heads' = [heads EXCEPT ![i] = n] /\ mem' = mem /\ used' = used
        /\ Release(t) /\ UNCHANGED drawVars
    BY <1>4 DEF Link
  <2>2. p = <<>>
    BY <1>0, <1>2, <1>4
  <2>3. Appends(t, i, p, n, path)
    BY <2>1, <2>2 DEF Appends, LinkLast, FirstOf
  <2>. HIDE DEF i, n, p
  <2>. QED  BY <1>0, <1>1, <1>3, <2>1, <2>3, AppendKeepsLists
<1>5. ASSUME Link(t), heads[i] # Null PROVE ListInv' /\ Silent
  <2>1. /\ pc[t] = "link" /\ job' = [job EXCEPT ![t].at = heads[i]] /\ pc' = [pc EXCEPT ![t] = "walk"]
        /\ UNCHANGED <<listVars, drawVars>>
    BY <1>5 DEF Link, Goes, listVars
  <2>2. 1 \in 1 .. Len(p) /\ heads[i] = p[1]
    BY <1>2, <1>5
  <2>. QED  BY <1>1, <2>1, <2>2, WalkOnKeepsLists
<1>6. ASSUME Walk(t) PROVE \E j \in 1 .. Len(p) : job[t].at = p[j]
  BY <1>1, <1>6 DEF Walk, PathInv, Walking
<1>7. ASSUME Walk(t), mem[job[t].at].next = Null PROVE ListInv' /\ Accepted
  <2>1. PICK j \in 1 .. Len(p) : job[t].at = p[j]
    BY <1>6, <1>7
  <2>2. j = Len(p) /\ p # <<>>
    <3>1. j # Len(p) => j + 1 \in 1 .. Len(p)
      BY <1>2
    <3>2. mem[p[j]].next = IF j = Len(p) THEN Null ELSE p[j + 1]
      BY <1>2
    <3>3. j = Len(p)
      BY <1>0, <1>2, <1>7, <2>1, <3>1, <3>2
    <3>. QED  BY <1>2, <3>3
  <2>3. /\ pc[t] = "walk" /\ mem' = [mem EXCEPT ![p[Len(p)]].next = n] /\ heads' = heads /\ used' = used
        /\ Release(t) /\ UNCHANGED drawVars
    BY <1>7, <2>1, <2>2 DEF Walk
  <2>4. Appends(t, i, p, n, path)
    <3>1. [heads EXCEPT ![i] = FirstOf(@, p, n)] = heads
      BY <1>0, <2>2 DEF FirstOf
    <3>. QED  BY <2>2, <2>3, <3>1 DEF Appends, LinkLast
  <2>. HIDE DEF i, n, p
  <2>. QED  BY <1>0, <1>1, <1>3, <2>3, <2>4, AppendKeepsLists
<1>8. ASSUME Walk(t), mem[job[t].at].next # Null PROVE ListInv' /\ Silent
  <2>1. PICK j \in 1 .. Len(p) : job[t].at = p[j]
    BY <1>6, <1>8
  <2>2. j + 1 \in 1 .. Len(p) /\ mem[job[t].at].next = p[j + 1]
    BY <1>2, <1>8, <2>1
  <2>3. /\ pc[t] = "walk" /\ job' = [job EXCEPT ![t].at = p[j + 1]] /\ pc' = pc
        /\ UNCHANGED <<listVars, drawVars>>
    BY <1>8, <2>2 DEF Walk, listVars
  <2>4. pc' = [pc EXCEPT ![t] = "walk"]
    BY <1>0, <2>3
  <2>. QED  BY <1>1, <2>2, <2>3, <2>4, WalkOnKeepsLists
<1>. QED  BY <1>4, <1>5, <1>7, <1>8 DEF Prints

(* The renderer begins at the head of a list, *)
LEMMA DrawnFromHead ==
  ASSUME NEW p \in Seq(Nodes), NEW head, NEW m, NEW top, Linked(p, head, m, top)
  PROVE  DrawnTo(head, <<>>, p, m)
<1>1. head = IF 1 = Len(p) + 1 THEN Null ELSE p[1]
  BY EmptySeq DEF Linked
<1>2. <<>> = [l \in 1 .. 1 - 1 |-> m[p[l]].entry]
  OBVIOUS
<1>. QED  BY <1>1, <1>2 DEF DrawnTo

(* goes on to the next node, *)
LEMMA DrawnFurther ==
  ASSUME NEW p \in Seq(Nodes), NEW head, NEW m \in Memory, NEW top, Linked(p, head, m, top),
         NEW n, NEW drawn, DrawnTo(n, drawn, p, m), n # Null
  PROVE  DrawnTo(m[n].next, Append(drawn, m[n].entry), p, m) /\ n \in Nodes
<1>1. PICK j \in 1 .. Len(p) + 1 : /\ n = IF j = Len(p) + 1 THEN Null ELSE p[j]
                                   /\ drawn = [l \in 1 .. j - 1 |-> m[p[l]].entry]
  BY DEF DrawnTo
<1>2. /\ j \in 1 .. Len(p) /\ n = p[j] /\ n \in Nodes
      /\ j + 1 \in 1 .. Len(p) + 1 /\ j \in Nat /\ (j + 1) - 1 = j
  BY <1>1
<1>3. m[n].next = IF j + 1 = Len(p) + 1 THEN Null ELSE p[j + 1]
  BY <1>2 DEF Linked
<1>4. Append(drawn, m[n].entry) = [l \in 1 .. j |-> m[p[l]].entry]
  <2>. DEFINE S == {m[x].entry : x \in Nodes}
              more == [l \in 1 .. j |-> m[p[l]].entry]
              e == m[n].entry
              a == Append(drawn, e)
  <2>1. /\ drawn \in Seq(S) /\ Len(drawn) = j - 1 /\ \A l \in 1 .. j - 1 : drawn[l] = m[p[l]].entry
        /\ e \in S
    BY <1>1, <1>2
  <2>2. more \in Seq(S) /\ Len(more) = j /\ \A l \in 1 .. j : more[l] = m[p[l]].entry
    BY <1>2
  <2>. HIDE DEF e, S, more
  <2>3. a \in Seq(S) /\ Len(a) = j /\ \A l \in 1 .. j : a[l] = IF l = j THEN e ELSE drawn[l]
    BY <1>2, <2>1
  <2>. HIDE DEF a
  <2>4. \A l \in 1 .. j : a[l] = more[l]
    BY <1>2, <2>1, <2>2, <2>3 DEF e
  <2>5. a = more
    BY <2>2, <2>3, <2>4, SeqEqual
  <2>. QED  BY <2>5 DEF a, e, more
<1>5. [l \in 1 .. (j + 1) - 1 |-> m[p[l]].entry] = [l \in 1 .. j |-> m[p[l]].entry]
  BY <1>2
<1>. QED  BY <1>2, <1>3, <1>4, <1>5 DEF DrawnTo

(* and has drawn the list when there is none. *)
LEMMA DrawnToEnd ==
  ASSUME NEW p \in Seq(Nodes), NEW m, NEW drawn, DrawnTo(Null, drawn, p, m)
  PROVE  drawn = Content(p, m)
<1>1. PICK j \in 1 .. Len(p) + 1 : /\ Null = IF j = Len(p) + 1 THEN Null ELSE p[j]
                                   /\ drawn = [l \in 1 .. j - 1 |-> m[p[l]].entry]
  BY DEF DrawnTo
<1>2. \A k \in 1 .. Len(p) : p[k] # Null
  <2>1. Null \notin Nodes
    BY NameAssumption DEF Nodes
  <2>. QED  BY <2>1
<1>3. j = Len(p) + 1
  BY <1>1, <1>2
<1>. QED  BY <1>1, <1>3 DEF Content

(* The renderer that got the mutex is at the head of the first list. *)
LEMMA DrawBeginKeepsLists ==
  ASSUME ListInv, DrawBegin
  PROVE  ListInv' /\ Silent
<1>1. /\ draw = "idle" /\ owner = Nobody /\ owner' = Drawer /\ draw' = "lists" /\ at' = 1
      /\ node' = heads[1] /\ frame' = Nothing /\ UNCHANGED <<heads, mem, used, pc, job>>
  BY DEF DrawBegin
<1>2. 1 \in Lists /\ Lists \subseteq Nat \ {0}
  BY Numbered
<1>3. ListTypes'
  BY <1>1 DEF ListInv, ListTypes, PlaceTypes, Nothing
<1>4. Locked'
  BY <1>1, NameAssumption DEF ListInv, Locked
<1>5. PICK path \in [Lists -> Seq(Nodes)] : PathInv(path)
  BY DEF ListInv
<1>6. PathInv(path)'
  <2>1. Appending(path)' /\ Walking(path)' /\ Disjoint(path)'
    BY <1>1, <1>5 DEF PathInv, Appending, Walking, Disjoint
  <2>2. \A i \in Lists : Linked(path[i], heads'[i], mem', used')
    BY <1>1, <1>5 DEF PathInv
  <2>3. DrawnTo(heads[1], <<>>, path[1], mem)
    <3>1. path[1] \in Seq(Nodes) /\ Linked(path[1], heads[1], mem, used)
      BY <1>2, <1>5 DEF PathInv
    <3>. QED  BY <3>1, DrawnFromHead
  <2>4. frame'[1] = <<>> /\ \A i \in Lists : ~(i < 1) /\ frame'[i] = <<>>
    BY <1>1, <1>2 DEF Nothing
  <2>5. Drawing(path)'
    BY <1>1, <1>2, <2>3, <2>4 DEF Drawing
  <2>. QED  BY <2>1, <2>2, <2>5 DEF PathInv
<1>7. ASSUME NEW i \in Lists PROVE Queued(i)' = Queued(i)
  <2>1. Queued(i) = Content(path[i], mem)
    BY <1>1, <1>5, QueuedIs DEF ListInv, Drawn
  <2>2. ~Drawn(i)'
    BY <1>1, <1>2 DEF Drawn
  <2>3. Queued(i)' = Content(path[i], mem')
    BY <1>3, <1>6, <2>2, QueuedIsNext
  <2>. QED  BY <1>1, <2>1, <2>3
<1>8. Shown' = Shown
  BY <1>1 DEF Shown
<1>. QED  BY <1>3, <1>4, <1>5, <1>6, <1>7, <1>8 DEF ListInv, Silent

(* The renderer draws a node and goes to the next one; what is still queued is
   the same, as nothing of this list is forgotten yet. *)
LEMMA DrawNodeKeepsLists ==
  ASSUME ListInv, DrawNode
  PROVE  ListInv' /\ Silent
<1>1. /\ draw = "lists" /\ node # Null
      /\ frame' = [frame EXCEPT ![at] = Append(@, mem[node].entry)]
      /\ node' = mem[node].next /\ UNCHANGED <<listVars, pc, job, draw, at>>
  BY DEF DrawNode
<1>2. PICK path \in [Lists -> Seq(Nodes)] : PathInv(path)
  BY DEF ListInv
<1>3. /\ at \in Lists /\ DrawnTo(node, frame[at], path[at], mem)
      /\ \A i \in Lists : (i < at => path[i] = <<>>) /\ (i > at => frame[i] = <<>>)
  BY <1>1, <1>2 DEF PathInv, Drawing
<1>4. DrawnTo(mem[node].next, Append(frame[at], mem[node].entry), path[at], mem) /\ node \in Nodes
  <2>1. path[at] \in Seq(Nodes) /\ Linked(path[at], heads[at], mem, used) /\ mem \in Memory
    BY <1>2, <1>3 DEF PathInv, ListInv, ListTypes
  <2>. QED  BY <1>1, <1>3, <2>1, DrawnFurther, Zenon
<1>5. ListTypes'
  <2>1. mem[node].entry \in Entries \cup {Null}
    BY <1>4 DEF ListInv, ListTypes, Memory
  <2>2. frame' \in [Lists -> Seq(Entries \cup {Null})]
    <3>. DEFINE S == Entries \cup {Null}
    <3>1. frame \in [Lists -> Seq(S)] /\ mem[node].entry \in S
      BY <2>1 DEF ListInv, ListTypes
    <3>. HIDE DEF S
    <3>2. frame' \in [Lists -> Seq(S)]
      BY <1>1, <1>3, <3>1
    <3>. QED  BY <3>2 DEF S
  <2>. QED  BY <1>1, <2>2 DEF ListInv, ListTypes, PlaceTypes, listVars
<1>6. Locked'
  BY <1>1 DEF ListInv, Locked, listVars
<1>7. /\ frame'[at] = Append(frame[at], mem[node].entry)
      /\ \A i \in Lists : i # at => frame'[i] = frame[i]
  BY <1>1, <1>3 DEF ListInv, ListTypes
<1>8. PathInv(path)'
  <2>1. /\ Appending(path)' /\ Walking(path)' /\ Disjoint(path)'
        /\ \A i \in Lists : Linked(path[i], heads[i], mem, used)'
    BY <1>1, <1>2 DEF PathInv, Appending, Walking, Disjoint, listVars
  <2>2. Drawing(path)'
    <3>1. \A i \in Lists : i > at => i # at
      BY <1>3, Numbered
    <3>. QED  BY <1>1, <1>3, <1>4, <1>7, <3>1 DEF Drawing, listVars
  <2>. QED  BY <2>1, <2>2 DEF PathInv
<1>9. ASSUME NEW i \in Lists PROVE Queued(i)' = Queued(i)
  <2>1. Queued(i) = IF Drawn(i) THEN frame[i] ELSE Content(path[i], mem)
    BY <1>2, QueuedIs DEF ListInv
  <2>2. Queued(i)' = IF Drawn(i)' THEN frame'[i] ELSE Content(path[i], mem')
    BY <1>5, <1>8, QueuedIsNext
  <2>3. Drawn(i)' = Drawn(i) /\ mem' = mem /\ (Drawn(i) => frame'[i] = frame[i])
    <3>1. Drawn(i) => i # at
      BY <1>3, Numbered DEF Drawn
    <3>. QED  BY <1>1, <1>7, <3>1 DEF Drawn, listVars
  <2>. QED  BY <2>1, <2>2, <2>3
<1>10. Shown' = Shown
  BY <1>1 DEF Shown
<1>. QED  BY <1>2, <1>5, <1>6, <1>8, <1>9, <1>10 DEF ListInv, Silent

(* The renderer forgets a list that it has drawn; with the last one the frame is
   shown and nothing is queued. *)
LEMMA WipeListKeepsLists ==
  ASSUME ListInv, WipeList
  PROVE  ListInv' /\ (Silent \/ Showing)
<1>1. /\ draw = "lists" /\ node = Null
      /\ heads' = [heads EXCEPT ![at] = Null] /\ UNCHANGED <<owner, mem, used, pc, job, frame>>
      /\ IF at + 1 \in Lists THEN at' = at + 1 /\ node' = heads[at + 1] /\ draw' = draw
                             ELSE at' = 1 /\ draw' = "free" /\ node' = node
  BY DEF WipeList
<1>2. PICK path \in [Lists -> Seq(Nodes)] : PathInv(path)
  BY DEF ListInv
<1>3. /\ at \in Lists /\ at \in Nat /\ DrawnTo(node, frame[at], path[at], mem) /\ Lists \subseteq Nat
      /\ \A i \in Lists : (i < at => path[i] = <<>>) /\ (i > at => frame[i] = <<>>)
      /\ \A i \in Lists : Linked(path[i], heads[i], mem, used)
  BY <1>1, <1>2, Numbered DEF PathInv, Drawing
<1>4. frame[at] = Content(path[at], mem)
  <2>1. path[at] \in Seq(Nodes) /\ DrawnTo(Null, frame[at], path[at], mem)
    BY <1>1, <1>2, <1>3
  <2>. QED  BY <2>1, DrawnToEnd
<1>5. PICK rest \in [Lists -> Seq(Nodes)] :
        rest[at] = <<>> /\ \A i \in Lists : i # at => rest[i] = path[i]
  <2>1. [path EXCEPT ![at] = <<>>] \in [Lists -> Seq(Nodes)]
    BY <1>3
  <2>. QED  BY <1>3, <2>1
<1>6. /\ heads'[at] = Null /\ \A i \in Lists : i # at => heads'[i] = heads[i]
      /\ heads' \in [Lists -> Nodes \cup {Null}] /\ heads \in [Lists -> Nodes \cup {Null}]
  BY <1>1, <1>3 DEF ListInv, ListTypes
<1>7. ListTypes'
  BY <1>1, <1>3, <1>6 DEF ListInv, ListTypes, PlaceTypes
<1>8. Locked'
  BY <1>1 DEF ListInv, Locked
<1>9. \A i \in Lists : Linked(rest[i], heads'[i], mem', used')
  <2>1. Linked(<<>>, Null, mem, used)
    BY DEF Linked
  <2>. QED  BY <1>1, <1>3, <1>5, <1>6, <2>1
<1>10. Appending(rest)' /\ Walking(rest)' /\ Disjoint(rest)
  <2>1. \A t \in Threads : pc[t] \notin {"link", "walk"}
    BY <1>1, NameAssumption DEF ListInv, Locked
  <2>2. \A i \in Lists : i # at => rest[i] = path[i]
    BY <1>5
  <2>3. Disjoint(rest)
    <3>1. Disjoint(path)
      BY <1>2 DEF PathInv
    <3>2. ASSUME NEW i \in Lists, NEW k \in Lists, i # k,
                 NEW j \in 1 .. Len(rest[i]), NEW l \in 1 .. Len(rest[k])
          PROVE  rest[i][j] # rest[k][l]
      <4>1. i # at /\ k # at
        BY <1>5, <3>2
      <4>. QED  BY <1>5, <3>1, <3>2, <4>1 DEF Disjoint
    <3>. QED  BY <3>2 DEF Disjoint
  <2>. QED  BY <1>1, <2>1, <2>3 DEF Appending, Walking
<1>11. ASSUME NEW i \in Lists
       PROVE  Queued(i) = IF i <= at THEN frame[i] ELSE Content(path[i], mem)
  <2>1. Queued(i) = IF Drawn(i) THEN frame[i] ELSE Content(path[i], mem)
    BY <1>2, QueuedIs DEF ListInv
  <2>2. CASE i = at
    BY <1>3, <1>4, <2>1, <2>2 DEF Drawn
  <2>3. CASE i # at
    BY <1>1, <1>3, <2>1, <2>3 DEF Drawn
  <2>. QED  BY <2>2, <2>3
<1>12. CASE at + 1 \in Lists
  <2>1. at' = at + 1 /\ node' = heads[at + 1] /\ draw' = "lists" /\ frame' = frame /\ mem' = mem
    BY <1>1, <1>12
  <2>2. DrawnTo(heads[at + 1], <<>>, path[at + 1], mem)
    <3>. DEFINE k == at + 1
    <3>1. path[k] \in Seq(Nodes) /\ Linked(path[k], heads[k], mem, used)
      BY <1>2, <1>3, <1>12
    <3>. HIDE DEF k
    <3>2. DrawnTo(heads[k], <<>>, path[k], mem)
      BY <3>1, DrawnFromHead
    <3>. QED  BY <3>2 DEF k
  <2>3. rest[at + 1] = path[at + 1] /\ frame[at + 1] = <<>>
    BY <1>3, <1>5, <1>12
  <2>4. \A i \in Lists : (i < at + 1 => rest[i] = <<>>) /\ (i > at + 1 => frame[i] = <<>>)
    BY <1>3, <1>5
  <2>5. Drawing(rest)'
    BY <1>12, <2>1, <2>2, <2>3, <2>4 DEF Drawing
  <2>6. PathInv(rest)'
    BY <1>9, <1>10, <2>5 DEF PathInv, Disjoint
  <2>7. ASSUME NEW i \in Lists PROVE Queued(i)' = Queued(i)
    <3>1. Queued(i)' = IF Drawn(i)' THEN frame'[i] ELSE Content(rest[i], mem')
      BY <1>5, <1>7, <2>6, QueuedIsNext
    <3>2. Drawn(i)' <=> i <= at
      BY <1>3, <2>1 DEF Drawn
    <3>3. ~(i <= at) => rest[i] = path[i]
      BY <1>3, <1>5
    <3>. QED  BY <1>11, <2>1, <3>1, <3>2, <3>3
  <2>8. Shown' = Shown
    BY <1>1, <2>1 DEF Shown
  <2>. QED  BY <1>5, <1>7, <1>8, <2>6, <2>7, <2>8 DEF ListInv, Silent
<1>13. CASE at + 1 \notin Lists
  <2>1. at' = 1 /\ draw' = "free" /\ frame' = frame
    BY <1>1, <1>13
  <2>2. \A i \in Lists : i <= at /\ rest[i] = <<>>
    <3>1. ASSUME NEW i \in Lists PROVE i <= at
      <4>1. 1 .. i \subseteq Lists /\ i \in Nat
        BY Numbered
      <4>2. i > at => at + 1 \in 1 .. i
        BY <1>3, <4>1
      <4>. QED  BY <1>3, <1>13, <4>1, <4>2
    <3>2. ASSUME NEW i \in Lists PROVE rest[i] = <<>>
      <4>1. i \in Nat /\ i <= at /\ (i # at => i < at)
        BY <1>3, <3>1
      <4>. QED  BY <1>3, <1>5, <4>1
    <3>. QED  BY <3>1, <3>2
  <2>3. PathInv(rest)'
    BY <1>9, <1>10, <2>1, <2>2 DEF PathInv, Drawing, Disjoint
  <2>4. ASSUME NEW i \in Lists PROVE Queued(i)' = <<>>
    <3>1. Queued(i)' = IF Drawn(i)' THEN frame'[i] ELSE Content(rest[i], mem')
      BY <1>5, <1>7, <2>3, QueuedIsNext
    <3>. QED  BY <2>1, <2>2, <3>1 DEF Drawn, Content
  <2>5. Shown' = [i \in Lists |-> Queued(i)]
    <3>1. frame = [i \in Lists |-> frame[i]]
      BY DEF ListInv, ListTypes
    <3>2. \A i \in Lists : frame[i] = Queued(i)
      BY <1>11, <2>2
    <3>3. Shown' = frame
      BY <2>1 DEF Shown
    <3>. QED  BY <3>1, <3>2, <3>3
  <2>. QED  BY <1>5, <1>7, <1>8, <2>3, <2>4, <2>5 DEF ListInv, Showing
<1>. QED  BY <1>12, <1>13

(* The heap is emptied when no list has a node; the frame leaves the screen. *)
LEMMA FreeAllKeepsLists ==
  ASSUME ListInv, FreeAllAndUnlock
  PROVE  ListInv' /\ Clearing
<1>1. /\ draw = "free" /\ used' = 0 /\ owner' = Nobody /\ draw' = "toasts" /\ frame' = Nothing
      /\ mem' = [n \in Nodes |-> [mem[n] EXCEPT !.entry = Null]]
      /\ UNCHANGED <<heads, pc, job, at, node>>
  BY DEF FreeAllAndUnlock
<1>2. PICK path \in [Lists -> Seq(Nodes)] : PathInv(path)
  BY DEF ListInv
<1>3. \A i \in Lists : path[i] = <<>> /\ heads[i] = Null
  BY <1>1, <1>2 DEF PathInv, Drawing, Linked
<1>4. ListTypes'
  <2>1. mem' \in Memory
    BY <1>1 DEF ListInv, ListTypes, Memory
  <2>. QED  BY <1>1, <2>1, Numbered DEF ListInv, ListTypes, PlaceTypes, Nothing
<1>5. \A t \in Threads : pc[t] \notin {"link", "walk"}
  BY <1>1, NameAssumption DEF ListInv, Locked
<1>6. Locked'
  BY <1>1, <1>5, NameAssumption DEF Locked
<1>7. PathInv(path)'
  BY <1>1, <1>3, <1>5 DEF PathInv, Linked, Disjoint, Appending, Walking, Drawing
<1>8. ASSUME NEW i \in Lists PROVE Queued(i)' = Queued(i)
  <2>1. Queued(i) = Content(path[i], mem)
    BY <1>1, <1>2, QueuedIs DEF ListInv, Drawn
  <2>2. Queued(i)' = Content(path[i], mem')
    BY <1>1, <1>4, <1>7, QueuedIsNext DEF Drawn
  <2>. QED  BY <1>3, <2>1, <2>2 DEF Content
<1>9. Shown' = Nothing
  BY <1>1 DEF Shown
<1>. QED  BY <1>2, <1>4, <1>6, <1>7, <1>8, <1>9 DEF ListInv, Clearing

-----------------------------------------------------------------------------
(* The theorems *)

WriterInv == ListInv /\ ToastInv

(* Every step keeps the invariant, and is one of the queue or none. *)
LEMMA WriterStep ==
  ASSUME WriterInv, [Next]_vars
  PROVE  WriterInv' /\ (Silent \/ Accepted \/ Showing \/ Clearing)
<1>. DEFINE Outcome == ListInv' /\ (Silent \/ Accepted \/ Showing \/ Clearing)
<1>0. /\ ListInv /\ ToastInv /\ PlaceTypes
      /\ pc \in [Threads -> {"idle", "link", "walk", "insert", "text"}] /\ job \in [Threads -> Jobs]
  BY DEF WriterInv, ToastInv, ToastTypes, PlaceTypes
<1>1. ASSUME NEW t \in Threads,
             (\E i \in Lists, e \in Entries : Store(t, i, e)) \/ (\E e \in Entries : NoRoom(t, e))
      PROVE  Outcome
  BY <1>0, <1>1, StoreKeepsLists
<1>2. ASSUME NEW t \in Threads, Prints(t) PROVE Outcome
  BY <1>0, <1>2, PrintingKeepsLists
<1>3. ASSUME NEW t \in Threads, NEW ttl \in Ttls, Toast(t, ttl) PROVE Outcome
  <2>1. PlaceTypes'
    BY <1>0, <1>3, ToastKeepsToasts DEF ToastInv, ToastTypes
  <2>2. /\ pc[t] = "idle" /\ UNCHANGED <<listVars, drawVars>> /\ pc' = [pc EXCEPT ![t] = "insert"]
        /\ \A u \in Threads : u # t => job'[u] = job[u]
    BY <1>0, <1>3 DEF Toast, Goes
  <2>3. \A u \in Threads : pc[u] \in {"link", "walk"} \/ pc'[u] \in {"link", "walk"} =>
                             pc'[u] = pc[u] /\ job'[u] = job[u]
    BY <1>0, <2>2
  <2>. QED  BY <1>0, <2>1, <2>2, <2>3, OthersKeepLists DEF drawVars
<1>4. ASSUME NEW t \in Threads, Insert(t) \/ SetText(t) PROVE Outcome
  <2>1. /\ pc[t] \in {"insert", "text"} /\ UNCHANGED <<listVars, drawVars>>
        /\ pc' = pc \/ pc' = [pc EXCEPT ![t] = "text"] \/ pc' = [pc EXCEPT ![t] = "idle"]
        /\ \A u \in Threads : u # t => job'[u] = job[u]
    BY <1>0, <1>4 DEF Insert, CompareExchange, InSlot, NextSlot, SetText, Goes
  <2>2. PlaceTypes'
    <3>1. CASE Insert(t)
      BY <1>0, <3>1, InsertKeepsToasts DEF ToastInv, ToastTypes
    <3>2. CASE SetText(t)
      BY <1>0, <3>2, NoJobIsJob DEF SetText, Goes, PlaceTypes, drawVars
    <3>. QED  BY <1>4, <3>1, <3>2
  <2>3. \A u \in Threads : pc[u] \in {"link", "walk"} \/ pc'[u] \in {"link", "walk"} =>
                             pc'[u] = pc[u] /\ job'[u] = job[u]
    BY <1>0, <2>1
  <2>. QED  BY <1>0, <2>1, <2>2, <2>3, OthersKeepLists DEF drawVars
<1>5. ASSUME DrawBegin PROVE Outcome
  BY <1>0, <1>5, DrawBeginKeepsLists
<1>6. ASSUME DrawNode \/ WipeList \/ FreeAllAndUnlock PROVE Outcome
  BY <1>0, <1>6, DrawNodeKeepsLists, WipeListKeepsLists, FreeAllKeepsLists
<1>7. ASSUME DrawToast PROVE Outcome
  <2>1. PlaceTypes'
    BY <1>0, <1>7, DrawToastKeepsToasts DEF ToastInv, ToastTypes
  <2>2. draw = "toasts" /\ draw' \in {"toasts", "idle"} /\ UNCHANGED <<listVars, pc, job, node, frame>>
    BY <1>7 DEF DrawToast
  <2>. QED  BY <1>0, <2>1, <2>2, OthersKeepLists
<1>8. ASSUME UNCHANGED vars PROVE Outcome
  BY <1>0, <1>8, OthersKeepLists DEF vars, drawVars, PlaceTypes
<1>9. Outcome
  BY <1>1, <1>2, <1>3, <1>4, <1>5, <1>6, <1>7, <1>8 DEF Next, Draws
<1>10. PlaceTypes'
  BY <1>9 DEF ListInv, ListTypes
<1>. QED  BY <1>0, <1>9, <1>10, ToastStep DEF WriterInv

(* The invariant of the text writer holds in every reachable state. *)
LEMMA WriterInvariant == Spec => []WriterInv
<1>1. Init => WriterInv
  BY ListInvInit, ToastInvInit DEF WriterInv
<1>2. WriterInv /\ [Next]_vars => WriterInv'
  BY WriterStep
<1>. QED  BY <1>1, <1>2, PTL DEF Spec

(* A toast keeps its slot until it was drawn in as many frames as it asked for,
   for any number of slots and of threads that look for one while the renderer
   frees them (appendNewToastNode, drawToasts). *)
THEOREM ToastCorrect == Spec => ToastKept
<1>1. ASSUME WriterInv, [Next]_vars
      PROVE  [\A i \in Slots : toasts[i] # Null /\ toasts'[i] # toasts[i] =>
                /\ toasts'[i] = Null
                /\ toast[toasts[i]].owed = 0]_vars
  <2>1. ToastInv /\ PlaceTypes'
    BY <1>1, WriterStep DEF WriterInv, ListInv, ListTypes
  <2>. QED  BY <1>1, <2>1, ToastStep
<1>. QED  BY <1>1, WriterInvariant, PTL DEF Spec, ToastKept

(* The text writer does what FrameQueue promises, but for the promise that
   frames come: what was appended to a list is shown in the next frame, once and
   in order, for any number of lists and threads and any frame heap
   (appendNewDrawNode, drawFrame). *)
THEOREM FrameQueueCorrect == Spec => Queue!Safety
<1>. DEFINE queue == [i \in Lists |-> Queued(i)]
            shown == IF draw = "free" THEN frame ELSE Nothing
<1>1. Init => Queue!Init
  BY ListInvInit DEF Queue!Init, Queue!Nothing, Nothing, Shown
<1>2. ASSUME WriterInv, [Next]_vars PROVE [Queue!Next]_<<queue, shown>>
  <2>. DEFINE next == [i \in Lists |-> Queued(i)']
  <2>1. queue' = next /\ shown = Shown /\ shown' = Shown' /\ Queue!Nothing = Nothing
    BY DEF Shown, Queue!Nothing, Nothing
  <2>2. CASE Silent
    <3>1. queue' = queue
      BY <2>1, <2>2 DEF Silent
    <3>. QED  BY <2>1, <2>2, <3>1 DEF Silent
  <2>3. CASE Accepted
    <3>1. PICK i \in Lists, e \in Entries :
            /\ \A k \in Lists : Queued(k)' = IF k = i THEN Append(Queued(k), e) ELSE Queued(k)
            /\ Shown' = Shown
      BY <2>3 DEF Accepted
    <3>2. queue' = [queue EXCEPT ![i] = Append(@, e)]
      BY <2>1, <3>1
    <3>3. Queue!Accept(i, e)
      BY <2>1, <3>1, <3>2 DEF Queue!Accept
    <3>. QED  BY <3>3 DEF Queue!Next
  <2>4. CASE Showing
    <3>1. shown' = queue /\ queue' = Nothing
      BY <2>1, <2>4 DEF Showing, Nothing
    <3>. QED  BY <2>1, <3>1 DEF Queue!Show, Queue!Next
  <2>5. CASE Clearing
    <3>1. shown' = Nothing /\ queue' = queue
      BY <2>1, <2>5 DEF Clearing
    <3>. QED  BY <2>1, <3>1 DEF Queue!Clear, Queue!Next
  <2>. QED  BY <1>2, <2>2, <2>3, <2>4, <2>5, WriterStep
<1>. QED  BY <1>1, <1>2, WriterInvariant, PTL DEF Spec, Queue!Safety
=============================================================================
