------------------------------ MODULE TextWriter ------------------------------
(***************************************************************************)
(* Text and toasts drawn over the game (TextWriter.cpp, TextWriter.hpp).    *)
(* The main loop and hooks on other threads print into linked lists whose   *)
(* nodes come from a frame heap; the thread that renders draws the lists,   *)
(* forgets them and empties the heap.  A mutex guards the lists; who finds  *)
(* it taken does not print.  Toasts are kept in slots without a mutex, each *)
(* for a number of frames, and get their text after they are in a slot.     *)
(* PrimitiveDrawer.cpp has the same lists, with arguments for text.         *)
(*                                                                          *)
(* KeepsNext, NeverNegative and LoadThenStore are deliberately faulty      *)
(* forms of the definitions that follow them.                               *)
(***************************************************************************)
EXTENDS Integers, Sequences, FiniteSets

CONSTANTS
  Threads, Drawer, Nobody,
  Lists,             \* 1 .. MAX_DRAWLISTS
  Texts, Callbacks,  \* what is printed; a callback takes no memory for text
  HeapSize,          \* of the frame heap, in nodes or texts
  Slots,             \* 1 .. MAX_TOASTS
  Toasts,            \* addresses for the nodes of toasts
  Ttls,              \* ttlFrames of toasts
  Modulus,           \* 2^32, of an u32
  Null

ASSUME SizeAssumption ==
  /\ HeapSize \in Nat \ {0}
  /\ IsFiniteSet(Lists) /\ Lists # {} /\ Lists = 1 .. Cardinality(Lists)
  /\ IsFiniteSet(Slots) /\ Slots # {} /\ Slots = 1 .. Cardinality(Slots)
ASSUME TtlAssumption  == Modulus \in Nat \ {0} /\ Ttls \subseteq 0 .. Modulus - 1
ASSUME NameAssumption ==
  /\ Drawer \notin Threads /\ Nobody \notin Threads \cup {Drawer}
  /\ Null \notin Toasts \cup (1 .. HeapSize)

Entries == Texts \cup Callbacks
Nodes   == 1 .. HeapSize

VARIABLES
  owner,       \* of drawListLock
  heads,       \* drawLists
  mem,         \* what is in the frame heap, used or not
  used,
  pc, job,     \* where a printing thread is, and its local variables
  draw, at, node,   \* the same for the thread that renders
  frame,       \* what it has drawn of the lists, until they are unlocked
  toasts,      \* node in each slot
  toast        \* what is in the nodes of toasts, and as history how many frames
               \* it is still owed, or -1 when it was drawn too often

listVars  == <<owner, heads, mem, used>>
drawVars  == <<draw, at, node, frame>>
toastVars == <<toasts, toast>>
vars == <<listVars, pc, job, drawVars, toastVars>>

Nothing == [i \in Lists |-> <<>>]
NoJob   == [list |-> 1, node |-> Null, at |-> Null]
NoToast == [live |-> FALSE, ttl |-> 0, owed |-> 0]

Init ==
  /\ owner = Nobody /\ heads = [i \in Lists |-> Null] /\ used = 0
  /\ mem = [n \in Nodes |-> [entry |-> Null, next |-> Null]]
  /\ pc = [t \in Threads |-> "idle"] /\ job = [t \in Threads |-> NoJob]
  /\ draw = "idle" /\ at = 1 /\ node = Null /\ frame = Nothing
  /\ toasts = [i \in Slots |-> Null] /\ toast = [n \in Toasts |-> NoToast]

Goes(t, to) == pc' = [pc EXCEPT ![t] = to]

-----------------------------------------------------------------------------
(* appendNewDrawNode: when the mutex is taken, nothing happens.              *)
KeepsNext(e, old) == [entry |-> e, next |-> old.next]
NewNode(e, old)   == [entry |-> e, next |-> Null]

(* The node, and its text unless it is a callback.                           *)
Size(e) == IF e \in Callbacks THEN 1 ELSE 2

Store(t, i, e) ==
  LET n == used + 1
  IN  /\ pc[t] = "idle" /\ owner = Nobody
      /\ used + Size(e) <= HeapSize
      /\ owner' = t
      /\ used' = used + Size(e)
      /\ mem' = [mem EXCEPT ![n] = NewNode(e, @)]
      /\ job' = [job EXCEPT ![t] = [list |-> i, node |-> n, at |-> Null]]
      /\ Goes(t, "link")
      /\ UNCHANGED <<heads, drawVars, toastVars>>

(* A node without room for its text is wasted until the next frame.          *)
NoRoom(t, e) ==
  LET n == used + 1
  IN  /\ pc[t] = "idle" /\ owner = Nobody
      /\ used + Size(e) > HeapSize /\ n <= HeapSize
      /\ used' = n
      /\ mem' = [mem EXCEPT ![n] = NewNode(Null, @)]
      /\ UNCHANGED <<owner, heads, pc, job, drawVars, toastVars>>

(* To the end of the list, from its head; then the mutex is released.        *)
Release(t) ==
  owner' = Nobody /\ job' = [job EXCEPT ![t] = NoJob] /\ Goes(t, "idle")

Link(t) ==
  LET i == job[t].list
  IN  /\ pc[t] = "link"
      /\ IF heads[i] = Null
         THEN heads' = [heads EXCEPT ![i] = job[t].node] /\ Release(t)
         ELSE /\ job' = [job EXCEPT ![t].at = heads[i]] /\ Goes(t, "walk")
              /\ UNCHANGED <<owner, heads>>
      /\ UNCHANGED <<mem, used, drawVars, toastVars>>

Walk(t) ==
  LET n == job[t].at
  IN  /\ pc[t] = "walk"
      /\ IF mem[n].next = Null
         THEN mem' = [mem EXCEPT ![n].next = job[t].node] /\ Release(t)
         ELSE /\ job' = [job EXCEPT ![t].at = mem[n].next]
              /\ UNCHANGED <<owner, mem, pc>>
      /\ UNCHANGED <<heads, used, drawVars, toastVars>>

-----------------------------------------------------------------------------
(* drawFrame *)
DrawBegin ==
  /\ draw = "idle" /\ owner = Nobody
  /\ owner' = Drawer
  /\ draw' = "lists" /\ at' = 1 /\ node' = heads[1] /\ frame' = Nothing
  /\ UNCHANGED <<heads, mem, used, pc, job, toastVars>>

DrawNode ==
  /\ draw = "lists" /\ node # Null
  /\ frame' = [frame EXCEPT ![at] = Append(@, mem[node].entry)]
  /\ node' = mem[node].next
  /\ UNCHANGED <<listVars, pc, job, draw, at, toastVars>>

WipeList ==
  /\ draw = "lists" /\ node = Null
  /\ heads' = [heads EXCEPT ![at] = Null]
  /\ IF at + 1 \in Lists
     THEN at' = at + 1 /\ node' = heads[at + 1] /\ UNCHANGED draw
     ELSE at' = 1 /\ draw' = "free" /\ UNCHANGED node
  /\ UNCHANGED <<owner, mem, used, pc, job, frame, toastVars>>

(* The memory stays as it is; that freed nodes keep their links is what      *)
(* matters.                                                                  *)
FreeAllAndUnlock ==
  /\ draw = "free"
  /\ used' = 0 /\ owner' = Nobody
  /\ mem' = [n \in Nodes |-> [mem[n] EXCEPT !.entry = Null]]
  /\ draw' = "toasts" /\ frame' = Nothing
  /\ UNCHANGED <<heads, pc, job, at, node, toastVars>>

(* drawToasts, one slot after the other *)
NeverNegative(ttl) == (ttl - 1) % Modulus < 0
Expired(ttl)       == ttl = 0

Max2(x, y) == IF x > y THEN x ELSE y

DrawToast ==
  LET n == toasts[at]
  IN  /\ draw = "toasts"
      /\ IF n = Null THEN UNCHANGED <<toasts, toast>>
         ELSE IF Expired(toast[n].ttl)
         THEN /\ toasts' = [toasts EXCEPT ![at] = Null]
              /\ toast' = [toast EXCEPT ![n] = NoToast]
         ELSE /\ toast' = [toast EXCEPT ![n].ttl = (@ - 1) % Modulus, ![n].owed = Max2(@ - 1, -1)]
              /\ UNCHANGED toasts
      /\ IF at + 1 \in Slots THEN at' = at + 1 /\ UNCHANGED draw
         ELSE at' = 1 /\ draw' = "idle"
      /\ UNCHANGED <<listVars, pc, job, node, frame>>

-----------------------------------------------------------------------------
(* toastf and appendNewToastNode: at is the slot that is tried.  A node that *)
(* finds all slots taken is leaked; its address stands for another then.     *)
Free == {n \in Toasts : ~toast[n].live}

Toast(t, ttl) ==
  LET n == CHOOSE m \in Free : TRUE
  IN  /\ pc[t] = "idle" /\ Free # {}
      /\ toast' = [toast EXCEPT ![n] = [live |-> TRUE, ttl |-> ttl, owed |-> ttl]]
      /\ job' = [job EXCEPT ![t] = [list |-> 1, node |-> n, at |-> 1]]
      /\ Goes(t, "insert")
      /\ UNCHANGED <<listVars, drawVars, toasts>>

InSlot(t) ==
  /\ toasts' = [toasts EXCEPT ![job[t].at] = job[t].node]
  /\ Goes(t, "text")
  /\ UNCHANGED <<toast, job>>

NextSlot(t) ==
  /\ IF job[t].at + 1 \in Slots
     THEN job' = [job EXCEPT ![t].at = @ + 1] /\ UNCHANGED <<pc, toast>>
     ELSE /\ job' = [job EXCEPT ![t] = NoJob]
          /\ toast' = [toast EXCEPT ![job[t].node] = NoToast]
          /\ Goes(t, "idle")
  /\ UNCHANGED toasts

LoadThenStore(t) ==
  \/ pc[t] = "insert" /\ toasts[job[t].at] = Null
     /\ Goes(t, "store slot") /\ UNCHANGED <<toastVars, job>>
  \/ pc[t] = "insert" /\ toasts[job[t].at] # Null /\ NextSlot(t)
  \/ pc[t] = "store slot" /\ InSlot(t)
CompareExchange(t) ==
  /\ pc[t] = "insert"
  /\ IF toasts[job[t].at] = Null THEN InSlot(t) ELSE NextSlot(t)

Insert(t) == CompareExchange(t) /\ UNCHANGED <<listVars, drawVars>>

(* The text follows when the toast may already be drawn, or drawn and freed. *)
SetText(t) ==
  /\ pc[t] = "text"
  /\ job' = [job EXCEPT ![t] = NoJob] /\ Goes(t, "idle")
  /\ UNCHANGED <<listVars, drawVars, toastVars>>

-----------------------------------------------------------------------------
Prints(t) == Link(t) \/ Walk(t)
Draws     == DrawNode \/ WipeList \/ FreeAllAndUnlock \/ DrawToast

Next ==
  \/ \E t \in Threads :
       \/ \E i \in Lists, e \in Entries : Store(t, i, e)
       \/ \E e \in Entries : NoRoom(t, e)
       \/ Prints(t)
       \/ \E ttl \in Ttls : Toast(t, ttl)
       \/ Insert(t) \/ SetText(t)
  \/ DrawBegin \/ Draws

Spec == Init /\ [][Next]_vars

(* The game renders, and gets the mutex some time, however much is printed;  *)
(* who has the mutex goes on to release it.                                  *)
FairSpec ==
  /\ Spec
  /\ WF_vars(Draws) /\ SF_vars(DrawBegin)
  /\ \A t \in Threads : WF_vars(Prints(t))

-----------------------------------------------------------------------------
(* Properties *)

(* The list a head stands for.                                               *)
Chain(n) ==
  LET walk[k \in 0 .. HeapSize] ==
        [m \in Nodes \cup {Null} |->
           IF k = 0 \/ m = Null THEN <<>> ELSE <<mem[m].entry>> \o walk[k - 1][mem[m].next]]
  IN  walk[HeapSize][n]

Drawn(i)  == draw = "lists" /\ i < at
Queued(i) == IF Drawn(i) THEN frame[i] ELSE Chain(heads[i])

Queue == INSTANCE FrameQueue WITH
  queue <- [i \in Lists |-> Queued(i)],
  shown <- IF draw = "free" THEN frame ELSE Nothing

(* What was appended to a list is drawn in the next frame, once and in order, *)
(* although the heap is emptied and its memory used again in every frame      *)
(* (drawFrame, "wipe for next frame"), and the frames go on.                  *)
ImplementsFrameQueue == Queue!Spec

(* A toast that got a slot keeps it until it was drawn in as many frames as   *)
(* ttlFrames asked for and no more, whoever looks for a slot at the same     *)
(* time.                                                                     *)
ToastKept ==
  [][\A i \in Slots : toasts[i] # Null /\ toasts'[i] # toasts[i] =>
       /\ toasts'[i] = Null
       /\ toast[toasts[i]].owed = 0]_vars

(* No slot is taken for ever, whatever ttlFrames a script asks for.           *)
ToastGoes == \A i \in Slots : toasts[i] # Null ~> toasts[i] = Null
=============================================================================
