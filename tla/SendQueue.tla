------------------------------ MODULE SendQueue ------------------------------
(***************************************************************************)
(* The send queue of server/WebSocket.cpp: any thread that logs            *)
(* (Logger::logJson) puts a text frame into a ring buffer under a mutex,   *)
(* and the main thread flushes the ring to the client once per frame,      *)
(* without taking the mutex: what tells it that a frame is there is        *)
(* sendQueueHead alone.                                                    *)
(*                                                                         *)
(* Frames start at multiples of 8 bytes, so the ring is a function over    *)
(* 8-byte cells: the header that starts in the cell, and the message whose *)
(* text lies in it.                                                        *)
(*                                                                         *)
(* ZeroNothing and MoreAhead are deliberately faulty forms of the          *)
(* definitions that follow them.                                           *)
(***************************************************************************)
EXTENDS WsFrame, FiniteSets, Functions

CONSTANTS
  Threads, Main,  \* the threads that log; the main thread also flushes
  Nobody,         \* the mutex is free
  Size,           \* SEND_QUEUE_SIZE, in cells
  Tags, Lengths,  \* messages differ in a tag and in the length of their text
  Payloads,       \* lengths whose headers are checked
  NoMessage, Torn,
  MaxBacklog,     \* bound: cells of frames logged and not yet flushed
  HeadLast        \* is a frame visible to the flush before the head that announces it?

Messages == [tag : Tags, len : Lengths]
Cells == 0 .. Size - 1

CellsOf(fLen) == (fLen + 7) \div 8
Frame(m)  == FrameLen(m.len)
Extent(m) == CellsOf(Frame(m))

ASSUME MainAssumption == Main \in Threads /\ Nobody \notin Threads /\ IsFiniteSet(Threads)
ASSUME LengthAssumption == Lengths \subseteq Nat \ {0} /\ Size \in Nat \ {0, 1} /\ MaxBacklog \in Nat
(* Lengths have 32 bits, and enforceAndWarnTextLimits lets no empty text pass. *)
ASSUME PayloadAssumption == \A n \in Payloads : n \in Nat \ {0} /\ n \div 16777216 < 256
ASSUME MessageAssumption == NoMessage \notin Messages /\ Torn \notin Messages
ASSUME OrderAssumption == HeadLast \in BOOLEAN
(* 1MB is never filled between two flushes, not even counting the cells that *)
(* stay unused where the ring wraps.                                         *)
ASSUME CapacityAssumption == \A m \in Messages : MaxBacklog + Extent(m) + 2 < Size

VARIABLES
  established,  \* isWsEstablished
  owner,        \* who holds enqueueMutex
  head, tail,   \* sendQueueHead, sendQueueTail
  hdr, text,    \* sendQueueBuf
  step,         \* where each thread is: "idle", "lock" or "write"
  msg, dst,     \* its message and where its frame goes
  todo,         \* its stores that are not visible to the main thread yet
  flush, fLen,  \* where the flush is; the frame length it read
  wire,         \* history: what was sent last
  queued,       \* history: the frames enqueued and not dequeued yet, and where
  backlog       \* history: the cells of frames logged and not dequeued yet

enqueueVars == <<owner, step, msg, dst, todo>>
history     == <<wire, queued, backlog>>
vars == <<established, head, tail, hdr, text, enqueueVars, flush, fLen, history>>

Null    == <<0, 0>>   \* a null frame type
Garbled == <<>>       \* bytes of some text, read as a header

NextCell(p, len) == IF p + CellsOf(len) >= Size THEN 0 ELSE p + CellsOf(len)

-----------------------------------------------------------------------------
(* sendTextNoblock: nothing is queued while no client is connected. *)
Log(t, m) ==
  /\ established
  /\ step[t] = "idle" /\ (t = Main => flush = "idle")
  /\ backlog + Extent(m) <= MaxBacklog
  /\ backlog' = backlog + Extent(m)
  /\ msg' = [msg EXCEPT ![t] = m]
  /\ step' = [step EXCEPT ![t] = "lock"]
  /\ UNCHANGED <<established, owner, head, tail, hdr, text, dst, todo, flush, fLen, wire, queued>>

(* getNextFrameForEnqueue: a frame that does not fit before the end, 17 bytes *)
(* of which stay unused, goes to the beginning.                               *)
Fits(p, m) == 8 * p + Frame(m) <= 8 * Size - 17

LockFree(t) == owner = Nobody

Lock(t) ==
  /\ step[t] = "lock" /\ LockFree(t)
  /\ owner' = t
  /\ step' = [step EXCEPT ![t] = "write"]
  /\ dst' = [dst EXCEPT ![t] = IF Fits(head, msg[t]) THEN head ELSE 0]
  /\ todo' = [todo EXCEPT ![t] = {"header", "payload", "head"}
                \cup (IF Fits(head, msg[t]) THEN {} ELSE {"remainder"})]
  /\ UNCHANGED <<established, head, tail, hdr, text, msg, flush, fLen, history>>

(* The stores of an enqueue, one after the other.  The main thread reads      *)
(* without the mutex, so that they may reach it in any order; if HeadLast,    *)
(* that of the head, the last of the program, reaches it last.                *)
Visible(t, store) ==
  /\ step[t] = "write" /\ store \in todo[t]
  /\ HeadLast /\ store = "head" => todo[t] = {"head"}
  /\ todo' = [todo EXCEPT ![t] = @ \ {store}]
  /\ UNCHANGED <<established, owner, tail, step, msg, dst, flush, fLen, wire, backlog>>

Body(t) == dst[t] .. dst[t] + Extent(msg[t]) - 1

ZeroNothing(t) == UNCHANGED hdr
ZeroRemainder(t) == hdr' = [c \in Cells |-> IF c >= head THEN Null ELSE hdr[c]]

StoreRemainder(t) ==
  /\ Visible(t, "remainder")
  /\ ZeroRemainder(t)
  /\ UNCHANGED <<head, text, queued>>

StoreHeader(t) ==
  /\ Visible(t, "header")
  /\ hdr' = [hdr EXCEPT ![dst[t]] = Header(msg[t].len)]
  /\ UNCHANGED <<head, text, queued>>

StorePayload(t) ==
  /\ Visible(t, "payload")
  /\ text' = [c \in Cells |-> IF c \in Body(t) THEN msg[t] ELSE text[c]]
  /\ hdr' = [c \in Cells |-> IF c \in Body(t) \ {dst[t]} THEN Garbled ELSE hdr[c]]
  /\ UNCHANGED <<head, queued>>

StoreHead(t) ==
  /\ Visible(t, "head")
  /\ head' = NextCell(dst[t], Frame(msg[t]))
  /\ queued' = Append(queued, [at |-> dst[t], msg |-> msg[t]])
  /\ UNCHANGED <<hdr, text>>

Unlock(t) ==
  /\ step[t] = "write" /\ todo[t] = {}
  /\ owner' = Nobody
  /\ step' = [step EXCEPT ![t] = "idle"]
  /\ msg' = [msg EXCEPT ![t] = NoMessage] /\ dst' = [dst EXCEPT ![t] = 0]
  /\ UNCHANGED <<established, head, tail, hdr, text, todo, flush, fLen, history>>

Enqueue(t) ==
  Lock(t) \/ StoreRemainder(t) \/ StoreHeader(t) \/ StorePayload(t) \/ StoreHead(t) \/ Unlock(t)

(* sendTextBlocking, from scripts only: the frame goes past the queue. *)
SendDirect(m) ==
  /\ established /\ step[Main] = "idle" /\ flush = "idle"
  /\ Frame(m) >= 4
  /\ wire' = m
  /\ UNCHANGED <<established, head, tail, hdr, text, enqueueVars, flush, fLen, queued, backlog>>

-----------------------------------------------------------------------------
(* flushSendQueueBlocking *)
FlushBegin ==
  /\ flush = "idle" /\ established /\ step[Main] = "idle"
  /\ flush' = "loop"
  /\ UNCHANGED <<established, head, tail, hdr, text, enqueueVars, fLen, history>>

MoreAhead == tail < head
More      == tail # head

FlushEnd ==
  /\ flush = "loop" /\ ~More
  /\ flush' = "idle"
  /\ UNCHANGED <<established, head, tail, hdr, text, enqueueVars, fLen, history>>

(* The text of a message, read as a header, announces any length. *)
AnnouncedAt(p) ==
  IF hdr[p] = Garbled THEN {FrameLen(n) : n \in Lengths} ELSE {SerializedFrameSize(hdr[p])}

FlushRead ==
  /\ flush = "loop" /\ More
  /\ fLen' \in AnnouncedAt(tail)
  /\ flush' = "send"
  /\ UNCHANGED <<established, head, tail, hdr, text, enqueueVars, history>>

(* The bytes that are sent: a message, if they are one. *)
BytesAt(p, len) ==
  LET m == text[p]
  IN  IF /\ m \in Messages /\ len = Frame(m) /\ hdr[p] = Header(m.len)
         /\ \A c \in p .. p + CellsOf(len) - 1 : c \in Cells /\ text[c] = m
      THEN m ELSE Torn

TooShort(len) == len <= 3

FlushSend ==
  /\ flush = "send"
  /\ wire' = IF TooShort(fLen) THEN wire ELSE BytesAt(tail, fLen)
  /\ flush' = "dequeue"
  /\ UNCHANGED <<established, head, tail, hdr, text, enqueueVars, fLen, queued, backlog>>

(* dequeueFrame *)
NextTail == IF hdr[tail] = Null THEN 0 ELSE NextCell(tail, fLen)

Dequeue ==
  /\ flush = "dequeue"
  /\ tail' = NextTail
  /\ flush' = "loop" /\ fLen' = 0
  /\ IF hdr[tail] = Null
     THEN UNCHANGED <<queued, backlog>>
     ELSE queued' = Tail(queued) /\ backlog' = backlog - Extent(Head(queued).msg)
  /\ UNCHANGED <<established, head, hdr, text, enqueueVars, wire>>

Flush == FlushBegin \/ FlushEnd \/ FlushRead \/ FlushSend \/ Dequeue

(* WebSocket::calc connects and disconnects between flushes; the queue stays. *)
Establish ==
  /\ flush = "idle" /\ step[Main] = "idle"
  /\ established' = ~established
  /\ UNCHANGED <<head, tail, hdr, text, enqueueVars, flush, fLen, history>>

Init ==
  /\ established = FALSE /\ owner = Nobody
  /\ head = 0 /\ tail = 0
  /\ hdr = [c \in Cells |-> Null] /\ text = [c \in Cells |-> NoMessage]
  /\ step = [t \in Threads |-> "idle"] /\ todo = [t \in Threads |-> {}]
  /\ msg = [t \in Threads |-> NoMessage] /\ dst = [t \in Threads |-> 0]
  /\ flush = "idle" /\ fLen = 0
  /\ wire = NoMessage /\ queued = <<>> /\ backlog = 0

Next ==
  \/ \E t \in Threads : Enqueue(t) \/ \E m \in Messages : Log(t, m)
  \/ \E m \in Messages : SendDirect(m)
  \/ Flush \/ Establish

Spec == Init /\ [][Next]_vars

(* The main loop reaches the flush in every frame whatever the main thread   *)
(* logs in between, a waiting thread is handed the mutex, and nothing inside *)
(* a flush or an enqueue waits for anything else.                            *)
FairSpec ==
  /\ Spec
  /\ SF_vars(FlushBegin) /\ WF_vars(FlushRead \/ FlushSend \/ Dequeue \/ FlushEnd)
  /\ \A t \in Threads :
       SF_vars(Lock(t)) /\ WF_vars(StoreRemainder(t) \/ StoreHeader(t) \/ StorePayload(t)
                                   \/ StoreHead(t) \/ Unlock(t))

-----------------------------------------------------------------------------
(* Properties *)

(* The flush reads back the length of the frame that was enqueued, so that   *)
(* it sends and skips exactly one frame (getSerializedFrameSize), whatever   *)
(* length the frame has that a thread writes.                                *)
ReadBack ==
  \A t \in Threads : step[t] = "write" =>
    \A n \in Payloads : SerializedFrameSize(Header(n)) = FrameLen(n)

(* Messages are delivered whole, in order and once (module LogStream). *)
Sent  == flush = "dequeue" /\ hdr[tail] # Null
Queue == LET msgs == [k \in 1 .. Len(queued) |-> queued[k].msg]
         IN  IF Sent THEN Tail(msgs) ELSE msgs

(* Messages of one character are dropped ("this still might drop 1 char       *)
(* messages", WebSocket.cpp:181).                                             *)
OneChar(m) == m.len = 1

Stream == INSTANCE LogStream
  WITH open <- established, queue <- Queue, Dropped <- OneChar

ImplementsLogStream == Stream!Spec

(* A message in the queue reaches the client unless the connection is closed. *)
Delivered ==
  \A m \in Messages :
    (~OneChar(m) /\ \E k \in 1 .. Len(Queue) : Queue[k] = m)
      ~> (wire = m \/ ~established)

-----------------------------------------------------------------------------
(* The invariant behind the refinement *)

End(f)    == f.at + Extent(f.msg)
Stored(f) == /\ hdr[f.at] = Header(f.msg.len)
             /\ \A c \in f.at .. End(f) - 1 : text[c] = f.msg

(* The frames i .. j of q lie one behind the other from one cell to another. *)
Chained(q, i, j, from, to) ==
  /\ from <= to /\ to = IF j < i THEN from ELSE End(q[j])
  /\ \A k \in i .. j : /\ q[k].at = IF k = i THEN from ELSE End(q[k - 1])
                       /\ from <= q[k].at /\ End(q[k]) <= to
  /\ \A k, l \in i .. j : k < l => End(q[k]) <= q[l].at

(* The first j of those in the queue lie before the place where the ring      *)
(* wraps, which a null frame marks because some frame did not fit there, and  *)
(* the rest lies at the beginning.                                            *)
RingAt(j, wrap) ==
  /\ Chained(queued, 1, j, tail, wrap)
  /\ IF j = Len(queued)
     THEN wrap = head
     ELSE /\ Chained(queued, j + 1, Len(queued), 0, head)
          /\ head < tail /\ hdr[wrap] = Null
          /\ \E m \in Messages : ~Fits(wrap, m)

Used(j, wrap) == wrap - tail + IF j = Len(queued) THEN 0 ELSE head

(* What each thread has logged and not enqueued yet *)
Pending(t)  == step[t] = "lock" \/ (step[t] = "write" /\ "head" \in todo[t])
InFlight(t) == IF Pending(t) THEN Extent(msg[t]) ELSE 0

RingInv ==
  /\ \E j \in 0 .. Len(queued), wrap \in 0 .. Size - 2 :
       /\ RingAt(j, wrap)
       /\ backlog = Used(j, wrap) + SumFunction([t \in Threads |-> InFlight(t)])
  /\ backlog <= MaxBacklog
  /\ \A k \in 1 .. Len(queued) : Stored(queued[k])

(* The thread that holds the mutex has stored its frame, as far as it got, in *)
(* cells that no queued frame lies in.                                        *)
Writing(t) ==
  /\ step[t] = "write" <=> owner = t
  /\ "head" \in todo[t] =>
       /\ step[t] = "write"
       /\ dst[t] = IF Fits(head, msg[t]) THEN head ELSE 0
       /\ "header" \notin todo[t] => hdr[dst[t]] = Header(msg[t].len)
       /\ "payload" \notin todo[t] => \A c \in Body(t) : text[c] = msg[t]
       /\ "remainder" \in todo[t] => ~Fits(head, msg[t])
       /\ ~Fits(head, msg[t]) /\ "remainder" \notin todo[t] => hdr[head] = Null
  /\ "head" \notin todo[t] => todo[t] = {}

WriteInv == \A t \in Threads : Writing(t)

(* The flush goes on while the client is there, and reads the header at the   *)
(* tail.                                                                      *)
FlushInv ==
  /\ flush # "idle" => established
  /\ flush \in {"send", "dequeue"} => tail # head /\ fLen = SerializedFrameSize(hdr[tail])

SendInv == RingInv /\ WriteInv /\ FlushInv
=============================================================================
