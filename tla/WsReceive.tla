------------------------------ MODULE WsReceive ------------------------------
(***************************************************************************)
(* How the mod takes text frames of the web frontend from the socket       *)
(* (recvNoblockAndProc in server/WebSocket.cpp): 14 bytes without          *)
(* blocking, which hold the header and the first bytes of the payload, and *)
(* then, blocking, the rest of the payload.  The network delivers the      *)
(* client's bytes in order, in pieces of its own choosing.  RestAll and    *)
(* DropChunk are deliberately faulty forms of the definitions that follow  *)
(* them.                                                                   *)
(***************************************************************************)
EXTENDS Integers, Sequences, SequencesExt

CONSTANTS
  Payloads,     \* lengths of the texts a client sends
  MaxPipe,      \* bound: frames on their way
  Nothing, Garbage

(* The JSON of the frontend has 8 bytes at least, so that its frames have 14; *)
(* the browser's last frame, which announces the close, has 8.                *)
TextFrames == [form : {"small", "medium", "large"}, len : Payloads]
Close  == [form |-> "close", len |-> 2]
Frames == TextFrames \cup {Close}

HeaderLen(f) == CASE f.form \in {"small", "close"} -> 6 [] f.form = "medium" -> 8 [] OTHER -> 14
Bytes(f) == HeaderLen(f) + f.len
Chunk == 14

ASSUME PayloadAssumption == Payloads \subseteq Nat /\ \A n \in Payloads : n >= 8
ASSUME ReceiveAssumption == MaxPipe \in Nat
                            /\ Nothing \notin Frames /\ Garbage \notin Frames

VARIABLES
  pipe,        \* frames sent by the client and not read completely
  skip,        \* bytes read of the first of them
  avail,       \* bytes that have arrived and were not read
  at,          \* "idle", "loop", "payload" or "dispatch"
  asked, got,  \* bytes the payload Recv asked for, and what it returned
  first,       \* the frame whose header was read
  text,        \* history: what was dispatched last
  whole        \* history: every frame had arrived when it was read

recvVars == <<asked, got, first>>
history  == <<text, whole>>
vars == <<pipe, skip, avail, at, recvVars, history>>

BytesUpTo(k) == FoldLeft(LAMBDA n, f : n + Bytes(f), 0, SubSeq(pipe, 1, k))
Unread == BytesUpTo(Len(pipe)) - skip
InSync == skip = 0

Least(a, b) == IF a < b THEN a ELSE b

(* n bytes of what has arrived are read. *)
Read(n) ==
  LET k == CHOOSE k \in 0 .. Len(pipe) :
             /\ BytesUpTo(k) <= skip + n
             /\ k < Len(pipe) => BytesUpTo(k + 1) > skip + n
  IN  /\ avail' = avail - n
      /\ pipe' = SubSeq(pipe, k + 1, Len(pipe))
      /\ skip' = skip + n - BytesUpTo(k)

-----------------------------------------------------------------------------
(* Bound: the client falls silent once the mod is out of step with it. *)
Send ==
  /\ whole /\ Len(pipe) < MaxPipe
  /\ \A k \in 1 .. Len(pipe) : pipe[k] # Close
  /\ \E f \in Frames : pipe' = Append(pipe, f)
  /\ UNCHANGED <<skip, avail, at, recvVars, history>>

(* Some more bytes arrive. *)
Arrive ==
  /\ whole /\ avail' \in avail + 1 .. Unread
  /\ UNCHANGED <<pipe, skip, at, recvVars, history>>

(* WebSocket::calc, once per frame *)
Poll ==
  /\ at = "idle" /\ at' = "loop"
  /\ UNCHANGED <<pipe, skip, avail, recvVars, history>>

WouldBlock ==
  /\ at = "loop" /\ avail = 0
  /\ at' = "idle"
  /\ UNCHANGED <<pipe, skip, avail, recvVars, history>>

(* The rest of the payload, after the part that came with the header; the     *)
(* middle of a frame, read as a header, announces any length.                 *)
RestAll(f)     == f.len
RestPayload(f) == f.len - (Chunk - HeaderLen(f))

RecvHeader ==
  /\ at = "loop" /\ avail >= Chunk
  /\ asked' \in IF InSync THEN {RestPayload(Head(pipe))} ELSE {0} \cup Payloads
  /\ first' = IF InSync THEN Head(pipe) ELSE Garbage
  /\ Read(Chunk)
  /\ at' = "payload"
  /\ UNCHANGED <<got, history>>

(* Less than 14 bytes, or no header of a text frame: thrown away. *)
DropChunk ==
  /\ at = "loop" /\ avail > 0 /\ (~InSync \/ avail < Chunk)
  /\ Read(Chunk) /\ at' = "idle"
  /\ UNCHANGED <<recvVars, history>>

DropBytes ==
  /\ at = "loop" /\ avail > 0
  /\ ~InSync \/ avail < Chunk
  /\ Read(Least(avail, Chunk))
  /\ at' = "idle"
  /\ whole' = (whole /\ InSync /\ Head(pipe) = Close /\ avail = Bytes(Close))
  /\ UNCHANGED <<recvVars, text>>

(* A blocking Recv waits for the first byte and returns what is there. *)
RecvPayload ==
  /\ at = "payload" /\ (asked > 0 => avail > 0)
  /\ got' = Least(avail, asked)
  /\ Read(Least(avail, asked))
  /\ whole' = (whole /\ avail >= asked)
  /\ at' = "dispatch"
  /\ UNCHANGED <<asked, first, text>>

Dispatch ==
  /\ at = "dispatch"
  /\ text' = IF got = asked THEN first ELSE Garbage
  /\ asked' = 0 /\ got' = 0 /\ first' = Nothing
  /\ at' = "loop"
  /\ UNCHANGED <<pipe, skip, avail, whole>>

Init ==
  /\ pipe = <<>> /\ skip = 0 /\ avail = 0 /\ at = "idle"
  /\ asked = 0 /\ got = 0 /\ first = Nothing /\ text = Nothing /\ whole = TRUE

Receive == Poll \/ WouldBlock \/ RecvHeader \/ DropBytes \/ RecvPayload \/ Dispatch
Next == Send \/ Arrive \/ Receive

Spec == Init /\ [][Next]_vars

(* The mod polls in every frame and what was sent arrives. *)
FairSpec == Spec /\ WF_vars(Receive) /\ WF_vars(Arrive)

=============================================================================
