------------------------- MODULE WsReceiveProperties -------------------------
(* What module WsReceive promises the web frontend. *)
EXTENDS WsReceive

(* The frames of the frontend are dispatched whole, in order and once (module *)
(* LogStream, from the client's side), as long as every Recv finds all of the *)
(* frame it reads: "assert recvSize == payloadLen-8" (WebSocket.cpp:269).     *)
Undispatched ==
  IF (at = "payload" /\ InSync) \/ at = "dispatch" THEN <<first>> \o pipe ELSE pipe

Stream == INSTANCE LogStream WITH
  Messages <- Frames, Dropped <- LAMBDA f : f = Close, NoMessage <- Nothing,
  open <- TRUE, queue <- Undispatched, wire <- text

DispatchedInOrder == Stream!Init /\ [][whole' => Stream!Next]_<<Undispatched, text>>

(* What the frontend sends is dispatched in the end ("keep handling messages  *)
(* until would block", WebSocket.cpp:238), under the same condition.          *)
AllDispatched ==
  \A f \in TextFrames :
    (\E k \in 1 .. Len(pipe) : pipe[k] = f) ~> (text = f \/ ~whole)
(* Why it holds: until a Recv finds less than it asks for, the mod is in step *)
(* with the client, or inside the payload of a frame it has read the header   *)
(* of; what has arrived was sent; and nothing follows the close.              *)
InStep ==
  whole =>
    /\ pipe \in Seq(Frames) /\ skip \in Nat
    /\ avail \in Nat /\ avail <= Unread
    /\ \A k \in 1 .. Len(pipe) : pipe[k] = Close => k = Len(pipe)
    /\ at # "payload" => skip = 0
    /\ at \in {"payload", "dispatch"} => first \in TextFrames
    /\ at = "payload" => /\ asked = RestPayload(first)
                         /\ IF asked = 0 THEN skip = 0
                            ELSE skip = Chunk /\ pipe # <<>> /\ Head(pipe) = first
    /\ at = "dispatch" => got = asked
=============================================================================
