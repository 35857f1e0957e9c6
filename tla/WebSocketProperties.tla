------------------------- MODULE WebSocketProperties -------------------------
(* What the websocket server of module WebSocket promises. *)
EXTENDS WebSocket

(* Every variable keeps its type, and the port is bound by one socket at most. *)
TypeOK ==
  /\ at \in {"frame", "bind", "listen", "accept", "upgrade"}
  /\ established \in BOOLEAN /\ server \in BOOLEAN /\ request \in BOOLEAN
  /\ client \in {"none", "error", "open"} /\ bound \in 0 .. 1
  /\ peer \in {"none", "connected", "gone"}
  /\ debounce \in 0 .. Debounce /\ delay \in 0 .. Notice
  /\ sinceToggle \in 0 .. Debounce /\ failed \in {"none", "bind", "listen", "accept"}
  /\ parity \in 0 .. 1

(* What is sent and received once the connection counts as established goes  *)
(* to a client socket that is open, on a server that is bound: Send and Recv *)
(* are called with clientSocketFd whenever isWsEstablished.                  *)
EstablishedHasClient == established => client = "open" /\ server /\ bound = 1

(* "ignore button combo for n frames": however long the combo is held and    *)
(* however often scripts ask, the server is not started or closed again      *)
(* within the debounce.                                                      *)
Toggles == sinceToggle # 0 /\ sinceToggle' = 0
DebounceHonoured == [][Toggles => sinceToggle >= Debounce - 1]_vars

(* A request made or accepted while no client is connected leads to a server *)
(* that waits for the frontend, unless a call fails on the way: what a       *)
(* script asks during the debounce is not forgotten (isInternalReqListen is  *)
(* cleared only where it is accepted), and the notice is not displayed in    *)
(* vain.  The request stands between two frames, so that it is not served by *)
(* the server that is being started already.                                 *)
RequestServed ==
  (at = "frame" /\ (request \/ delay > 0) /\ ~established)
    ~> (at = "accept" \/ failed \in {"bind", "listen"})

(* Once the server waits, a client gets connected, however many requests are *)
(* refused before, unless a call fails.                                      *)
ClientConnects == at = "accept" ~> (established \/ failed \in {"listen", "accept"})
=============================================================================
