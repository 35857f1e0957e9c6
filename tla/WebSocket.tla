------------------------------ MODULE WebSocket ------------------------------
(***************************************************************************)
(* The life of the websocket server (server/WebSocket.cpp): when it is     *)
(* asked to listen, how it waits for the web frontend, and when it closes. *)
(* WebSocket::calc runs once per frame on the main thread; while it waits  *)
(* for a client the whole game stands still.  Sockets and the network are  *)
(* external.  KeepEstablished, AcceptedAnyTime, Forgotten and DropKeepsFd  *)
(* are deliberately faulty forms of the definitions that follow them.      *)
(***************************************************************************)
EXTENDS Integers

CONSTANTS
  Debounce,   \* frames a listen request is ignored after the last one (30)
  Notice,     \* frames the notice is displayed before the server starts (3)
  Requesters, \* who asks to listen: "combo" (L R ZL ZR + -), "script" (sys::wsListen)
  Failures    \* which calls may fail: "bind", "listen", "accept"

ASSUME FrameAssumption == Debounce \in Nat /\ Notice \in Nat /\ 1 < Notice /\ Notice < Debounce
ASSUME RequestAssumption == Requesters \subseteq {"combo", "script"}
ASSUME FailureAssumption == Failures \subseteq {"bind", "listen", "accept"}

VARIABLES
  at,           \* the main thread: "frame", "bind", "listen", "accept" or "upgrade"
  established,  \* isWsEstablished
  client,       \* clientSocketFd: "none" (0), "error" (< 0) or "open"
  server,       \* serverSocketFd is bound to the port
  bound,        \* sockets bound to the port, in the network stack
  peer,         \* the client at the other end: "none", "connected", "gone"
  debounce,     \* listenReqDebounce
  delay,        \* listenNotifDelay
  request,      \* isInternalReqListen
  sinceToggle,  \* history: frames since the server was last started or closed
  failed,       \* history: the call that ended a start of the server in this frame
  parity        \* history: every other frame, so that no frame is a stuttering step

sockVars  == <<established, client, server, bound, peer>>
frameVars == <<debounce, delay, request>>
history == <<sinceToggle, failed, parity>>
vars == <<at, sockVars, frameVars, history>>

Tick(n) == IF n > 0 THEN n - 1 ELSE 0

-----------------------------------------------------------------------------
(* closeActiveSocket *)
KeepEstablished == client' = "none" /\ UNCHANGED established
ForgetClient == client' = "none" /\ established' = FALSE

CloseActiveSocket ==
  /\ ForgetClient
  /\ server' = FALSE
  /\ bound' = IF server THEN bound - 1 ELSE bound
  /\ peer' = "none"

AcceptedAnyTime(combo) == combo \/ request
Accepted(combo) == (combo \/ request) /\ debounce = 0

(* What a script asked for waits until the debounce is over. *)
Forgotten(asked) == FALSE
StillAsked(asked) == request /\ ~asked

(* WebSocket::calc, when the client sends nothing.  A request accepted now   *)
(* is counted down in this frame already; when the notice has been displayed *)
(* the server is started, or closed if a client is connected.                *)
Calc(combo) ==
  LET asked  == Accepted(combo)
      left   == Tick(IF asked THEN Notice ELSE delay)
      toggle == left = 0 /\ (asked \/ delay > 0)
  IN  /\ at = "frame"
      /\ request' = StillAsked(asked)
      /\ debounce' = Tick(IF asked THEN Debounce ELSE debounce)
      /\ delay' = left
      /\ sinceToggle' = IF toggle THEN 0 ELSE IF sinceToggle < Debounce THEN sinceToggle + 1 ELSE sinceToggle
      /\ \/ ~toggle /\ UNCHANGED <<at, sockVars>>
         \/ toggle /\ established /\ CloseActiveSocket /\ UNCHANGED at
         \/ toggle /\ ~established /\ at' = "bind" /\ UNCHANGED sockVars
      /\ failed' = "none"
      /\ parity' = 1 - parity

(* sys::wsListen, from a script that runs in this frame or from autorun *)
WsListen ==
  /\ at = "frame" /\ "script" \in Requesters
  /\ request' = TRUE
  /\ UNCHANGED <<at, sockVars, debounce, delay, history>>

-----------------------------------------------------------------------------
(* listenAndWaitForFrontend.  Its error returns leave the socket as it is. *)

Fail(call) ==
  /\ call \in Failures \/ (call = "bind" /\ bound > 0)
  /\ at' = "frame" /\ failed' = call

BindSucceeds ==
  /\ at = "bind" /\ bound = 0
  /\ server' = TRUE /\ bound' = 1
  /\ established' = FALSE /\ client' = "none"
  /\ at' = "listen"
  /\ UNCHANGED <<peer, frameVars, history>>

(* The port is in use, by a socket that was never closed or by a connection  *)
(* that lingers; serverSocketFd is a new socket that is not bound.           *)
BindFails ==
  /\ at = "bind" /\ Fail("bind")
  /\ server' = FALSE
  /\ UNCHANGED <<established, client, bound, peer, frameVars, sinceToggle, parity>>

Listen ==
  /\ at = "listen"
  /\ \/ at' = "accept" /\ UNCHANGED failed
     \/ Fail("listen")
  /\ UNCHANGED <<sockVars, frameVars, sinceToggle, parity>>

AcceptSucceeds ==
  /\ at = "accept"
  /\ client' = "open" /\ peer' = "connected"
  /\ at' = "upgrade"
  /\ UNCHANGED <<established, server, bound, frameVars, history>>

AcceptFails ==
  /\ at = "accept" /\ Fail("accept")
  /\ client' = "error"
  /\ UNCHANGED <<established, server, bound, peer, frameVars, sinceToggle, parity>>

(* The client's request: one for the websocket is answered, any other, or a  *)
(* client that hangs up, is dropped and the next client is waited for.       *)
DropKeepsFd == at' = "upgrade" /\ UNCHANGED <<client, established>>
DropClient  == at' = "listen" /\ client' = "none" /\ UNCHANGED established

Upgrade ==
  /\ at = "upgrade" /\ peer # "none"
  /\ established' = TRUE
  /\ at' = "frame"
  /\ UNCHANGED <<client, server, bound, peer, frameVars, history>>

Refuse ==
  /\ at = "upgrade"
  /\ DropClient
  /\ peer' = "none"
  /\ UNCHANGED <<server, bound, frameVars, history>>

(* The browser goes away.  The mod does not look for it. *)
Disconnect ==
  /\ peer = "connected"
  /\ peer' = "gone"
  /\ UNCHANGED <<at, established, client, server, bound, frameVars, history>>

-----------------------------------------------------------------------------
Init ==
  /\ at = "frame" /\ established = FALSE /\ client = "none" /\ server = FALSE
  /\ bound = 0 /\ peer = "none"
  /\ debounce = 0 /\ delay = 0 /\ request = FALSE /\ sinceToggle = Debounce
  /\ failed = "none" /\ parity = 0

Frame == \E combo \in {c \in BOOLEAN : c => "combo" \in Requesters} : Calc(combo)
Serve == BindSucceeds \/ BindFails \/ Listen \/ AcceptSucceeds \/ AcceptFails \/ Upgrade \/ Refuse

Next == Frame \/ WsListen \/ Serve \/ Disconnect

Spec == Init /\ [][Next]_vars

(* The game renders frames, and the calls of listenAndWaitForFrontend return *)
(* as long as clients connect and send something; the frontend keeps trying  *)
(* until one of its requests is answered.                                    *)
FairSpec ==
  /\ Spec
  /\ WF_vars(Frame)
  /\ WF_vars(BindSucceeds) /\ WF_vars(BindFails) /\ WF_vars(Listen)
  /\ WF_vars(AcceptSucceeds \/ AcceptFails)
  /\ WF_vars(Upgrade \/ Refuse) /\ SF_vars(Upgrade)
=============================================================================
