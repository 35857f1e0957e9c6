---------------------------- MODULE WebSocketProofs ----------------------------
(* Proofs about the life of the websocket server.                             *)
EXTENDS WebSocketProperties, TLAPS

(* The two parts of the type: what counts frames, and what the calls of the   *)
(* server change.                                                             *)
CounterTypes ==
  /\ debounce \in 0 .. Debounce /\ delay \in 0 .. Notice
  /\ sinceToggle \in 0 .. Debounce /\ request \in BOOLEAN /\ parity \in 0 .. 1

SocketTypes ==
  /\ at \in {"frame", "bind", "listen", "accept", "upgrade"}
  /\ established \in BOOLEAN /\ server \in BOOLEAN
  /\ client \in {"none", "error", "open"} /\ bound \in {0, 1}
  /\ peer \in {"none", "connected", "gone"}
  /\ failed \in {"none", "bind", "listen", "accept"}

(* While the server is being started nothing is established, from its socket  *)
(* being bound to a client's request being read.                              *)
SocketInv ==
  /\ SocketTypes
  /\ EstablishedHasClient
  /\ at # "frame" => ~established
  /\ at \in {"listen", "accept", "upgrade"} => server /\ bound = 1
  /\ at = "upgrade" => client = "open"
  /\ server => bound = 1

ServerInv == CounterTypes /\ SocketInv

(* The notice and the debounce are counted down together, and the frames that *)
(* have passed make up for what has been counted.                             *)
CountInv ==
  /\ delay = 0 => sinceToggle + debounce >= Debounce - Notice
  /\ delay > 0 => /\ debounce = Debounce - Notice + delay
                  /\ sinceToggle >= Debounce - delay

(* A counter loses one per frame, down to zero. *)
LEMMA TickFacts == \A n \in Nat : /\ Tick(n) \in Nat
                                  /\ n > 0 => Tick(n) = n - 1
                                  /\ n = 0 => Tick(n) = 0
  BY DEF Tick

(* The types of the counters and of the sockets apart *)
LEMMA TypeParts == TypeOK <=> CounterTypes /\ SocketTypes
<1>1. bound \in 0 .. 1 <=> bound \in {0, 1}
  OBVIOUS
<1>. QED  BY <1>1 DEF TypeOK, CounterTypes, SocketTypes

(* The server starts with no socket. *)
LEMMA ServerInvInit == Init => ServerInv
<1>. SUFFICES ASSUME Init PROVE ServerInv
  OBVIOUS
<1>1. /\ debounce = 0 /\ delay = 0 /\ sinceToggle = Debounce /\ parity = 0
      /\ request = FALSE
  BY DEF Init
<1>2. CounterTypes
  <2>1. Debounce \in Nat /\ Notice \in Nat
    BY FrameAssumption
  <2>2. debounce \in 0 .. Debounce /\ delay \in 0 .. Notice /\ sinceToggle \in 0 .. Debounce
        /\ parity \in 0 .. 1
    BY <1>1, <2>1
  <2>3. request \in BOOLEAN
    BY <1>1
  <2>. QED  BY <2>2, <2>3 DEF CounterTypes
<1>3. SocketInv
  BY DEF Init, SocketInv, SocketTypes, EstablishedHasClient
<1>. QED  BY <1>2, <1>3 DEF ServerInv

(* One frame of WebSocket::calc, by what it does to the counters *)
LEMMA CalcCounters ==
  ASSUME CounterTypes, NEW combo \in BOOLEAN, Calc(combo)
  PROVE  CounterTypes'
<1>0. /\ Debounce \in Nat /\ Notice \in Nat /\ Notice < Debounce
      /\ debounce \in 0 .. Debounce /\ delay \in 0 .. Notice /\ sinceToggle \in 0 .. Debounce
      /\ parity \in 0 .. 1
  BY FrameAssumption DEF CounterTypes
<1>. DEFINE asked == Accepted(combo)
<1>. HIDE DEF asked
<1>1. debounce' \in 0 .. Debounce
  <2>1. debounce' = Tick(IF asked THEN Debounce ELSE debounce)
    BY DEF Calc, asked
  <2>. QED  BY <1>0, <2>1 DEF Tick
<1>2. delay' \in 0 .. Notice
  <2>1. delay' = Tick(IF asked THEN Notice ELSE delay)
    BY DEF Calc, asked
  <2>. QED  BY <1>0, <2>1 DEF Tick
<1>3. sinceToggle' \in 0 .. Debounce
  <2>1. \/ sinceToggle' = 0
        \/ sinceToggle' = IF sinceToggle < Debounce THEN sinceToggle + 1 ELSE sinceToggle
    BY DEF Calc
  <2>. QED  BY <1>0, <2>1
<1>4. request' \in BOOLEAN
  <2>1. request' = (request /\ ~asked)
    BY DEF Calc, asked, StillAsked
  <2>. QED  BY <2>1
<1>5. parity' \in 0 .. 1
  <2>1. parity' = 1 - parity
    BY DEF Calc
  <2>. QED  BY <1>0, <2>1
<1>. QED  BY <1>1, <1>2, <1>3, <1>4, <1>5 DEF CounterTypes

(* The toggle of the server keeps its sockets in order. *)
LEMMA CalcKeepsSockets ==
  ASSUME SocketInv, NEW combo \in BOOLEAN, Calc(combo)
  PROVE  SocketInv'
<1>1. \/ UNCHANGED <<at, sockVars>>
      \/ established /\ CloseActiveSocket /\ UNCHANGED at
      \/ ~established /\ at' = "bind" /\ UNCHANGED sockVars
  BY DEF Calc
<1>2. at = "frame"
  BY DEF Calc
<1>3. failed' \in {"none", "bind", "listen", "accept"}
  <2>1. failed' = "none" \/ failed' = failed
    BY DEF Calc
  <2>. QED  BY <2>1 DEF SocketInv, SocketTypes
<1>4. CASE UNCHANGED <<at, sockVars>>
  BY <1>2, <1>3, <1>4 DEF SocketInv, SocketTypes, EstablishedHasClient, sockVars
<1>5. CASE established /\ CloseActiveSocket /\ UNCHANGED at
  <2>1. /\ established' = FALSE /\ client' = "none" /\ server' = FALSE /\ peer' = "none"
        /\ at' = "frame"
    BY <1>2, <1>5 DEF CloseActiveSocket, ForgetClient
  <2>2. bound' = 0
    <3>1. server /\ bound = 1
      BY <1>5 DEF SocketInv, EstablishedHasClient
    <3>2. bound' = bound - 1
      BY <1>5, <3>1 DEF CloseActiveSocket
    <3>. QED  BY <3>1, <3>2
  <2>. QED  BY <1>3, <2>1, <2>2 DEF SocketInv, SocketTypes, EstablishedHasClient
<1>6. CASE ~established /\ at' = "bind" /\ UNCHANGED sockVars
  BY <1>3, <1>6 DEF SocketInv, SocketTypes, EstablishedHasClient, sockVars
<1>. QED  BY <1>1, <1>4, <1>5, <1>6

(* No step of the server disturbs its sockets. *)
LEMMA NextKeepsServer == ServerInv /\ [Next]_vars => ServerInv'
<1>. SUFFICES ASSUME CounterTypes, SocketInv, [Next]_vars PROVE CounterTypes' /\ SocketInv'
  BY DEF ServerInv
<1>. USE DEF SocketInv, SocketTypes, EstablishedHasClient
<1>1. CASE Frame
  BY <1>1, CalcCounters, CalcKeepsSockets DEF Frame
<1>2. CASE ~Frame
  <2>1. CounterTypes'
    <3>1. UNCHANGED <<debounce, delay, sinceToggle, parity>> /\ (UNCHANGED request \/ request' = TRUE)
      BY <1>2 DEF Next, Serve, vars, WsListen, BindSucceeds, BindFails, Listen, AcceptSucceeds,
                  AcceptFails, Upgrade, Refuse, Disconnect, frameVars, history
    <3>. QED  BY <3>1 DEF CounterTypes
  <2>2. CASE UNCHANGED <<at, sockVars, failed>>
    BY <2>1, <2>2 DEF sockVars
  <2>3. CASE BindSucceeds
    BY <2>1, <2>3 DEF BindSucceeds, history
  <2>4. CASE BindFails
    BY <2>1, <2>4 DEF BindFails, Fail
  <2>5. CASE Listen
    BY <2>1, <2>5 DEF Listen, Fail, sockVars
  <2>6. CASE AcceptSucceeds
    BY <2>1, <2>6 DEF AcceptSucceeds, history
  <2>7. CASE AcceptFails
    BY <2>1, <2>7 DEF AcceptFails, Fail
  <2>8. CASE Upgrade
    BY <2>1, <2>8 DEF Upgrade, history
  <2>9. CASE Refuse
    BY <2>1, <2>9 DEF Refuse, DropClient, history
  <2>10. CASE Disconnect
    BY <2>1, <2>10 DEF Disconnect, history
  <2>11. CASE WsListen \/ UNCHANGED vars
    BY <2>1, <2>2, <2>11 DEF WsListen, vars, history
  <2>. QED
    BY <1>2, <2>1, <2>3, <2>4, <2>5, <2>6, <2>7, <2>8, <2>9, <2>10, <2>11 DEF Next, Serve
<1>. QED  BY <1>1, <1>2

(* Whatever fails and whoever vanishes, the flag, the client's socket and the *)
(* server's socket agree.                                                     *)
THEOREM ConnectionCorrect == Spec => [](TypeOK /\ EstablishedHasClient)
<1>1. ServerInv => TypeOK /\ EstablishedHasClient
  BY TypeParts DEF ServerInv, SocketInv
<1>. QED  BY ServerInvInit, NextKeepsServer, <1>1, PTL DEF Spec

(* A frame counts, and toggles only when the debounce has run out. *)
LEMMA CalcCounts ==
  ASSUME CounterTypes, CountInv, NEW combo \in BOOLEAN, Calc(combo)
  PROVE  CountInv' /\ (Toggles => sinceToggle >= Debounce - 1)
<1>. DEFINE asked  == Accepted(combo)
            toggle == delay' = 0 /\ (asked \/ delay > 0)
<1>1. /\ Debounce \in Nat /\ Notice \in Nat /\ 1 < Notice /\ Notice < Debounce
      /\ debounce \in 0 .. Debounce /\ delay \in 0 .. Notice /\ sinceToggle \in 0 .. Debounce
  BY FrameAssumption DEF CounterTypes
<1>2. /\ debounce' = Tick(IF asked THEN Debounce ELSE debounce)
      /\ delay' = Tick(IF asked THEN Notice ELSE delay)
      /\ sinceToggle' = IF toggle THEN 0
                        ELSE IF sinceToggle < Debounce THEN sinceToggle + 1 ELSE sinceToggle
  BY DEF Calc
<1>3. asked => debounce = 0
  BY DEF Accepted
<1>. HIDE DEF asked
<1>4. CASE asked
  <2>1. delay = 0 /\ sinceToggle >= Debounce - Notice
    BY <1>1, <1>3, <1>4 DEF CountInv
  <2>2. delay' = Notice - 1 /\ debounce' = Debounce - 1 /\ delay' > 0
    BY <1>1, <1>2, <1>4 DEF Tick
  <2>3. sinceToggle' = IF sinceToggle < Debounce THEN sinceToggle + 1 ELSE sinceToggle
    BY <1>2, <2>2
  <2>. QED  BY <1>1, <2>1, <2>2, <2>3 DEF CountInv, Toggles
<1>5. CASE ~asked /\ delay = 0
  <2>1. delay' = 0 /\ ~toggle /\ debounce' = IF debounce > 0 THEN debounce - 1 ELSE 0
    BY <1>1, <1>2, <1>5 DEF Tick
  <2>. QED  BY <1>1, <1>2, <1>5, <2>1 DEF CountInv, Toggles
<1>6. CASE ~asked /\ delay > 0
  <2>1. /\ debounce = Debounce - Notice + delay
        /\ sinceToggle >= Debounce - delay
    BY <1>6 DEF CountInv
  <2>2. delay' = delay - 1 /\ debounce' = debounce - 1
    BY <1>1, <1>2, <1>6, <2>1 DEF Tick
  <2>3. CASE delay = 1
    BY <1>1, <1>2, <2>1, <2>2, <2>3 DEF CountInv, Toggles
  <2>4. CASE delay > 1
    BY <1>1, <1>2, <2>1, <2>2, <2>4 DEF CountInv, Toggles
  <2>. QED  BY <1>1, <1>6, <2>3, <2>4
<1>. QED  BY <1>1, <1>4, <1>5, <1>6

(* No other step changes what is counted. *)
LEMMA NextCounts ==
  ASSUME ServerInv, CountInv, [Next]_vars
  PROVE  CountInv' /\ [Toggles => sinceToggle >= Debounce - 1]_vars
<1>1. CASE Frame
  BY <1>1, CalcCounts DEF Frame, ServerInv
<1>2. CASE UNCHANGED <<debounce, delay, sinceToggle>>
  BY <1>2 DEF CountInv, Toggles
<1>3. CASE UNCHANGED vars
  BY <1>2, <1>3 DEF vars, frameVars, history
<1>4. CASE WsListen
  BY <1>2, <1>4 DEF WsListen, history
<1>5. CASE Serve \/ Disconnect
  BY <1>2, <1>5
  DEF Serve, Disconnect, BindSucceeds, BindFails, Listen, AcceptSucceeds, AcceptFails, Upgrade, Refuse,
      frameVars, history
<1>. QED  BY <1>1, <1>3, <1>4, <1>5 DEF Next

(* The server is not started or closed twice within the debounce, for all     *)
(* counts of frames of which the notice is the shorter.                       *)
THEOREM DebounceCorrect == Spec => DebounceHonoured
<1>1. Init => CountInv
  BY FrameAssumption DEF Init, CountInv
<1>2. ServerInv /\ CountInv /\ [Next]_vars => CountInv' /\ [Toggles => sinceToggle >= Debounce - 1]_vars
  BY NextCounts
<1>. QED
  BY <1>1, <1>2, ServerInvInit, NextKeepsServer, PTL DEF Spec, DebounceHonoured

=============================================================================
