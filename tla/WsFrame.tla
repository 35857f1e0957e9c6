------------------------------- MODULE WsFrame -------------------------------
(***************************************************************************)
(* The WebSocket frame headers of server/WebSocket.cpp: how a text frame   *)
(* announces the length of its payload, and how the send queue and the     *)
(* receiver read it back.  A header is the sequence of its bytes; bytes    *)
(* hold 8 bits, lengths 32.  HeaderLenPastMedium is a deliberately faulty  *)
(* form of HeaderLen.                                                      *)
(***************************************************************************)
EXTENDS Integers, Sequences

Byte  == 0 .. 255
Small == 126        \* 0x7e: the size byte that announces a 2-byte length
Large == 127        \* 0x7f: the one that announces an 8-byte length
Text  == 129        \* 0x81: FIN and the text opcode

HeaderLenPastMedium(pLen) == IF pLen <= 125 THEN 2 ELSE IF pLen <= 65536 THEN 4 ELSE 10

(* headerLenFromPayloadLen *)
HeaderLen(pLen) == IF pLen <= 125 THEN 2 ELSE IF pLen < 65535 THEN 4 ELSE 10

FrameLen(pLen) == HeaderLen(pLen) + pLen

(* serializeHeader.  A store to a byte keeps the low 8 bits. *)
Header(pLen) ==
  LET h == HeaderLen(pLen) IN
  IF h = 2 THEN <<Text, pLen % 256>>
  ELSE IF h = 4 THEN <<Text, Small, (pLen \div 256) % 256, pLen % 256>>
  ELSE <<Text, Large, 0, 0, 0, 0, pLen \div 16777216, (pLen % 16777216) \div 65536,
         (pLen % 65536) \div 256, pLen % 256>>

(* getSerializedFrameSize, over the bytes of a header (2 of them for a small *)
(* frame, whatever the payload is)                                           *)
SerializedFrameSize(b) ==
  IF b[2] < Small THEN 2 + b[2]
  ELSE IF b[2] = Small THEN 4 + b[3] * 256 + b[4]
  ELSE IF b[2] = Large THEN 10 + b[7] * 16777216 + b[8] * 65536 + b[9] * 256 + b[10]
  ELSE 0
=============================================================================
