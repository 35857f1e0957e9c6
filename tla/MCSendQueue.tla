----------------------------- MODULE MCSendQueue -----------------------------
(* Instances of the send queue for TLC. *)
EXTENDS SendQueue

(* The lengths around which a header, or a byte of it, changes. *)
Lens == {1, 125, 126, 127, 255, 256, 65534, 65535, 65536, 16777215, 16777216, 2147483000}
=============================================================================
