---------------------------- MODULE MCTextWriter -----------------------------
(* An instance of the text writer for TLC.                                    *)
EXTENDS TextWriter

MCLists == 1 .. 2
MCSlots == 1 .. 2
=============================================================================
