------------------------------- MODULE MCFiles -------------------------------
(* Instances of the file requests for TLC. *)
EXTENDS FilesProperties

(* Every request has a namespace of its own. *)
OwnNs(t) == t
=============================================================================
