--------------------------- MODULE FilesProperties ---------------------------
(* What the web frontend may expect of the files it reads and writes.        *)
EXTENDS Files

(* A request is answered by what the file, or the directory, held at some    *)
(* time after it was made, with all that was saved before: messages are      *)
(* handled in order, and each answer goes to the request it was asked for.   *)
(* Excepted are namespaces that were asked while the connection was lost, in *)
(* one frame with another script, or again before the answer had come, whose *)
(* answers then go astray, and files once read while they were too long,     *)
(* which can no longer be saved.                                             *)
ReadYourWrites ==
  [][\A i \in Requests :
       request[i] # Idle /\ request'[i] = Idle =>
         \/ Ns(request[i].target) \in spoiled
         \/ request[i].target \in leaked
         \/ request[i].target = Dir /\ leaked # {}
         \/ request[i].got \in owed[i]]_vars

(* "resolve": every request is answered in the end, whatever else the user   *)
(* does, unless its namespace is one of those excepted above.                *)
Answered ==
  \A i \in Requests :
    request[i] # Idle ~> (request[i] = Idle \/ Ns(request[i].target) \in spoiled)

(* When the mod closes an uploaded file, it is the whole of that upload and  *)
(* nothing else, whatever became of the uploads before it, except that the   *)
(* last byte is missing if it would be a chunk of its own.                   *)
UploadWhole ==
  [][\A k \in 1 .. Len(toMod) :
       toMod[k].kind = "chunk" /\ toMod[k].op = 3 /\ Len(toMod') = Len(toMod) - k
         /\ connected' = connected =>
       LET total == toMod[k].total
       IN  image' = [b \in 1 .. IF total % Chunk = 1 THEN total - 1 ELSE total |-> toMod[k].of]]_vars
=============================================================================
