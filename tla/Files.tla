-------------------------------- MODULE Files --------------------------------
(***************************************************************************)
(* How the web frontend reads, lists and writes files on the console       *)
(* (frontend/index.html with JsonDispatch.cpp, fs.cpp and Logger.cpp).     *)
(* A file is saved by a message; it is read, and a directory listed, by    *)
(* sending a script that logs the answer into a namespace, to which the    *)
(* request has subscribed.  A mod image is uploaded in chunks.             *)
(*                                                                         *)
(* All those scripts are sent under one module name.  A module is built    *)
(* once and reused while it is on the stack (module Schedule), so that the *)
(* scripts that arrive in one frame all run the first one's text.          *)
(*                                                                         *)
(* OpenKeepsSize, EndFirst and SilentOnError are deliberately faulty forms *)
(* of the definitions that follow them.                                    *)
(***************************************************************************)
EXTENDS Integers, FiniteSetsExt, SequencesExt

CONSTANTS
  Paths, Dir,      \* text files, and the directory they are in
  Ns(_),           \* namespace of a request: the file's name without its extension
  Contents,        \* texts that are saved
  Long,            \* those of 8191 bytes or more, which readTextFile refuses
  NoFile, Error,   \* a path without a file; the text of an error
  Requests,        \* callbacks that wait for an answer
  Lengths, Chunk,  \* of uploads, and their chunkSize (0x1000)
  MaxDone,         \* bound: what the user does
  MaxLosses        \* bound: connections lost

ASSUME FileAssumption ==
  /\ Long \subseteq Contents /\ NoFile \notin Contents /\ Error \notin Contents
  /\ Dir \notin Paths /\ NoFile \notin Paths \cup {Dir} /\ IsFiniteSet(Paths)
ASSUME UploadAssumption == Lengths \subseteq Nat \ {0, 1} /\ Chunk \in Nat \ {0, 1}
ASSUME BoundAssumption == {MaxDone, MaxLosses} \subseteq Nat

Targets    == Paths \cup {Dir}
Namespaces == {Ns(t) : t \in Targets}
Idle == [target |-> NoFile, got |-> <<>>]

VARIABLES
  connected,
  toMod,      \* messages sent and not received by the mod
  fromMod,    \* logs sent and not received by the frontend
  subs,       \* ns_subscriptions
  request,    \* what each callback has accumulated, and for what
  files,      \* contents of the paths
  leaked,     \* paths readTextFile has left open
  image,      \* the uploaded file: which upload each byte is of
  upload,     \* number of the last upload
  owed,       \* history: answers that would have been right since the request
  spoiled,    \* history: namespaces asked while the connection was lost, in one frame with
              \* another script, or while an earlier request in them had no answer yet
  done, losses

modVars == <<files, leaked, image>>
webVars == <<subs, request, owed>>
vars == <<connected, toMod, fromMod, webVars, modVars, upload, spoiled, done, losses>>

-----------------------------------------------------------------------------
(* writeFile: a file that is still open for reading can neither be opened    *)
(* nor created, which nobody is told.                                        *)
Written(f, path, text) == IF path \in leaked THEN f ELSE [f EXCEPT ![path] = text]

(* writeFileChunked *)
OpenKeepsSize(img) == img
Truncated(img)     == <<>>

WithChunk(img, m) ==
  LET old == IF m.op = 1 THEN Truncated(img) ELSE img
      len == IF m.len > 0 /\ m.offset + m.len > Len(old) THEN m.offset + m.len ELSE Len(old)
  IN  [k \in 1 .. len |-> IF k > m.offset /\ k <= m.offset + m.len THEN m.of ELSE old[k]]

(* dispatchText, for all but scripts *)
Dispatched(s, m) ==
  CASE m.kind = "save"  -> [s EXCEPT !.files = Written(@, m.path, m.text)]
    [] m.kind = "chunk" -> [s EXCEPT !.image = WithChunk(@, m)]
    [] OTHER            -> s

After(batch) == FoldLeft(Dispatched, [files |-> files, image |-> image], batch)

(* dumpTextFileIntoNS, dumpDirectoryIndexIntoNS *)
ReadText(text) == IF text \in Long \cup {NoFile} THEN Error ELSE text
Answer(t, f) ==
  IF t = Dir THEN SetToSeq({p \in Paths : f[p] # NoFile}) ELSE <<ReadText(f[t])>>

Message(t, end, text) == [ns |-> Ns(t), end |-> end, text |-> text]
Texts(t, f) == [k \in 1 .. Len(Answer(t, f)) |-> Message(t, FALSE, Answer(t, f)[k])]

EndFirst(t, f) == <<Message(t, TRUE, NoFile)>> \o Texts(t, f)
SilentOnError(t, f) ==
  IF Answer(t, f) = <<Error>> THEN Texts(t, f) ELSE Texts(t, f) \o <<Message(t, TRUE, NoFile)>>
Dump(t, f) == Texts(t, f) \o <<Message(t, TRUE, NoFile)>>

Log(t, f) == IF t \in Targets THEN Dump(t, f) ELSE <<>>

(* What a script logs that runs n times *)
Times(n, log) == [k \in 1 .. n * Len(log) |-> log[1 + ((k - 1) % Len(log))]]

Asking(scripts) == {Ns(toMod[k].target) : k \in {j \in scripts : toMod[j].target \in Targets}}

(* One frame: recvNoblockAndProc dispatches what has arrived, then the main  *)
(* loop runs the scripts, which is the first of them, as often as there are. *)
Frame ==
  \E n \in 1 .. Len(toMod) :
    LET after   == After(SubSeq(toMod, 1, n))
        scripts == {k \in 1 .. n : toMod[k].kind = "exec"}
        runs    == Cardinality(scripts)
        t       == toMod[Min(scripts)].target
    IN  /\ toMod' = SubSeq(toMod, n + 1, Len(toMod))
        /\ files' = after.files /\ image' = after.image
        /\ spoiled' = IF runs = 1 THEN spoiled ELSE spoiled \cup Asking(scripts)
        /\ IF runs = 0
           THEN UNCHANGED <<fromMod, leaked>>
           ELSE /\ fromMod' = IF connected THEN fromMod \o Times(runs, Log(t, after.files)) ELSE <<>>
                /\ leaked' = IF t \in Paths /\ after.files[t] \in Long THEN leaked \cup {t} ELSE leaked
        /\ UNCHANGED <<connected, webVars, upload, done, losses>>

-----------------------------------------------------------------------------
(* The frontend *)

Waiting == {i \in Requests : request[i] # Idle}

(* What is sent over a connection that is not open is lost. *)
Send(msgs) == toMod' = IF connected THEN toMod \o msgs ELSE toMod

InForce == After(toMod).files

(* reqDumpTextFile, reqDirectoryIndex: subscribe, then send *)
Request(i, t) ==
  /\ request[i] = Idle
  /\ request' = [request EXCEPT ![i] = [target |-> t, got |-> <<>>]]
  /\ subs' = [subs EXCEPT ![Ns(t)] = Append(@, i)]
  /\ Send(<<[kind |-> "exec", target |-> t]>>)
  /\ owed' = [owed EXCEPT ![i] = {Answer(t, InForce)}]
  /\ spoiled' = IF connected /\ subs[Ns(t)] = <<>> THEN spoiled ELSE spoiled \cup {Ns(t)}
  /\ UNCHANGED <<connected, fromMod, modVars, upload, losses>>

(* AngelScript.exec of a button *)
Button ==
  /\ Send(<<[kind |-> "exec", target |-> NoFile]>>)
  /\ UNCHANGED <<connected, fromMod, webVars, modVars, upload, spoiled, losses>>

(* createAndEditFile, deleteSdFile, handleTasUpdate, do_tas_upload_filename *)
Save(path, text) ==
  /\ connected
  /\ Send(<<[kind |-> "save", path |-> path, text |-> text]>>)
  /\ owed' = [i \in Requests |->
                IF i \in Waiting
                THEN owed[i] \cup {Answer(request[i].target, [InForce EXCEPT ![path] = text])}
                ELSE {}]
  /\ UNCHANGED <<connected, fromMod, subs, request, modVars, upload, spoiled, losses>>

(* on_drop_terrifying_subsdk9_upload: for (let i = 0; i < rawPayload.length-1;) *)
Pieces(len, u) ==
  LET count == (len - 1 + Chunk - 1) \div Chunk
      piece(k) == [kind |-> "chunk", op |-> IF k = 0 THEN 1 ELSE 2, of |-> u, total |-> len,
                   offset |-> k * Chunk,
                   len |-> IF (k + 1) * Chunk <= len THEN Chunk ELSE len - k * Chunk]
  IN  [k \in 1 .. count |-> piece(k - 1)]
        \o <<[kind |-> "chunk", op |-> 3, of |-> u, total |-> len, offset |-> 0, len |-> 0]>>

Upload(len) ==
  /\ connected
  /\ upload' = 1 - upload
  /\ Send(Pieces(len, upload'))
  /\ UNCHANGED <<connected, fromMod, webVars, modVars, spoiled, losses>>

(* consume_ws_msg.  A callback whose answer has ended unsubscribes while     *)
(* forEach walks the subscriptions, which then skips the one behind it.      *)
Receive ==
  /\ fromMod # <<>> /\ fromMod' = Tail(fromMod)
  /\ LET m      == Head(fromMod)
         called == subs[m.ns]
         kept   == {k \in 1 .. Len(called) : k % 2 = 0}
         over   == {called[k] : k \in (1 .. Len(called)) \ kept}
     IN  IF m.end
         THEN /\ subs' = [subs EXCEPT ![m.ns] = [k \in 1 .. Cardinality(kept) |-> called[2 * k]]]
              /\ request' = [i \in Requests |-> IF i \in over THEN Idle ELSE request[i]]
              /\ owed' = [i \in Requests |-> IF i \in over THEN {} ELSE owed[i]]
         ELSE /\ request' = [i \in Requests |->
                               IF \E k \in 1 .. Len(called) : called[k] = i
                               THEN [request[i] EXCEPT !.got = Append(@, m.text)] ELSE request[i]]
              /\ UNCHANGED <<subs, owed>>
  /\ UNCHANGED <<connected, toMod, modVars, upload, spoiled, done, losses>>

-----------------------------------------------------------------------------
(* The connection is lost, with what is on its way, and opened again.  The   *)
(* page keeps its subscriptions.                                             *)
Lose ==
  /\ connected /\ losses < MaxLosses
  /\ connected' = FALSE /\ losses' = losses + 1
  /\ \E n \in 0 .. Len(toMod) : toMod' = SubSeq(toMod, 1, n)
  /\ fromMod' = <<>>
  /\ spoiled' = spoiled \cup {Ns(request[i].target) : i \in Waiting}
  /\ UNCHANGED <<webVars, modVars, upload, done>>

Reopen ==
  /\ ~connected /\ toMod = <<>>
  /\ connected' = TRUE
  /\ fromMod' = <<>>
  /\ UNCHANGED <<toMod, webVars, modVars, upload, spoiled, done, losses>>

Init ==
  /\ connected = TRUE /\ toMod = <<>> /\ fromMod = <<>>
  /\ subs = [n \in Namespaces |-> <<>>]
  /\ request = [i \in Requests |-> Idle]
  /\ files \in [Paths -> {NoFile}] /\ leaked = {}
  /\ image = <<>> /\ upload = 0
  /\ owed = [i \in Requests |-> {}] /\ spoiled = {} /\ done = 0 /\ losses = 0

User ==
  /\ done < MaxDone /\ done' = done + 1
  /\ \/ \E i \in Requests, t \in Targets : Request(i, t)
     \/ Button
     \/ \E p \in Paths, c \in Contents : Save(p, c)
     \/ \E len \in Lengths : Upload(len)

Next == User \/ Frame \/ Receive \/ Lose \/ Reopen

Spec == Init /\ [][Next]_vars

(* The game renders frames, and the browser handles what it receives. *)
FairSpec == Spec /\ WF_vars(Frame) /\ WF_vars(Receive) /\ WF_vars(Reopen)
=============================================================================
