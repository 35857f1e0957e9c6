------------------------------ MODULE LogStream ------------------------------
(***************************************************************************)
(* What the log connection promises its client: the messages that were     *)
(* logged arrive whole, once and in the order in which they were logged,   *)
(* except that the shortest messages are dropped and that a message may be *)
(* sent past the queue.  Closing the connection keeps what is queued.      *)
(* Module SendQueue implements it.                                         *)
(***************************************************************************)
EXTENDS Sequences

CONSTANTS Messages, Dropped(_), NoMessage

VARIABLES open, queue, wire     \* wire: the message the client got last

Init == open \in BOOLEAN /\ queue = <<>> /\ wire = NoMessage

OpenClose == open' = ~open /\ UNCHANGED <<queue, wire>>

Log == /\ \E m \in Messages : queue' = Append(queue, m)
       /\ UNCHANGED <<open, wire>>

Send == /\ open /\ queue # <<>> /\ ~Dropped(Head(queue))
        /\ wire' = Head(queue)
        /\ queue' = Tail(queue)
        /\ UNCHANGED open

Drop == /\ queue # <<>> /\ Dropped(Head(queue))
        /\ queue' = Tail(queue)
        /\ UNCHANGED <<open, wire>>

SendPast == /\ open
            /\ \E m \in Messages : ~Dropped(m) /\ wire' = m
            /\ UNCHANGED <<open, queue>>

Next == OpenClose \/ Log \/ Send \/ Drop \/ SendPast

Spec == Init /\ [][Next]_<<open, queue, wire>>
=============================================================================
