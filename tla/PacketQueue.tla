----------------------------- MODULE PacketQueue ----------------------------
(***************************************************************************)
(* What the tracer's packet buffer is meant to be (tracer.c:160-165): a    *)
(* bounded first-in first-out queue of good packets.  One that comes in    *)
(* while there is room is queued; only when the queue is full is it        *)
(* dropped.                                                                *)
(***************************************************************************)
EXTENDS Integers, Sequences

CONSTANTS Packet,    \* the packets the radio can receive
          Nothing,
          Capacity   \* the packets the queue holds

VARIABLES heard,  \* the good packet that has just come in, or Nothing
          queue,  \* received and not yet taken
          taken   \* the packets handed out, in order

vars == <<heard, queue, taken>>

Init == heard = Nothing /\ queue = <<>> /\ taken = <<>>

Hear(p) ==
    /\ heard = Nothing
    /\ heard' = p
    /\ UNCHANGED <<queue, taken>>

Accept ==
    /\ heard # Nothing /\ Len(queue) < Capacity
    /\ queue' = Append(queue, heard)
    /\ heard' = Nothing
    /\ UNCHANGED taken

Drop ==
    /\ heard # Nothing /\ Len(queue) = Capacity
    /\ heard' = Nothing
    /\ UNCHANGED <<queue, taken>>

Take ==
    /\ queue # <<>>
    /\ taken' = Append(taken, Head(queue))
    /\ queue' = Tail(queue)
    /\ UNCHANGED heard

Next == Accept \/ Drop \/ Take \/ \E p \in Packet : Hear(p)

Spec == Init /\ [][Next]_vars
=============================================================================
