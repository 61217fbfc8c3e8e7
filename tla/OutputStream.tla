---------------------------- MODULE OutputStream ----------------------------
(***************************************************************************)
(* What the write side of an RFB connection promises to the code that      *)
(* submits protocol messages: the messages reach the socket whole and in   *)
(* the order they were submitted.  The only liberty it has is to replace   *)
(* the last message, while it is still unsent, by a newer one, and only if *)
(* both are plain mouse movements with the same buttons held.              *)
(***************************************************************************)
EXTENDS Sequences, SequencesExt

VARIABLES sent,      \* messages handed to the socket, oldest first
          pending,   \* messages accepted and not yet handed to the socket
          broken     \* the peer has gone: nothing can be sent any more

streamVars == <<sent, pending, broken>>

StreamInit == sent = <<>> /\ pending = <<>> /\ broken = FALSE

IsMove(m) == m.kind = "move"

\* Any number of messages are appended, and any prefix of what is pending is
\* handed to the socket.
Extend ==
    /\ ~broken
    /\ IsPrefix(sent, sent')
    /\ IsPrefix(sent \o pending, sent' \o pending')
    /\ UNCHANGED broken

\* A mouse movement takes the place of the unsent one just before it.
CoalesceMove ==
    /\ ~broken
    /\ pending # <<>>
    /\ IsMove(Last(pending))
    /\ IsPrefix(sent, sent')
    /\ LET old == sent \o pending
           new == sent' \o pending'
       IN  /\ Len(new) = Len(old)
           /\ IsPrefix(Front(old), new)
           /\ IsMove(Last(new))
           /\ Last(new).arg = Last(old).arg
    /\ UNCHANGED broken

\* A write fails: nothing more is sent, what is or becomes pending is lost.
Break ==
    /\ ~broken
    /\ broken' = TRUE
    /\ UNCHANGED sent

\* Submitting to a broken stream has no visible effect.
Discard ==
    /\ broken
    /\ UNCHANGED <<sent, broken>>

StreamNext == Extend \/ CoalesceMove \/ Break \/ Discard

StreamSpec == StreamInit /\ [][StreamNext]_streamVars
=============================================================================
