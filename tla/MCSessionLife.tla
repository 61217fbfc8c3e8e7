--------------------------- MODULE MCSessionLife ---------------------------
(***************************************************************************)
(* The two sources of sessions: a session that reconnects (SessionLife)    *)
(* and the Listener.  They share no state, so that what is said of the one *)
(* holds in every interleaving with the other if it holds when the other   *)
(* has not begun.                                                          *)
(***************************************************************************)
EXTENDS SessionLife, Listener

CONSTANTS d1, d2, d3
MCDescriptors == {d1, d2, d3}

VARIABLE source     \* which of the two it is
sources == <<sessionVars, listenerVars, source>>

SourcesInit ==
    /\ SessionInit /\ ListenerInit
    /\ source \in {"session", "listener"}

SourcesNext ==
    \/ source = "session" /\ SessionNext /\ UNCHANGED <<listenerVars, source>>
    \/ source = "listener" /\ ListenerNext /\ UNCHANGED <<sessionVars, source>>

Sources ==
    /\ SourcesInit /\ [][SourcesNext]_sources
    /\ SessionFairness /\ ListenerFairness
=============================================================================
