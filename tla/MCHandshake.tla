---------------------------- MODULE MCHandshake ----------------------------
(***************************************************************************)
(* Handshake with servers of every version the client tells apart and the  *)
(* lists of security types that lead to each of its choices.               *)
(***************************************************************************)
EXTENDS Handshake

MCVersions == {NotVNC, <<3, 3>>, <<3, 7>>, <<3, 8>>, <<3, 889>>, <<4, 1>>}

MCOffers == {<<1>>, <<16, 2>>, <<30, 2>>, <<16>>}

MCSession(r, c) == [reconnecting |-> r, canReconnect |-> c]
AllSessions == {MCSession(FALSE, TRUE), MCSession(FALSE, FALSE), MCSession(TRUE, TRUE)}
Outgoing == {MCSession(FALSE, TRUE)}
=============================================================================
