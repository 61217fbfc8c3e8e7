---------------------------- MODULE MCRFBWriter ----------------------------
(***************************************************************************)
(* RFBWriter on a small instance: a buffer that a few messages overflow,   *)
(* a clipboard message that does not fit in it, two pointer positions.     *)
(***************************************************************************)
EXTENDS RFBWriter

MCMsgSize == [move |-> 2, click |-> 2, key |-> 3, request |-> 2,
              encodings |-> 3, desktopSize |-> 2, cutText |-> 3,
              bigCutText |-> 7]
=============================================================================
