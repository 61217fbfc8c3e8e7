-------------------------- MODULE ConnectionAttempt --------------------------
(***************************************************************************)
(* What an attempt to connect to a server promises its delegate: at most   *)
(* one outcome, told once, an error put up at most once before a failure,  *)
(* and silence after the delegate has cancelled it.  When it is over, the  *)
(* delegate may begin another.                                             *)
(***************************************************************************)
EXTENDS Sequences

VARIABLES
    wanted,     \* the attempt has not been cancelled
    reporting,  \* an error is on the screen
    told        \* the outcomes the delegate has been told

attempt == <<wanted, reporting, told>>

Outcomes == {"succeeded", "failed"}

\* wanted is FALSE also when nothing has been attempted yet
Init == wanted \in BOOLEAN /\ reporting = FALSE /\ told = <<>>

Running == wanted /\ told = <<>>

Begin ==
    /\ ~Running /\ ~reporting
    /\ wanted' = TRUE /\ told' = <<>>
    /\ UNCHANGED reporting

Report ==
    /\ Running /\ ~reporting
    /\ reporting' = TRUE
    /\ UNCHANGED <<wanted, told>>

Succeed ==
    /\ Running /\ ~reporting
    /\ told' = <<"succeeded">>
    /\ UNCHANGED <<wanted, reporting>>

Fail ==
    /\ Running
    /\ told' = <<"failed">>
    /\ reporting' = FALSE
    /\ UNCHANGED wanted

\* A delegate that has been told of a failure may still cancel.
Cancel ==
    /\ wanted
    /\ wanted' = FALSE
    /\ UNCHANGED <<reporting, told>>

\* The error of an attempt that was cancelled meanwhile leaves the screen.
Dismiss ==
    /\ ~wanted /\ reporting
    /\ reporting' = FALSE
    /\ UNCHANGED <<wanted, told>>

Next == Begin \/ Report \/ Succeed \/ Fail \/ Cancel \/ Dismiss

Spec == Init /\ [][Next]_attempt
=============================================================================
