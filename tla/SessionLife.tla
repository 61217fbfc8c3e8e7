---------------------------- MODULE SessionLife ----------------------------
(***************************************************************************)
(* The life of a Session over several connections: it loses one, asks the  *)
(* user or begins a reconnection by itself, waits for it behind a sheet    *)
(* that a timer puts up, and ends.  The attempts are those of              *)
(* ConnectionWaiter, which calls the session back; servers reached through *)
(* ssh have waiters of another class (SshWaiter), left out here.           *)
(*                                                                         *)
(* Everything but the thread of the waiter happens on the main thread.     *)
(* The session has no owner but the list of the manager, the timer and the *)
(* blocks that run when its sheets end; the waiter does not retain it.     *)
(***************************************************************************)
EXTENDS ConnectionWaiter

CONSTANT MaxAttempts    \* bound of the model: reconnections of a session

ASSUME SessionAssumption == MaxAttempts \in Nat \ {0}

VARIABLES
    session,        \* see Session
    canReconnect    \* the server supports CONNECT

sessionVars == <<vars, session, canReconnect>>

Sheets == {"password", "question", "reconnect"}

Session ==
    [connection : BOOLEAN,      \* # nil
     listed : BOOLEAN,          \* in the list of the manager
     window : BOOLEAN,          \* # NULL
     timer : BOOLEAN,           \* _reconnectSheetTimer is scheduled
     sheets : Seq(Sheets),      \* of the window, the first one visible
     waiter : BOOLEAN,          \* _reconnectWaiter # nil
     attempts : 0 .. MaxAttempts,
     freed : BOOLEAN,           \* deallocated
     late : BOOLEAN,            \* its last owner went during one of its methods
     unheard : BOOLEAN]         \* lost its connection while giving a password

SessionInit ==
    /\ Init /\ ~delegate
    /\ canReconnect \in BOOLEAN
    /\ session = [connection |-> TRUE, listed |-> TRUE, window |-> TRUE,
                  timer |-> FALSE, sheets |-> <<>>, waiter |-> FALSE,
                  attempts |-> 0, freed |-> FALSE, late |-> FALSE,
                  unheard |-> FALSE]

Retained(s) == s.listed \/ s.timer \/ s.sheets # <<>>

\* An event of the main thread ends with the autorelease pool, which frees a
\* session without owners before the next event.
Settled == session.freed \/ Retained(session)

Running == ~session.freed /\ Retained(session)

-----------------------------------------------------------------------------
(* What the methods of Session do to it.                                   *)

BeginReconnect(s) ==
    [s EXCEPT !.waiter = TRUE, !.attempts = @ + 1, !.timer = TRUE]

ConnectionProblem(s) == [s EXCEPT !.connection = FALSE]

\* removeConnection: of the manager
EndSession(s) == [s EXCEPT !.listed = FALSE]

Ask(s, sheet) == [s EXCEPT !.sheets = Append(@, sheet)]

\* The sheet that ends is the visible one, if it is there at all.
EndSheet(s, sheet) ==
    [s EXCEPT !.sheets = IF @ # <<>> /\ Head(@) = sheet THEN Tail(@) ELSE @]

PasswordVisible(s) == s.sheets # <<>> /\ Head(s.sheets) = "password"

\* terminateConnection:, with a reason; old says that the connection is older
\* than the interval within which a lost one is not replaced unasked.
Terminate(s, old) ==
    IF ~s.connection THEN s
    ELSE LET t == ConnectionProblem(s) IN
         IF PasswordVisible(t)
         THEN IF canReconnect THEN t ELSE Ask(EndSheet(t, "password"), "question")
         ELSE IF canReconnect /\ old THEN BeginReconnect(t) ELSE Ask(t, "question")

AuthenticationFailed(s, old) ==
    LET t == IF canReconnect THEN s ELSE Terminate(s, old)
    IN  Ask(ConnectionProblem(t), "password")

\* Ends the sheet of the reconnection and its timer, which may have been the
\* last owner of the session.
WaitIsOver(s) ==
    LET t == [EndSheet(s, "reconnect") EXCEPT !.timer = FALSE]
    IN  [t EXCEPT !.late = ~Retained(t)]

ConnectionSucceeded(s) ==
    [WaitIsOver(s) EXCEPT !.connection = TRUE, !.waiter = FALSE]

ConnectionPrepareForSheet_Wrong(s) == EndSheet(s, "reconnect")

ConnectionPrepareForSheet(s) == WaitIsOver(s)

ConnectionFailed_Wrong(s) == s

ConnectionFailed(s) == EndSession(s)

-----------------------------------------------------------------------------
(* Events of the session.                                                  *)

\* A step of the session, which begins an attempt if the session does.
Becomes(s) ==
    /\ session' = s
    /\ IF s.attempts > session.attempts THEN Begin ELSE UNCHANGED vars
    /\ UNCHANGED canReconnect

MayBegin == session.attempts < MaxAttempts

ConnectionEnds ==
    /\ Running /\ session.connection /\ MayBegin
    /\ \E old \in BOOLEAN : Becomes(Terminate(session, old))

AuthenticationFails ==
    /\ Running /\ session.connection /\ MayBegin
    /\ session.sheets = <<>>
    /\ \E old \in BOOLEAN : Becomes(AuthenticationFailed(session, old))

PromptForPassword ==
    /\ Running /\ session.connection
    /\ session.sheets = <<>>
    /\ Becomes(Ask(session, "password"))

\* reconnectWithNewPassword:.  The sheet is still visible while the connection
\* is given the password, which it may fail to write.
PasswordEntered ==
    /\ Running /\ PasswordVisible(session) /\ MayBegin
    /\ IF session.connection
       THEN \E written \in BOOLEAN :
              LET s == IF written THEN session ELSE Terminate(session, FALSE)
              IN  Becomes([EndSheet(s, "password") EXCEPT
                             !.unheard = ~written /\ canReconnect])
       ELSE Becomes(EndSheet(BeginReconnect(session), "password"))

\* dontReconnect:
PasswordCancelled ==
    /\ Running /\ PasswordVisible(session)
    /\ Becomes(EndSession(ConnectionProblem(EndSheet(session, "password"))))

\* connectionTerminatedSheetDidEnd:
QuestionAnswered ==
    /\ Running /\ session.sheets # <<>> /\ Head(session.sheets) = "question"
    /\ LET s == EndSheet(session, "question")
       IN  \/ Becomes(EndSession(s))
           \/ canReconnect /\ MayBegin /\ Becomes(BeginReconnect(s))

\* Not under the password sheet, where the menu has it too: see the README.
ForceReconnect ==
    /\ Running /\ session.connection /\ canReconnect /\ MayBegin
    /\ session.sheets = <<>>
    /\ Becomes(BeginReconnect(ConnectionProblem(session)))

\* A window with a sheet does not close.
WindowWillClose ==
    /\ Running /\ session.window
    /\ session.sheets = <<>> /\ ~alert
    /\ Becomes(EndSession([session EXCEPT !.window = FALSE]))

\* createReconnectSheet:
TimerFires ==
    /\ Running /\ session.timer
    /\ LET s == [session EXCEPT !.timer = FALSE]
       IN  Becomes(IF s.window THEN Ask(s, "reconnect") ELSE s)

ReconnectCancelled ==
    /\ Running /\ session.sheets # <<>> /\ Head(session.sheets) = "reconnect"
    /\ Cancel
    /\ session' = EndSession([EndSheet(session, "reconnect") EXCEPT
                                !.waiter = FALSE])
    /\ UNCHANGED canReconnect

Dealloc_Wrong ==
    /\ ~Settled
    /\ session' = [session EXCEPT !.freed = TRUE, !.connection = FALSE,
                                  !.waiter = FALSE]
    /\ UNCHANGED <<vars, canReconnect>>

\* cancel to a waiter it has still, which may have had its say.
Dealloc ==
    /\ ~Settled
    /\ session' = [session EXCEPT !.freed = TRUE, !.connection = FALSE,
                                  !.waiter = FALSE]
    /\ IF session.waiter THEN Cancel ELSE UNCHANGED vars
    /\ UNCHANGED canReconnect

-----------------------------------------------------------------------------
(* The waiter and its calls of the session, its delegate.                  *)

WaiterRuns ==
    /\ \/ ThreadStep \/ OthersOpen \/ OthersClose
       \/ Settled /\ Resolved
    /\ UNCHANGED <<session, canReconnect>>

\* What has become of the session, now that the waiter has told it something.
Hears ==
    session' = CASE told' # told /\ told' = <<"succeeded">> ->
                       ConnectionSucceeded(session)
                 [] told' # told /\ told' = <<"failed">> ->
                       ConnectionFailed(session)
                 [] alert' /\ ~alert -> ConnectionPrepareForSheet(session)
                 [] OTHER -> session

WaiterTells ==
    /\ Settled
    /\ DidNotResolve \/ MainPerforms \/ ErrorDidEnd
    /\ Hears
    /\ UNCHANGED canReconnect

SessionNext ==
    \/ ConnectionEnds \/ AuthenticationFails \/ PromptForPassword
    \/ PasswordEntered \/ PasswordCancelled \/ QuestionAnswered
    \/ ForceReconnect \/ WindowWillClose \/ TimerFires \/ ReconnectCancelled
    \/ Dealloc \/ WaiterRuns \/ WaiterTells

\* A server resolves or does not, calls of the kernel return, the main thread
\* serves its queue, its timers and its autorelease pool.  The user need not
\* answer anything.
SessionFairness ==
    /\ WF_sessionVars(ThreadStep /\ WaiterRuns)
    /\ WF_sessionVars((Resolved /\ WaiterRuns) \/ (DidNotResolve /\ WaiterTells))
    /\ WF_sessionVars(MainPerforms /\ WaiterTells)
    /\ WF_sessionVars(TimerFires)
    /\ WF_sessionVars(Dealloc)

SessionSpec ==
    SessionInit /\ [][SessionNext]_sessionVars /\ SessionFairness

-----------------------------------------------------------------------------
(* Properties.                                                             *)

SessionTypeOK == TypeOK /\ session \in Session /\ canReconnect \in BOOLEAN

Reconnecting == delegate /\ told = <<>>

\* A session in the list without a connection has something under way that
\* will end that: an attempt, or a sheet for the user to answer.  Except for
\* one whose connection failed while it was given a password.
NeverAbandoned ==
    session.listed /\ ~session.connection /\ ~session.unheard
        => Reconnecting \/ alert \/ session.sheets # <<>>

\* The timer and the sheet of a reconnection are there only while an attempt
\* can still come to something, whichever of success, error, cancellation and
\* the timer is first, and there is never a connection or another sheet as
\* well.
WaitsOnlyForAttempts ==
    session.timer \/ "reconnect" \in {session.sheets[i] : i \in DOMAIN session.sheets}
        => /\ Reconnecting /\ ~alert /\ ~session.connection
           /\ canReconnect => Len(session.sheets) <= 1

\* The waiter, which does not retain its delegate, never calls a session that
\* has been deallocated, and never one that its timer alone kept until the
\* call, except after its window was closed before the timer fired.
NoLateCalls ==
    /\ Reconnecting => ~session.freed
    /\ session.late => ~session.window \/ ~canReconnect
=============================================================================
