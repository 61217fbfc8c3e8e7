------------------------------ MODULE SshWaiter ------------------------------
(***************************************************************************)
(* SshWaiter and SshTunnel: an attempt to connect through ssh.  The tunnel *)
(* runs ssh, reads what it writes, and answers its prompts through a fifo; *)
(* the waiter shows the sheets, connects to the local end of the tunnel,   *)
(* and decides between the errors of ssh, of the tunnel and of the         *)
(* connection.  All but the wait for data (waitForData) is done on the     *)
(* main thread; the pipes, the end of ssh, the thread, timers and the user *)
(* come in any order.                                                      *)
(*                                                                         *)
(* ssh is external: it asks, fails with a line of explanation or without   *)
(* one, connects, refuses the channel, and ends at any moment.             *)
(***************************************************************************)
EXTENDS Integers, Sequences, SequencesExt

CONSTANTS
    MaxPrompts, \* bound of the model: prompts of ssh
    MaxLines    \* bound of the model: lines of failure of ssh

ASSUME SshWaiterAssumption == MaxPrompts \in Nat /\ MaxLines \in Nat

VARIABLES
    protocol,   \* of the server: "RFB" or "RDP"
    waiter,     \* see Waiter
    tunnel,     \* see Tunnel
    thread,     \* waitForData: "none", "waits", "over"
    mainQueue,  \* what the thread has asked the main thread to perform
    ssh         \* see Ssh

vars == <<protocol, waiter, tunnel, thread, mainQueue, ssh>>

Waiter ==
    [delegate : BOOLEAN,
     tunnel : BOOLEAN,              \* has one
     sock : BOOLEAN,                \* currentSock >= 0
     auth : BOOLEAN,                \* the sheet for the password is up
     keySheet : BOOLEAN,            \* so is that for the host's key,
     passphraseSheet : BOOLEAN,     \* that about passphrases,
     errors : Nat,                  \* and errors
     timer : BOOLEAN,               \* tunnelClosedTimer
     tunnelHasFailed : BOOLEAN,
     told : Seq({"succeeded", "failed"})]   \* what the delegate was told

Tunnel ==
    [state : {"opening", "prompt", "tunneling", "open", "closing"},
     delegate : BOOLEAN,
     reading : BOOLEAN,             \* of sshErr is in the background
     port : BOOLEAN,                \* portUsed of its port
     fifo : BOOLEAN]

Lines == {"password", "hostkey", "passphrase", "failure", "channel"}

Ssh ==
    [at : {"connecting", "asks", "connected", "ended",
           "none"},                \* it was not even launched
     terminate : BOOLEAN,           \* a signal to end is on its way
     reported : BOOLEAN,            \* NSTaskDidTerminateNotification
     prompts : 0 .. MaxPrompts,     \* asked so far
     lines : 0 .. MaxLines,         \* of failure written so far
     refused : BOOLEAN,             \* it closed the local connection
     out : BOOLEAN,                 \* "\n" waits in sshOut
     err : Seq(Lines)]

-----------------------------------------------------------------------------
(* The handlers, as functions of [w |-> waiter, t |-> tunnel, s |-> ssh].  *)

All == [w |-> waiter, t |-> tunnel, s |-> ssh]
Become(x) == waiter' = x.w /\ tunnel' = x.t /\ ssh' = x.s

\* error:message: up to the alert
Error(x) == IF x.w.delegate THEN [x EXCEPT !.w.errors = @ + 1] ELSE x

\* errorDidEnd, and the other ways to tell the delegate
TellFailed(x) ==
    IF x.w.delegate THEN [x EXCEPT !.w.told = Append(@, "failed")] ELSE x

\* SshTunnel close; nothing when the waiter has no tunnel
Close(x) ==
    IF x.t.state = "closing" THEN x
    ELSE [x EXCEPT !.t.state = "closing", !.t.delegate = FALSE,
                   !.s.terminate = TRUE]

CloseIfAny(x) == IF x.w.tunnel THEN Close(x) ELSE x

SshFailedWithError(x) == Error([x EXCEPT !.w.auth = FALSE])

SshFailed(x) ==
    LET y == [x EXCEPT !.t.state = "closing"]
    IN  IF y.t.delegate THEN SshFailedWithError(y) ELSE y

TunnelFailed(x) ==
    [Error([x EXCEPT !.w.timer = FALSE]) EXCEPT !.w.tunnelHasFailed = TRUE]

TunnelError(x) ==
    LET y == [x EXCEPT !.t.state = "closing"]
    IN  IF y.t.delegate THEN TunnelFailed(y) ELSE y

GetPassword(x) == [x EXCEPT !.w.auth = TRUE]

FirstTimeConnecting(x) == [x EXCEPT !.w.keySheet = TRUE]

SshPassphraseRequired(x) ==
    [x EXCEPT !.w.auth = FALSE, !.w.passphraseSheet = TRUE]

ProcessStringFromStderr_Wrong(x, line) ==
    CASE line = "password" ->
            IF x.t.state # "opening" THEN x
            ELSE GetPassword([x EXCEPT !.t.state = "prompt"])
      [] line = "hostkey" ->
            [x EXCEPT !.t.state = "prompt"]
      [] line = "passphrase" ->
            IF x.t.state \notin {"opening", "prompt"} THEN x
            ELSE SshPassphraseRequired([x EXCEPT !.t.state = "closing",
                                                 !.s.terminate = TRUE])
      [] line = "failure" -> SshFailed(x)
      [] line = "channel" -> TunnelError(x)

\* One line of the standard error of ssh, or of the helper it asks through.  In
\* the states that heed prompts the tunnel has its delegate.
ProcessStringFromStderr(x, line) ==
    CASE line = "password" ->
            IF x.t.state # "opening" THEN x
            ELSE GetPassword([x EXCEPT !.t.state = "prompt"])
      [] line = "hostkey" ->
            IF x.t.state # "opening" THEN x
            ELSE FirstTimeConnecting([x EXCEPT !.t.state = "prompt"])
      [] line = "passphrase" ->
            IF x.t.state \notin {"opening", "prompt"} THEN x
            ELSE SshPassphraseRequired([x EXCEPT !.t.state = "closing",
                                                 !.s.terminate = TRUE])
      [] line = "failure" -> SshFailed(x)
      [] line = "channel" -> TunnelError(x)

\* Those of one read, one after the other.
ProcessLines(x, lines) ==
    LET after[n \in 0 .. Len(lines)] ==
            IF n = 0 THEN x ELSE ProcessStringFromStderr(after[n - 1], lines[n])
    IN  after[Len(lines)]

\* writeToHelper: the answer goes to the helper if one waits, and is lost
\* otherwise.
WriteToHelper(x) ==
    IF x.t.state # "prompt" THEN x
    ELSE [x EXCEPT !.t.state = "opening",
                   !.s.at = IF @ = "asks" THEN "connecting" ELSE @]

AcceptKey(x, accept) ==
    LET y == WriteToHelper(x)
    IN  IF accept THEN y
        ELSE [y EXCEPT !.t.state = "closing",
                       !.s.terminate = @ \/ x.t.state = "prompt"]

SshTunnelConnected(x) ==
    [x EXCEPT !.t.state = "open", !.t.delegate = FALSE]

-----------------------------------------------------------------------------
(* The beginning: with a tunnel of its own, with the open tunnel of a      *)
(* session that reconnects, or without a port or a fifo for a tunnel.      *)

FreshWaiter ==
    [delegate |-> TRUE, tunnel |-> TRUE, sock |-> FALSE, auth |-> FALSE,
     keySheet |-> FALSE, passphraseSheet |-> FALSE, errors |-> 0,
     timer |-> FALSE, tunnelHasFailed |-> FALSE, told |-> <<>>]

FreshTunnel ==
    [state |-> "opening", delegate |-> TRUE, reading |-> TRUE,
     port |-> TRUE, fifo |-> TRUE]

FreshSsh ==
    [at |-> "connecting", terminate |-> FALSE, reported |-> FALSE,
     prompts |-> 0, lines |-> 0, refused |-> FALSE, out |-> FALSE,
     err |-> <<>>]

\* A tunnel that has found no port, and is deallocated.
NoPort ==
    [FreshTunnel EXCEPT !.state = "closing", !.delegate = FALSE,
                        !.reading = FALSE, !.port = FALSE, !.fifo = FALSE]

\* One that has marked a port as used, but could not make its fifo: dealloc
\* does not give the port back.
NoFifo == [NoPort EXCEPT !.port = TRUE]

\* tunnelEstablishedAtPort: with what may come of socket and connect
TunnelEstablished(x) ==
    {[x |-> Error(x), thread |-> "none"],
     [x |-> Error([x EXCEPT !.w.sock = TRUE]), thread |-> "none"],
     [x |-> [x EXCEPT !.w.sock = TRUE], thread |-> "waits"]}

Init ==
    /\ protocol \in {"RFB", "RDP"}
    /\ mainQueue = <<>>
    /\ \/ /\ waiter = FreshWaiter
          /\ tunnel = FreshTunnel
          /\ ssh = FreshSsh
          /\ thread = "none"
       \/ \E r \in TunnelEstablished(
                      [w |-> FreshWaiter,
                       t |-> [FreshTunnel EXCEPT !.state = "open",
                                                 !.delegate = FALSE,
                                                 !.fifo = FALSE],
                       s |-> [FreshSsh EXCEPT !.at = "connected"]]) :
             /\ waiter = r.x.w
             /\ tunnel = r.x.t
             /\ ssh = r.x.s
             /\ thread = r.thread
       \/ /\ waiter = [FreshWaiter EXCEPT !.tunnel = FALSE]
          /\ tunnel \in {NoPort, NoFifo}
          /\ ssh = [FreshSsh EXCEPT !.at = "none"]
          /\ thread = "none"

-----------------------------------------------------------------------------
(* What ssh writes, and its end.                                           *)

\* readFromSsh: for sshErr: one read brings some of the lines; the state is
\* looked at once, before the first.
ReadErr ==
    /\ tunnel.reading
    /\ \E n \in 1 .. Len(ssh.err) :
          LET x == [All EXCEPT !.s.err = SubSeq(@, n + 1, Len(@))]
          IN  Become(IF tunnel.state = "closing"
                     THEN [x EXCEPT !.t.reading = FALSE]
                     ELSE ProcessLines(x, SubSeq(ssh.err, 1, n)))
    /\ UNCHANGED <<protocol, thread, mainQueue>>

ReadErrEnd_Wrong ==
    /\ tunnel.reading /\ ssh.err = <<>> /\ ssh.at = "ended"
    /\ Become([All EXCEPT !.t.reading = FALSE])
    /\ UNCHANGED <<protocol, thread, mainQueue>>

\* The end of sshErr: ssh quit without an explanation.
ReadErrEnd ==
    /\ tunnel.reading /\ ssh.err = <<>> /\ ssh.at = "ended"
    /\ LET x == [All EXCEPT !.t.reading = FALSE]
       IN  Become(IF tunnel.state = "closing" THEN x ELSE SshFailed(x))
    /\ UNCHANGED <<protocol, thread, mainQueue>>

\* readFromSsh: for sshOut, and processStringFromStdout:
ReadOut ==
    /\ ssh.out
    /\ LET x == [All EXCEPT !.s.out = FALSE]
       IN  IF tunnel.state # "opening"
           THEN Become(x) /\ UNCHANGED thread
           ELSE \E r \in TunnelEstablished([x EXCEPT !.t.state = "tunneling",
                                                     !.t.fifo = FALSE]) :
                   Become(r.x) /\ thread' = r.thread
    /\ UNCHANGED <<protocol, mainQueue>>

SshTerminated ==
    /\ ssh.at = "ended" /\ ~ssh.reported
    /\ Become([All EXCEPT !.s.reported = TRUE, !.t.state = "closing",
                          !.t.port = FALSE, !.t.fifo = FALSE])
    /\ UNCHANGED <<protocol, thread, mainQueue>>

-----------------------------------------------------------------------------
(* The connection to the local end of the tunnel.                          *)

\* waitForData.  RDP makes a connection of its own and closes this one.
WaitForData ==
    /\ thread = "waits"
    /\ thread' = "over"
    /\ IF protocol = "RDP"
       THEN /\ waiter' = [waiter EXCEPT !.sock = FALSE]
            /\ mainQueue' = Append(mainQueue, "finishConnection")
       ELSE /\ UNCHANGED waiter
            /\ \/ mainQueue' = Append(mainQueue, "serverClosed")
               \/ /\ ssh.at = "connected" /\ ~ssh.refused
                  /\ mainQueue' = Append(mainQueue, "finishConnection")
    /\ UNCHANGED <<protocol, tunnel, ssh>>

FinishConnection(x) ==
    IF ~x.w.delegate THEN x
    ELSE SshTunnelConnected(
            [x EXCEPT !.w.told = Append(@, "succeeded"),
                      !.w.tunnel = FALSE, !.w.sock = FALSE])

ServerClosed(x) ==
    IF x.w.tunnelHasFailed THEN x ELSE [x EXCEPT !.w.timer = TRUE]

MainPerforms ==
    /\ mainQueue # <<>>
    /\ mainQueue' = Tail(mainQueue)
    /\ Become(IF Head(mainQueue) = "serverClosed" THEN ServerClosed(All)
                                                  ELSE FinishConnection(All))
    /\ UNCHANGED <<protocol, thread>>

\* The timer of serverClosed.
ServerClosedNoReason ==
    /\ waiter.timer
    /\ Become(CloseIfAny(Error([All EXCEPT !.w.timer = FALSE])))
    /\ UNCHANGED <<protocol, thread, mainQueue>>

-----------------------------------------------------------------------------
(* The user and the delegate.                                              *)

\* The answer to firstTimeConnecting:
AnswerKey ==
    /\ waiter.keySheet
    /\ \E accept \in BOOLEAN :
          LET x == AcceptKey([All EXCEPT !.w.keySheet = FALSE], accept)
          IN  Become(IF accept THEN x ELSE TellFailed(x))
    /\ UNCHANGED <<protocol, thread, mainQueue>>

AuthPasswordEntered ==
    /\ waiter.auth
    /\ Become(WriteToHelper([All EXCEPT !.w.auth = FALSE]))
    /\ UNCHANGED <<protocol, thread, mainQueue>>

AuthCancelled ==
    /\ waiter.auth
    /\ Become(TellFailed(CloseIfAny([All EXCEPT !.w.auth = FALSE])))
    /\ UNCHANGED <<protocol, thread, mainQueue>>

PassphraseSheetOver ==
    /\ waiter.passphraseSheet
    /\ Become(TellFailed([All EXCEPT !.w.passphraseSheet = FALSE]))
    /\ UNCHANGED <<protocol, thread, mainQueue>>

ErrorDidEnd ==
    /\ waiter.errors > 0
    /\ Become(TellFailed([All EXCEPT !.w.errors = @ - 1]))
    /\ UNCHANGED <<protocol, thread, mainQueue>>

Cancel_Wrong ==
    /\ waiter.delegate /\ waiter.told = <<>>
    /\ Become([All EXCEPT !.w.delegate = FALSE, !.w.sock = FALSE])
    /\ UNCHANGED <<protocol, thread, mainQueue>>

\* cancel, from a delegate that has not heard of an outcome.
Cancel ==
    /\ waiter.delegate /\ waiter.told = <<>>
    /\ Become(CloseIfAny([All EXCEPT !.w.delegate = FALSE, !.w.sock = FALSE]))
    /\ UNCHANGED <<protocol, thread, mainQueue>>

Over == ~waiter.delegate \/ waiter.told # <<>>

Dealloc_Wrong ==
    /\ Over /\ waiter.tunnel
    /\ thread # "waits" /\ mainQueue = <<>>
    /\ ~waiter.timer /\ waiter.errors = 0
    /\ ~waiter.keySheet /\ ~waiter.passphraseSheet
    /\ Become([All EXCEPT !.w.tunnel = FALSE, !.w.auth = FALSE])
    /\ UNCHANGED <<protocol, thread, mainQueue>>

\* The delegate has let go of the waiter, and nothing else holds it: neither
\* thread nor timer, message or sheet.
Dealloc ==
    /\ Over /\ waiter.tunnel
    /\ thread # "waits" /\ mainQueue = <<>>
    /\ ~waiter.timer /\ waiter.errors = 0
    /\ ~waiter.keySheet /\ ~waiter.passphraseSheet
    /\ Become([Close(All) EXCEPT !.w.tunnel = FALSE, !.w.auth = FALSE])
    /\ UNCHANGED <<protocol, thread, mainQueue>>

\* The session the connection was for ends.
SessionCloses ==
    /\ Contains(waiter.told, "succeeded")
    /\ tunnel.state = "open"
    /\ Become(Close(All))
    /\ UNCHANGED <<protocol, thread, mainQueue>>

-----------------------------------------------------------------------------
(* ssh.                                                                    *)

SshOnly == UNCHANGED <<protocol, waiter, tunnel, thread, mainQueue>>

SshAsks ==
    /\ ssh.at = "connecting" /\ ssh.prompts < MaxPrompts
    /\ \E line \in {"password", "hostkey", "passphrase"} :
          ssh' = [ssh EXCEPT !.at = "asks", !.prompts = @ + 1,
                             !.err = Append(@, line)]
    /\ SshOnly

\* A line of failure.  Some are warnings: ssh goes on, and asks again.
SshComplains ==
    /\ ssh.at \in {"connecting", "connected"} /\ ssh.lines < MaxLines
    /\ ssh' = [ssh EXCEPT !.lines = @ + 1, !.err = Append(@, "failure")]
    /\ SshOnly

SshConnects ==
    /\ ssh.at = "connecting"
    /\ ssh' = [ssh EXCEPT !.at = "connected", !.out = TRUE]
    /\ SshOnly

\* The server refuses the connection: ssh says so and closes the local one.
SshRefuses ==
    /\ ssh.at = "connected" /\ thread # "none" /\ ~ssh.refused
    /\ ssh' = [ssh EXCEPT !.refused = TRUE, !.err = Append(@, "channel")]
    /\ SshOnly

SshEnds ==
    /\ ssh.at \notin {"ended", "none"}
    /\ ssh' = [ssh EXCEPT !.at = "ended"]
    /\ SshOnly

-----------------------------------------------------------------------------

User == AnswerKey \/ AuthPasswordEntered \/ AuthCancelled
        \/ PassphraseSheetOver \/ ErrorDidEnd

Next ==
    \/ ReadErr \/ ReadErrEnd \/ ReadOut \/ SshTerminated
    \/ WaitForData \/ MainPerforms \/ ServerClosedNoReason
    \/ AnswerKey \/ AuthPasswordEntered \/ AuthCancelled
    \/ PassphraseSheetOver \/ ErrorDidEnd
    \/ Cancel \/ Dealloc \/ SessionCloses
    \/ SshAsks \/ SshComplains \/ SshConnects \/ SshRefuses \/ SshEnds

Spec == Init /\ [][Next]_vars

\* The run loop serves pipes, notifications, messages and timers; the poll of
\* the thread ends after 10 s; a waiter nobody holds is deallocated; ssh ends
\* when it is told to, and does not try for ever.  Sheets are answered.
Fairness ==
    /\ WF_vars(ReadErr) /\ WF_vars(ReadErrEnd) /\ WF_vars(ReadOut)
    /\ WF_vars(SshTerminated) /\ WF_vars(WaitForData)
    /\ WF_vars(MainPerforms) /\ WF_vars(ServerClosedNoReason)
    /\ WF_vars(Dealloc) /\ WF_vars(User)
    /\ WF_vars(ssh.terminate /\ SshEnds)
    /\ WF_vars(ssh.at = "connecting" /\ (SshConnects \/ SshEnds))

FairSpec == Spec /\ Fairness

-----------------------------------------------------------------------------
(* Properties.                                                             *)

\* The fields of SshWaiter and SshTunnel have their types.
TypeOK ==
    /\ protocol \in {"RFB", "RDP"}
    /\ waiter \in Waiter /\ tunnel \in Tunnel /\ ssh \in Ssh
    /\ thread \in {"none", "waits", "over"}
    /\ mainQueue \in Seq({"finishConnection", "serverClosed"})

\* After cancel the delegate hears nothing and no sheet comes up, whatever ssh,
\* the thread and the timer still do.  A tunnel that was closing keeps its
\* delegate, the waiter, through cancel.
SilentAfterCancel ==
    [][~waiter.delegate =>
          /\ waiter'.told = waiter.told
          /\ waiter'.errors <= waiter.errors
          /\ waiter'.auth => waiter.auth
          /\ waiter'.keySheet => waiter.keySheet
          /\ waiter'.passphraseSheet => waiter.passphraseSheet]_vars

\* When the tunnel takes ssh to wait for an answer, a sheet that gives it is
\* up; no order of prompts, failures and answers leaves ssh waiting for nobody.
PromptIsAsked ==
    tunnel.state = "prompt" => waiter.auth \/ waiter.keySheet

\* An attempt comes to an outcome or an error, whatever ssh asks, says and does
\* not say, unless the end of ssh is noticed before the end of what it said, and
\* before its tunnel is established, or there is no tunnel at all.
AttemptEnds ==
    <>(\/ Over \/ waiter.errors > 0
       \/ ssh.reported /\ tunnel.reading /\ thread = "none"
       \/ ~waiter.tunnel)

\* An attempt that ends without a connection takes its tunnel with it: ssh, its
\* port and its fifo, unless ssh has complained.  A tunnel that could not make
\* its fifo keeps its port for ever (SshTunnel.m:121-124).
TunnelEnds ==
    (Over /\ ~Contains(waiter.told, "succeeded")) ~>
        (\/ ssh.at \in {"ended", "none"} /\ ~tunnel.port /\ ~tunnel.fifo
         \/ ssh.at = "none" /\ tunnel = NoFifo
         \/ ssh.lines > 0 \/ ssh.refused)

\* A tunnel that is closing is in process of shutting down: ssh ends.
ClosingEnds == tunnel.state = "closing" ~> ssh.at \in {"ended", "none"}
=============================================================================
