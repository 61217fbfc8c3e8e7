-------------------------- MODULE ConnectionWaiter --------------------------
(***************************************************************************)
(* ConnectionWaiter: a thread of its own looks the server up and tries its *)
(* addresses, while the main thread may cancel the attempt, and hears from *)
(* the thread through performSelectorOnMainThread.                         *)
(*                                                                         *)
(* What is done under the lock is one step.  The descriptors are those of  *)
(* the whole process: one that has been closed may be given out again, to  *)
(* this attempt or to any other part of the program.                       *)
(***************************************************************************)
EXTENDS Integers, Sequences

CONSTANTS
    Descriptors,    \* numbers of files and sockets of the process
    None,           \* no descriptor: -1
    MaxAddresses    \* bound of the model: addresses of a host

ASSUME ConnectionWaiterAssumption ==
    /\ None \notin Descriptors
    /\ MaxAddresses \in Nat \ {0}

VARIABLES
    protocol,       \* of the server: "RFB" or "RDP"
    delegate,       \* the delegate, which cancel forgets
    currentSock,    \* the socket cancel is responsible for
    thread,         \* the connecting thread: see Thread
    mainQueue,      \* what the thread has asked the main thread to perform
    alert,          \* an error is on the screen
    told,           \* what the delegate has been told
    owner,          \* whose a descriptor is
    strayClose      \* a descriptor has been closed that was not ours

vars == <<protocol, delegate, currentSock, thread, mainQueue, alert, told,
          owner, strayClose>>

main == <<delegate, alert, told>>

Thread ==
    [at : {"resolving", "lookup", "next", "socket", "connect", "failed",
           "close", "forget", "poll", "over"},
     sock : Descriptors \cup {None},
     addresses : 0 .. MaxAddresses]     \* what is left of res0

Messages == {"lookupFailed", "connectionFailed", "serverClosed",
             "finishConnection"}

Owners == {"nobody", "attempt", "others"}

NewThread == [at |-> "resolving", sock |-> None, addresses |-> 0]

Init ==
    /\ protocol \in {"RFB", "RDP"}
    /\ \/ delegate = TRUE /\ thread = NewThread
       \/ delegate = FALSE /\ thread = [NewThread EXCEPT !.at = "over"]
    /\ currentSock = None
    /\ mainQueue = <<>>
    /\ alert = FALSE
    /\ told = <<>>
    /\ owner = [d \in Descriptors |-> "nobody"]
    /\ strayClose = FALSE

\* close(d), whoever d belongs to
Close(d) ==
    /\ strayClose' = (strayClose \/ owner[d] # "attempt")
    /\ owner' = [owner EXCEPT ![d] = "nobody"]

KeepDescriptors == UNCHANGED <<owner, strayClose>>

\* Nothing of an attempt goes on: it has been cancelled, as a session does also
\* after a failure, or a connection has come of it.
Idle ==
    /\ thread.at = "over" /\ mainQueue = <<>> /\ ~alert
    /\ ~delegate \/ told = <<"succeeded">>

\* initWithServer:delegate:window: of another waiter, after the last is over
Begin ==
    /\ Idle
    /\ delegate' = TRUE /\ currentSock' = None
    /\ thread' = NewThread /\ told' = <<>>
    /\ UNCHANGED <<protocol, mainQueue, alert, owner, strayClose>>

-----------------------------------------------------------------------------
(* The connecting thread.                                                  *)

Goto(at) == thread' = [thread EXCEPT !.at = at]

\* performSelectorOnMainThread:, the last thing the thread does
Perform(message) ==
    /\ mainQueue' = Append(mainQueue, message)
    /\ Goto("over")

\* getaddrinfo
LookUp ==
    /\ thread.at = "lookup"
    /\ \/ Perform("lookupFailed")
       \/ \E n \in 1 .. MaxAddresses :
             thread' = [thread EXCEPT !.at = "next", !.addresses = n]
          /\ UNCHANGED mainQueue
    /\ KeepDescriptors
    /\ UNCHANGED <<protocol, currentSock, main>>

\* The head of the loop: a socket for the next address, if there is one.
OpenSocket ==
    /\ thread.at = "next"
    /\ IF thread.addresses = 0
       THEN Perform("connectionFailed") /\ KeepDescriptors
       ELSE /\ UNCHANGED <<mainQueue, strayClose>>
            /\ \/ /\ thread' = [thread EXCEPT !.addresses = @ - 1]
                  /\ UNCHANGED owner
               \/ \E d \in Descriptors :
                    /\ owner[d] = "nobody"
                    /\ owner' = [owner EXCEPT ![d] = "attempt"]
                    /\ thread' = [thread EXCEPT !.at = "socket", !.sock = d]
    /\ UNCHANGED <<protocol, currentSock, main>>

PublishSocket_Wrong ==
    /\ thread.at = "socket"
    /\ Goto("connect") /\ currentSock' = thread.sock
    /\ KeepDescriptors
    /\ UNCHANGED <<protocol, mainQueue, main>>

\* The first critical section: the socket becomes cancel's, unless cancel has
\* been before.
PublishSocket ==
    /\ thread.at = "socket"
    /\ IF delegate
       THEN /\ currentSock' = thread.sock
            /\ Goto("connect")
            /\ KeepDescriptors /\ UNCHANGED mainQueue
       ELSE /\ Close(thread.sock)
            /\ Perform("connectionFailed")
            /\ UNCHANGED currentSock
    /\ UNCHANGED <<protocol, main>>

\* connect, which has no chance on a descriptor cancel has closed.
Connect ==
    /\ thread.at = "connect"
    /\ \/ Goto("failed")
       \/ /\ owner[thread.sock] # "nobody"
          /\ Goto(IF protocol = "RDP" THEN "close" ELSE "poll")
    /\ KeepDescriptors
    /\ UNCHANGED <<protocol, currentSock, mainQueue, main>>

ConnectFailed_Wrong ==
    /\ thread.at = "failed"
    /\ Close(thread.sock)
    /\ thread' = [thread EXCEPT !.at = "next", !.addresses = @ - 1]
    /\ currentSock' = None
    /\ UNCHANGED <<protocol, mainQueue, main>>

\* The second critical section: after cancel, the socket is closed already.
ConnectFailed ==
    /\ thread.at = "failed"
    /\ IF delegate
       THEN /\ Close(thread.sock)
            /\ currentSock' = None
            /\ thread' = [thread EXCEPT !.at = "next", !.addresses = @ - 1]
            /\ UNCHANGED mainQueue
       ELSE /\ Perform("connectionFailed")
            /\ KeepDescriptors /\ UNCHANGED currentSock
    /\ UNCHANGED <<protocol, main>>

\* RDP makes a connection of its own; this one was to see whether it can.  The
\* thread does not hold the lock.
CloseProbe ==
    /\ thread.at = "close"
    /\ Close(thread.sock)
    /\ Goto("forget")
    /\ UNCHANGED <<protocol, currentSock, mainQueue, main>>

ForgetProbe ==
    /\ thread.at = "forget"
    /\ currentSock' = None
    /\ Perform("finishConnection")
    /\ KeepDescriptors
    /\ UNCHANGED <<protocol, main>>

WaitForData_Wrong ==
    /\ thread.at = "poll"
    /\ \/ Perform("finishConnection")
       \/ Goto("over") /\ UNCHANGED mainQueue
    /\ KeepDescriptors
    /\ UNCHANGED <<protocol, currentSock, main>>

\* waitForDataOn:, whose poll may see data, the end, or neither for 10 s.
WaitForData ==
    /\ thread.at = "poll"
    /\ Perform("finishConnection") \/ Perform("serverClosed")
    /\ KeepDescriptors
    /\ UNCHANGED <<protocol, currentSock, main>>

ThreadStep ==
    LookUp \/ OpenSocket \/ PublishSocket \/ Connect \/ ConnectFailed
    \/ CloseProbe \/ ForgetProbe \/ WaitForData

-----------------------------------------------------------------------------
(* The main thread.                                                        *)

\* error:message: up to the alert
ShowError == alert' = (alert \/ delegate)

\* serverResolvedWithHost:port:, which does not look at the delegate
Resolved ==
    /\ thread.at = "resolving"
    /\ Goto("lookup")
    /\ KeepDescriptors
    /\ UNCHANGED <<protocol, currentSock, mainQueue, main>>

\* serverDidNotResolve; no thread is started
DidNotResolve ==
    /\ thread.at = "resolving"
    /\ Goto("over")
    /\ ShowError
    /\ KeepDescriptors
    /\ UNCHANGED <<protocol, delegate, currentSock, mainQueue, told>>

\* A connection takes the socket over, unless the attempt has been cancelled.
FinishConnection ==
    /\ IF delegate
       THEN /\ told' = Append(told, "succeeded")
            /\ owner' = IF protocol = "RDP" THEN owner
                        ELSE [owner EXCEPT ![currentSock] = "others"]
            /\ currentSock' = None
       ELSE UNCHANGED <<told, owner, currentSock>>
    /\ UNCHANGED alert

MainPerforms ==
    /\ mainQueue # <<>>
    /\ mainQueue' = Tail(mainQueue)
    /\ IF Head(mainQueue) = "finishConnection"
       THEN FinishConnection
       ELSE ShowError /\ UNCHANGED <<told, owner, currentSock>>
    /\ UNCHANGED <<protocol, delegate, thread, strayClose>>

ErrorDidEnd_Wrong ==
    /\ alert
    /\ alert' = FALSE
    /\ told' = Append(told, "failed")
    /\ KeepDescriptors
    /\ UNCHANGED <<protocol, delegate, currentSock, thread, mainQueue>>

ErrorDidEnd ==
    /\ alert
    /\ alert' = FALSE
    /\ told' = IF delegate THEN Append(told, "failed") ELSE told
    /\ KeepDescriptors
    /\ UNCHANGED <<protocol, delegate, currentSock, thread, mainQueue>>

Cancel ==
    /\ delegate
    /\ delegate' = FALSE
    /\ IF currentSock # None THEN Close(currentSock) ELSE KeepDescriptors
    /\ currentSock' = None
    /\ UNCHANGED <<protocol, thread, mainQueue, alert, told>>

-----------------------------------------------------------------------------
(* The rest of the program, which opens and closes files of its own.       *)

OthersOpen ==
    \E d \in Descriptors :
        /\ owner[d] = "nobody"
        /\ owner' = [owner EXCEPT ![d] = "others"]
        /\ UNCHANGED <<protocol, currentSock, thread, mainQueue, main,
                       strayClose>>

OthersClose ==
    \E d \in Descriptors :
        /\ owner[d] = "others"
        /\ owner' = [owner EXCEPT ![d] = "nobody"]
        /\ UNCHANGED <<protocol, currentSock, thread, mainQueue, main,
                       strayClose>>

Next ==
    \/ LookUp \/ OpenSocket \/ PublishSocket \/ Connect \/ ConnectFailed
    \/ CloseProbe \/ ForgetProbe \/ WaitForData
    \/ Resolved \/ DidNotResolve \/ MainPerforms \/ ErrorDidEnd \/ Cancel \/ Begin
    \/ OthersOpen \/ OthersClose

Spec == Init /\ [][Next]_vars

-----------------------------------------------------------------------------
(* Properties.                                                             *)

\* The fields of ConnectionWaiter and the state of its thread have their types.
TypeOK ==
    /\ protocol \in {"RFB", "RDP"}
    /\ delegate \in BOOLEAN
    /\ currentSock \in Descriptors \cup {None}
    /\ thread \in Thread
    /\ mainQueue \in Seq(Messages)
    /\ alert \in BOOLEAN
    /\ told \in Seq({"succeeded", "failed"})
    /\ owner \in [Descriptors -> Owners]
    /\ strayClose \in BOOLEAN

Attempt == INSTANCE ConnectionAttempt WITH wanted <- delegate,
                                           reporting <- alert

\* However cancel falls between the steps of the thread, the delegate is told
\* one outcome at most, an error goes before a failure, and nothing is told
\* after cancel.
ImplementsAttempt == Attempt!Spec

\* However often it is repeated, an attempt comes to an outcome, an error, or is
\* cancelled.
AttemptEnds ==
    (delegate /\ told = <<>>) ~> (alert \/ told # <<>> \/ ~delegate)

\* Whenever cancel falls, and whatever becomes of each address, no socket of an
\* attempt is open when it is over: the connection has it or it is closed.
SocketsReturned ==
    /\ thread.at = "over"
    /\ ~delegate \/ told = <<"succeeded">>
    => \A d \in Descriptors : owner[d] # "attempt"

\* For RFB, the thread and cancel share the closing of sockets so that neither
\* closes a descriptor that is not, or no longer, the attempt's: its number may
\* be another file's by then.
NeverClosesOthers == protocol = "RFB" => ~strayClose
=============================================================================
