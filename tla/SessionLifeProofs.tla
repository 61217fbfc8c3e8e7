------------------------- MODULE SessionLifeProofs -------------------------
(***************************************************************************)
(* Proofs about ConnectionWaiter, about SessionLife, whose steps are steps *)
(* of the waiter, and about the Listener, the other source of sessions.    *)
(*                                                                         *)
(* Of the waiter, for every set of descriptors and every number of         *)
(* addresses: whose its sockets are, and that it does what                 *)
(* ConnectionAttempt promises.                                             *)
(*                                                                         *)
(* Of the session: whatever it does, its attempts are those of             *)
(* ConnectionWaiter, one after the other, so that all that is proved of    *)
(* the waiter holds for a session; the waiter never calls a session that   *)
(* has been deallocated; a session that has lost its connection waits or   *)
(* asks, and what waits ends with the attempt.                             *)
(*                                                                         *)
(* Of the listener, in the last part: whose its connections are.           *)
(***************************************************************************)
EXTENDS SessionLife, Listener, SequenceTheorems, TLAPS

\* The thread asks one thing of the main thread, the last it does; nothing has
\* been told or shown before.
Phases ==
    /\ mainQueue = <<>> \/ \E m \in Messages : mainQueue = <<m>>
    /\ thread.at # "over" => mainQueue = <<>>
    /\ thread.at # "over" \/ mainQueue # <<>> => ~alert /\ told = <<>>
    /\ alert => told = <<>>
    /\ told \in {<<>>, <<"succeeded">>, <<"failed">>}

\* The address in use is among what is left of them.
Addresses ==
    thread.at \in {"socket", "connect", "failed"} => thread.addresses > 0

Owned(d) == owner[d] = "attempt"

\* Where the sockets of the attempt are: in the hands of the thread until it has
\* published them, in currentSock until cancel or the outcome.
Sockets ==
    /\ thread.at \in {"resolving", "lookup", "next", "socket"} \/ ~delegate
          \/ told = <<"succeeded">> => currentSock = None
    /\ thread.at = "socket" => thread.sock \in Descriptors /\ Owned(thread.sock)
    /\ thread.at \in {"connect", "failed", "close", "poll"} =>
          /\ thread.sock \in Descriptors
          /\ delegate => currentSock = thread.sock
    /\ \A d \in Descriptors :
          Owned(d) => IF thread.at = "socket" THEN d = thread.sock ELSE d = currentSock
    /\ thread.at = "forget" => \A d \in Descriptors : ~Owned(d)

\* What is different for the two protocols.
Probes ==
    /\ protocol = "RFB" => /\ thread.at \notin {"close", "forget"}
                           /\ currentSock # None => Owned(currentSock)
                           /\ ~strayClose
    /\ protocol = "RDP" => /\ thread.at # "poll"
                           /\ mainQueue # <<"serverClosed">>
                           /\ mainQueue = <<"finishConnection">> => currentSock = None

IInv == TypeOK /\ Phases /\ Addresses /\ Sockets /\ Probes

-----------------------------------------------------------------------------

\* Arithmetic of the addresses left.
LEMMA AddressRange ==
    /\ \A n \in 1 .. MaxAddresses : n \in 0 .. MaxAddresses
    /\ \A n \in 0 .. MaxAddresses : n # 0 => n > 0 /\ n - 1 \in 0 .. MaxAddresses
BY ConnectionWaiterAssumption

LEMMA InitInv == Init => IInv
<1>. SUFFICES ASSUME Init PROVE IInv
  OBVIOUS
<1>1. NewThread \in Thread
  BY ConnectionWaiterAssumption DEF NewThread, Thread
<1>2. thread \in Thread
  BY <1>1 DEF Init, Thread, NewThread
<1>3. TypeOK
  <2>1. mainQueue \in Seq(Messages) /\ told \in Seq({"succeeded", "failed"})
    BY DEF Init
  <2>2. owner \in [Descriptors -> Owners]
    BY DEF Init, Owners
  <2>. QED BY <1>2, <2>1, <2>2 DEF Init, TypeOK
<1>4. Phases /\ Addresses /\ Sockets /\ Probes
  BY DEF Init, NewThread, Phases, Addresses, Sockets, Probes, Owned
<1>. QED
  BY <1>3, <1>4 DEF IInv

\* What the thread asks of the main thread is all it asks, and the last it does.
LEMMA PerformLemma ==
    ASSUME IInv, thread.at # "over", NEW m \in Messages, Perform(m)
    PROVE  /\ mainQueue' = <<m>> /\ mainQueue' \in Seq(Messages)
           /\ thread' \in Thread /\ thread'.at = "over"
<1>1. mainQueue = <<>>
  BY DEF IInv, Phases
<1>2. mainQueue' = <<m>>
  BY <1>1 DEF Perform
<1>3. thread' \in Thread /\ thread'.at = "over"
  BY DEF IInv, TypeOK, Perform, Goto, Thread
<1>. QED
  BY <1>2, <1>3

LEMMA LookUpInv == IInv /\ LookUp => IInv'
<1>. SUFFICES ASSUME IInv, LookUp PROVE IInv'
  OBVIOUS
<1>. USE ConnectionWaiterAssumption DEF IInv, TypeOK, LookUp, KeepDescriptors, main
<1>1. CASE Perform("lookupFailed")
  <2>1. /\ mainQueue' = <<"lookupFailed">> /\ mainQueue' \in Seq(Messages)
        /\ thread' \in Thread /\ thread'.at = "over"
    BY <1>1, PerformLemma DEF Messages
  <2>2. TypeOK'
    BY <1>1, <2>1
  <2>3. Phases' /\ Addresses'
    BY <1>1, <2>1 DEF Phases, Addresses, Messages
  <2>4. currentSock' = None /\ UNCHANGED <<protocol, delegate, owner, strayClose, told>>
    BY DEF Sockets
  <2>5. Sockets'
    BY <2>1, <2>4 DEF Sockets, Owned
  <2>6. Probes'
    <3>1. mainQueue' # <<"serverClosed">> /\ mainQueue' # <<"finishConnection">>
      BY <2>1
    <3>2. Probes
      OBVIOUS
    <3>. HIDE DEF IInv, LookUp
    <3>. QED BY <2>1, <2>4, <3>1, <3>2 DEF Probes
  <2>. QED BY <2>2, <2>3, <2>5, <2>6
<1>2. ASSUME NEW n \in 1 .. MaxAddresses,
             thread' = [thread EXCEPT !.at = "next", !.addresses = n],
             UNCHANGED mainQueue
      PROVE  IInv'
  <2>1. thread' \in Thread
    <3>1. n \in 0 .. MaxAddresses
      BY AddressRange
    <3>2. thread \in Thread
      OBVIOUS
    <3>. HIDE DEF LookUp, IInv, TypeOK, KeepDescriptors, main
    <3>. QED BY <1>2, <3>1, <3>2 DEF Thread
  <2>2. TypeOK'
    BY <1>2, <2>1
  <2>3. thread'.at = "next" /\ thread'.addresses = n
    BY <1>2 DEF Thread
  <2>4. Phases' /\ Addresses'
    BY <1>2, <2>3 DEF Phases, Addresses
  <2>5. Sockets' /\ Probes'
    BY <1>2, <2>3 DEF Sockets, Probes, Owned
  <2>. QED BY <2>2, <2>4, <2>5
<1>. QED BY <1>1, <1>2

LEMMA OpenSocketInv == IInv /\ OpenSocket => IInv'
<1>. SUFFICES ASSUME IInv, OpenSocket PROVE IInv'
  OBVIOUS
<1>. USE ConnectionWaiterAssumption DEF IInv, TypeOK, OpenSocket, KeepDescriptors, main
<1>1. CASE thread.addresses = 0
  <2>1. \E m \in Messages :
           /\ mainQueue' = <<m>> /\ mainQueue' \in Seq(Messages)
           /\ thread' \in Thread /\ thread'.at = "over"
           /\ m # "finishConnection" /\ m # "serverClosed"
    BY <1>1, PerformLemma DEF Messages
  <2>2. TypeOK'
    BY <1>1, <2>1
  <2>3. Phases' /\ Addresses'
    BY <1>1, <2>1 DEF Phases, Addresses
  <2>4. Sockets' /\ Probes'
    BY <1>1, <2>1 DEF Phases, Sockets, Probes, Owned
  <2>. QED BY <2>2, <2>3, <2>4
<1>2. CASE /\ thread.addresses # 0
          /\ thread' = [thread EXCEPT !.addresses = @ - 1]
          /\ UNCHANGED <<owner, mainQueue, strayClose>>
  <2>1. thread.addresses \in 0 .. MaxAddresses
    BY DEF Thread
  <2>2. thread.addresses - 1 \in 0 .. MaxAddresses
    BY <1>2, <2>1
  <2>3. thread' \in Thread /\ thread'.at = "next"
    BY <1>2, <2>2 DEF Thread
  <2>4. TypeOK'
    BY <1>2, <2>3
  <2>5. Phases' /\ Addresses' /\ Sockets' /\ Probes'
    BY <1>2, <2>3 DEF Phases, Addresses, Sockets, Probes, Owned
  <2>. QED BY <2>4, <2>5
<1>3. ASSUME NEW d \in Descriptors,
             thread.addresses # 0,
             owner[d] = "nobody",
             owner' = [owner EXCEPT ![d] = "attempt"],
             thread' = [thread EXCEPT !.at = "socket", !.sock = d],
             UNCHANGED <<mainQueue, strayClose>>
      PROVE  IInv'
  <2>1. thread' \in Thread /\ thread'.at = "socket" /\ thread'.sock = d
    BY <1>3 DEF Thread
  <2>2. thread'.addresses = thread.addresses /\ thread.addresses \in 0 .. MaxAddresses
    BY <1>3 DEF Thread
  <2>3. owner' \in [Descriptors -> Owners]
    BY <1>3 DEF Owners
  <2>4. TypeOK'
    BY <1>3, <2>1, <2>3
  <2>5. thread'.addresses > 0
    <3>1. thread.addresses \in 0 .. MaxAddresses /\ thread.addresses # 0
      BY <1>3, <2>2
    <3>. QED BY <2>2, <3>1, AddressRange
  <2>6. Phases' /\ Addresses'
    BY <1>3, <2>1, <2>5 DEF Phases, Addresses
  <2>7. currentSock' = None /\ \A e \in Descriptors : owner[e] # "attempt"
    BY DEF Sockets, Owned
  <2>8. \A e \in Descriptors : owner'[e] = "attempt" => e = d
    BY <1>3, <2>7
  <2>9. owner'[d] = "attempt"
    BY <1>3
  <2>10. Sockets'
    <3>. HIDE DEF IInv, TypeOK, OpenSocket
    <3>. QED BY <2>1, <2>7, <2>8, <2>9 DEF Sockets, Owned
  <2>11. Probes'
    BY <1>3, <2>1, <2>7 DEF Phases, Probes, Owned
  <2>. QED BY <2>4, <2>6, <2>10, <2>11
<1>. QED BY <1>1, <1>2, <1>3

LEMMA PublishSocketInv == IInv /\ PublishSocket => IInv'
<1>. SUFFICES ASSUME IInv, PublishSocket PROVE IInv'
  OBVIOUS
<1>. USE ConnectionWaiterAssumption DEF IInv, TypeOK, PublishSocket, KeepDescriptors, main
<1>1. CASE delegate
  <2>. USE <1>1 DEF Goto
  <2>1. TypeOK'
    BY DEF Phases, Addresses, Sockets, Thread, Messages, Owners
  <2>2. Phases' /\ Addresses'
    BY DEF Phases, Addresses, Thread, Messages
  <2>3. Sockets'
    BY DEF Phases, Sockets, Probes, Owned, Thread, Owners
  <2>4. Probes'
    BY DEF Phases, Sockets, Probes, Owned, Thread, Owners
  <2>. QED BY <2>1, <2>2, <2>3, <2>4
<1>2. CASE ~delegate
  <2>1. /\ mainQueue' = <<"connectionFailed">> /\ mainQueue' \in Seq(Messages)
        /\ thread' \in Thread /\ thread'.at = "over"
    BY <1>2, PerformLemma DEF Messages
  <2>2. thread.sock \in Descriptors /\ Owned(thread.sock)
    BY DEF Sockets
  <2>3. owner' = [owner EXCEPT ![thread.sock] = "nobody"]
    BY <1>2 DEF Close
  <2>4. strayClose' = strayClose
    BY <1>2, <2>2 DEF Close, Owned
  <2>5. owner' \in [Descriptors -> Owners]
    BY <2>2, <2>3 DEF Owners
  <2>6. TypeOK'
    BY <1>2, <2>1, <2>4, <2>5
  <2>7. Phases' /\ Addresses'
    BY <1>2, <2>1 DEF Phases, Addresses, Messages
  <2>8. currentSock' = None /\ \A d \in Descriptors : owner'[d] # "attempt"
    BY <1>2, <2>2, <2>3 DEF Sockets, Owned
  <2>9. Sockets' /\ Probes'
    BY <1>2, <2>1, <2>4, <2>8 DEF Phases, Sockets, Probes, Owned
  <2>. QED BY <2>6, <2>7, <2>9
<1>. QED BY <1>1, <1>2

LEMMA ConnectInv == IInv /\ Connect => IInv'
<1>. SUFFICES ASSUME IInv, Connect PROVE IInv'
  OBVIOUS
<1>. USE ConnectionWaiterAssumption DEF Connect, Goto, KeepDescriptors, main
<1>1. TypeOK'
  BY DEF IInv, TypeOK, Phases, Sockets, Thread, Messages, Owners
<1>2. Phases'
  BY DEF IInv, TypeOK, Phases, Thread, Messages
<1>3. Sockets'
  BY DEF IInv, TypeOK, Phases, Sockets, Probes, Owned, Thread, Owners, Messages
<1>4. Probes'
  BY DEF IInv, TypeOK, Phases, Sockets, Probes, Owned, Thread, Owners, Messages
<1>5. Addresses'
  BY DEF IInv, TypeOK, Addresses, Thread
<1>. QED
  BY <1>1, <1>2, <1>3, <1>4, <1>5 DEF IInv

LEMMA ConnectFailedInv == IInv /\ ConnectFailed => IInv'
<1>. SUFFICES ASSUME IInv, ConnectFailed PROVE IInv'
  OBVIOUS
<1>. USE ConnectionWaiterAssumption DEF IInv, TypeOK, ConnectFailed, KeepDescriptors, main
<1>1. CASE delegate
  <2>1. thread.sock \in Descriptors /\ currentSock = thread.sock
    BY <1>1 DEF Sockets
  <2>2. thread.addresses \in 0 .. MaxAddresses /\ thread.addresses > 0
    BY DEF Addresses, Thread
  <2>3. thread.addresses - 1 \in 0 .. MaxAddresses
    BY <2>2
  <2>4. thread' \in Thread /\ thread'.at = "next"
    BY <1>1, <2>3 DEF Thread
  <2>5. owner' \in [Descriptors -> Owners] /\ strayClose' \in BOOLEAN
    BY <1>1, <2>1 DEF Close, Owners
  <2>6. TypeOK'
    BY <1>1, <2>4, <2>5
  <2>7. Phases' /\ Addresses'
    BY <1>1, <2>4 DEF Phases, Addresses
  <2>8. \A d \in Descriptors : owner'[d] # "attempt"
    BY <1>1, <2>1 DEF Close, Sockets, Owned
  <2>9. Sockets'
    BY <1>1, <2>4, <2>8 DEF Sockets, Owned
  <2>10. Probes'
    BY <1>1, <2>1, <2>4 DEF Probes, Close, Owned, Phases
  <2>. QED BY <2>6, <2>7, <2>9, <2>10
<1>2. CASE ~delegate
  <2>1. /\ mainQueue' = <<"connectionFailed">> /\ mainQueue' \in Seq(Messages)
        /\ thread' \in Thread /\ thread'.at = "over"
    BY <1>2, PerformLemma DEF Messages
  <2>2. TypeOK'
    BY <1>2, <2>1
  <2>3. Phases' /\ Addresses'
    BY <1>2, <2>1 DEF Phases, Addresses, Messages
  <2>4. Sockets' /\ Probes'
    BY <1>2, <2>1 DEF Phases, Sockets, Probes, Owned
  <2>. QED BY <2>2, <2>3, <2>4
<1>. QED BY <1>1, <1>2

LEMMA CloseProbeInv == IInv /\ CloseProbe => IInv'
<1>. SUFFICES ASSUME IInv, CloseProbe PROVE IInv'
  OBVIOUS
<1>. USE ConnectionWaiterAssumption DEF CloseProbe, Goto, Close, main
<1>1. TypeOK'
  BY DEF IInv, TypeOK, Phases, Sockets, Thread, Messages, Owners
<1>2. Phases'
  BY DEF IInv, TypeOK, Phases, Thread, Messages
<1>3. Sockets'
  BY DEF IInv, TypeOK, Phases, Sockets, Probes, Owned, Thread, Owners, Messages
<1>4. Probes'
  BY DEF IInv, TypeOK, Phases, Sockets, Probes, Owned, Thread, Owners, Messages
<1>5. Addresses'
  BY DEF IInv, TypeOK, Addresses, Thread
<1>. QED
  BY <1>1, <1>2, <1>3, <1>4, <1>5 DEF IInv

LEMMA ForgetProbeInv == IInv /\ ForgetProbe => IInv'
<1>. SUFFICES ASSUME IInv, ForgetProbe PROVE IInv'
  OBVIOUS
<1>. USE ConnectionWaiterAssumption DEF ForgetProbe, Perform, Goto, KeepDescriptors, main
<1>1. TypeOK'
  BY DEF IInv, TypeOK, Phases, Sockets, Thread, Messages, Owners
<1>2. Phases'
  BY DEF IInv, TypeOK, Phases, Thread, Messages
<1>3. Sockets'
  BY DEF IInv, TypeOK, Phases, Sockets, Probes, Owned, Thread, Owners, Messages
<1>4. Probes'
  BY DEF IInv, TypeOK, Phases, Sockets, Probes, Owned, Thread, Owners, Messages
<1>5. Addresses'
  BY DEF IInv, TypeOK, Addresses, Thread
<1>. QED
  BY <1>1, <1>2, <1>3, <1>4, <1>5 DEF IInv

LEMMA WaitForDataInv == IInv /\ WaitForData => IInv'
<1>. SUFFICES ASSUME IInv, WaitForData PROVE IInv'
  OBVIOUS
<1>. USE ConnectionWaiterAssumption DEF IInv, TypeOK, WaitForData, KeepDescriptors, main
<1>1. CASE Perform("finishConnection")
  <2>1. /\ mainQueue' = <<"finishConnection">> /\ mainQueue' \in Seq(Messages)
        /\ thread' \in Thread /\ thread'.at = "over"
    BY <1>1, PerformLemma DEF Messages
  <2>2. TypeOK'
    BY <1>1, <2>1
  <2>3. Phases' /\ Addresses'
    BY <1>1, <2>1 DEF Phases, Addresses, Messages
  <2>4. Sockets' /\ Probes'
    BY <1>1, <2>1 DEF Phases, Sockets, Probes, Owned
  <2>. QED BY <2>2, <2>3, <2>4
<1>2. CASE Perform("serverClosed")
  <2>1. /\ mainQueue' = <<"serverClosed">> /\ mainQueue' \in Seq(Messages)
        /\ thread' \in Thread /\ thread'.at = "over"
    BY <1>2, PerformLemma DEF Messages
  <2>2. TypeOK'
    BY <1>2, <2>1
  <2>3. Phases' /\ Addresses'
    BY <1>2, <2>1 DEF Phases, Addresses, Messages
  <2>4. Sockets' /\ Probes'
    BY <1>2, <2>1 DEF Phases, Sockets, Probes, Owned
  <2>. QED BY <2>2, <2>3, <2>4
<1>. QED BY <1>1, <1>2

LEMMA ResolvedInv == IInv /\ Resolved => IInv'
<1>. SUFFICES ASSUME IInv, Resolved PROVE IInv'
  OBVIOUS
<1>. USE ConnectionWaiterAssumption DEF Resolved, Goto, KeepDescriptors, main
<1>1. TypeOK'
  BY DEF IInv, TypeOK, Phases, Sockets, Thread, Messages, Owners
<1>2. Phases'
  BY DEF IInv, TypeOK, Phases, Thread, Messages
<1>3. Sockets'
  BY DEF IInv, TypeOK, Phases, Sockets, Probes, Owned, Thread, Owners, Messages
<1>4. Probes'
  BY DEF IInv, TypeOK, Phases, Sockets, Probes, Owned, Thread, Owners, Messages
<1>5. Addresses'
  BY DEF IInv, TypeOK, Addresses, Thread
<1>. QED
  BY <1>1, <1>2, <1>3, <1>4, <1>5 DEF IInv

LEMMA DidNotResolveInv == IInv /\ DidNotResolve => IInv'
<1>. SUFFICES ASSUME IInv, DidNotResolve PROVE IInv'
  OBVIOUS
<1>. USE ConnectionWaiterAssumption DEF DidNotResolve, Goto, KeepDescriptors, ShowError
<1>1. TypeOK'
  BY DEF IInv, TypeOK, Phases, Sockets, Thread, Messages, Owners
<1>2. Phases'
  BY DEF IInv, TypeOK, Phases, Thread, Messages
<1>3. Sockets'
  BY DEF IInv, TypeOK, Phases, Sockets, Probes, Owned, Thread, Owners, Messages
<1>4. Probes'
  BY DEF IInv, TypeOK, Phases, Sockets, Probes, Owned, Thread, Owners, Messages
<1>5. Addresses'
  BY DEF IInv, TypeOK, Addresses, Thread
<1>. QED
  BY <1>1, <1>2, <1>3, <1>4, <1>5 DEF IInv

LEMMA MainPerformsInv == IInv /\ MainPerforms => IInv'
<1>. SUFFICES ASSUME IInv, MainPerforms PROVE IInv'
  OBVIOUS
<1>. USE ConnectionWaiterAssumption DEF IInv, TypeOK, MainPerforms
<1>1. PICK m \in Messages : mainQueue = <<m>>
  BY DEF Phases
<1>2. /\ mainQueue' = <<>> /\ thread' = thread /\ thread.at = "over"
      /\ ~alert /\ told = <<>>
  BY <1>1 DEF Phases
<1>3. CASE m = "finishConnection" /\ delegate
  <2>1. told' = <<"succeeded">> /\ ~alert' /\ currentSock' = None
    BY <1>1, <1>2, <1>3 DEF FinishConnection
  <2>2. /\ owner' \in [Descriptors -> Owners]
        /\ \A d \in Descriptors : owner'[d] # "attempt"
    <3>1. CASE protocol = "RFB"
      BY <1>1, <1>2, <1>3, <3>1 DEF FinishConnection, Sockets, Owned, Owners
    <3>2. CASE protocol = "RDP"
      BY <1>1, <1>2, <1>3, <3>2 DEF FinishConnection, Sockets, Probes, Owned
    <3>. QED BY <3>1, <3>2
  <2>3. mainQueue' \in Seq(Messages) /\ told' \in Seq({"succeeded", "failed"})
    BY <1>2, <2>1
  <2>4. UNCHANGED <<protocol, delegate, alert, strayClose>>
    BY <1>1, <1>3 DEF FinishConnection
  <2>. HIDE DEF MainPerforms
  <2>5. TypeOK'
    BY <1>2, <2>1, <2>2, <2>3, <2>4
  <2>6. Phases' /\ Addresses'
    BY <1>2, <2>1 DEF Phases, Addresses
  <2>7. Sockets'
    BY <1>2, <2>1, <2>2, <2>4 DEF Sockets, Owned
  <2>8. Probes'
    <3>1. mainQueue' # <<"serverClosed">> /\ mainQueue' # <<"finishConnection">>
      BY <1>2
    <3>. QED BY <1>2, <2>1, <2>4, <3>1 DEF Probes
  <2>. QED BY <2>5, <2>6, <2>7, <2>8
<1>4. CASE ~(m = "finishConnection" /\ delegate)
  <2>1. told' = told /\ owner' = owner /\ currentSock' = currentSock
    BY <1>1, <1>4 DEF FinishConnection
  <2>2. alert' \in BOOLEAN
    BY <1>1, <1>4 DEF FinishConnection, ShowError
  <2>3. mainQueue' \in Seq(Messages)
    BY <1>2
  <2>. HIDE DEF MainPerforms
  <2>4. UNCHANGED <<protocol, delegate, strayClose>>
    BY DEF MainPerforms
  <2>5. TypeOK'
    BY <1>2, <2>1, <2>2, <2>3, <2>4
  <2>6. Phases' /\ Addresses'
    BY <1>2, <2>1 DEF Phases, Addresses
  <2>7. Sockets' /\ Probes'
    BY <1>2, <2>1, <2>4 DEF Sockets, Probes, Owned
  <2>. QED BY <2>5, <2>6, <2>7
<1>. QED BY <1>3, <1>4

LEMMA ErrorDidEndInv == IInv /\ ErrorDidEnd => IInv'
<1>. SUFFICES ASSUME IInv, ErrorDidEnd PROVE IInv'
  OBVIOUS
<1>. USE ConnectionWaiterAssumption DEF IInv, TypeOK, ErrorDidEnd, KeepDescriptors
<1>1. told = <<>> /\ thread.at = "over" /\ mainQueue = <<>>
  BY DEF Phases
<1>2. told' = IF delegate THEN <<"failed">> ELSE <<>>
  BY <1>1
<1>3. told' \in Seq({"succeeded", "failed"})
  BY <1>2
<1>4. TypeOK'
  BY <1>3
<1>5. Phases' /\ Addresses'
  BY <1>1, <1>2 DEF Phases, Addresses
<1>6. Sockets' /\ Probes'
  BY <1>1, <1>2 DEF Sockets, Probes, Owned
<1>. QED BY <1>4, <1>5, <1>6

LEMMA CancelInv == IInv /\ Cancel => IInv'
<1>. SUFFICES ASSUME IInv, Cancel PROVE IInv'
  OBVIOUS
<1>. USE ConnectionWaiterAssumption DEF Cancel, KeepDescriptors, Close
<1>1. TypeOK'
  BY DEF IInv, TypeOK, Phases, Sockets, Thread, Messages, Owners
<1>2. Phases'
  BY DEF IInv, TypeOK, Phases, Thread, Messages
<1>3. Sockets'
  BY DEF IInv, TypeOK, Phases, Sockets, Probes, Owned, Thread, Owners, Messages
<1>4. Probes'
  BY DEF IInv, TypeOK, Phases, Sockets, Probes, Owned, Thread, Owners, Messages
<1>5. Addresses'
  BY DEF IInv, TypeOK, Addresses, Thread
<1>. QED
  BY <1>1, <1>2, <1>3, <1>4, <1>5 DEF IInv

LEMMA BeginInv == IInv /\ Begin => IInv'
<1>. SUFFICES ASSUME IInv, Begin PROVE IInv'
  OBVIOUS
<1>. USE ConnectionWaiterAssumption DEF Begin, Idle, NewThread
<1>1. TypeOK'
  BY DEF IInv, TypeOK, Phases, Sockets, Thread, Messages, Owners
<1>2. Phases'
  BY DEF IInv, TypeOK, Phases, Thread, Messages
<1>3. Sockets'
  BY DEF IInv, TypeOK, Phases, Sockets, Probes, Owned, Thread, Owners, Messages
<1>4. Probes'
  BY DEF IInv, TypeOK, Phases, Sockets, Probes, Owned, Thread, Owners, Messages
<1>5. Addresses'
  BY DEF IInv, TypeOK, Addresses, Thread
<1>. QED
  BY <1>1, <1>2, <1>3, <1>4, <1>5 DEF IInv

LEMMA OthersOpenInv == IInv /\ OthersOpen => IInv'
<1>. SUFFICES ASSUME IInv, OthersOpen PROVE IInv'
  OBVIOUS
<1>. USE ConnectionWaiterAssumption DEF OthersOpen, main
<1>1. TypeOK'
  BY DEF IInv, TypeOK, Phases, Sockets, Thread, Messages, Owners
<1>2. Phases'
  BY DEF IInv, TypeOK, Phases, Thread, Messages
<1>3. Sockets'
  BY DEF IInv, TypeOK, Phases, Sockets, Probes, Owned, Thread, Owners, Messages
<1>4. Probes'
  BY DEF IInv, TypeOK, Phases, Sockets, Probes, Owned, Thread, Owners, Messages
<1>5. Addresses'
  BY DEF IInv, TypeOK, Addresses, Thread
<1>. QED
  BY <1>1, <1>2, <1>3, <1>4, <1>5 DEF IInv

LEMMA OthersCloseInv == IInv /\ OthersClose => IInv'
<1>. SUFFICES ASSUME IInv, OthersClose PROVE IInv'
  OBVIOUS
<1>. USE ConnectionWaiterAssumption DEF OthersClose, main
<1>1. TypeOK'
  BY DEF IInv, TypeOK, Phases, Sockets, Thread, Messages, Owners
<1>2. Phases'
  BY DEF IInv, TypeOK, Phases, Thread, Messages
<1>3. Sockets'
  BY DEF IInv, TypeOK, Phases, Sockets, Probes, Owned, Thread, Owners, Messages
<1>4. Probes'
  BY DEF IInv, TypeOK, Phases, Sockets, Probes, Owned, Thread, Owners, Messages
<1>5. Addresses'
  BY DEF IInv, TypeOK, Addresses, Thread
<1>. QED
  BY <1>1, <1>2, <1>3, <1>4, <1>5 DEF IInv

-----------------------------------------------------------------------------

\* Every step of the thread, of the main thread, and of the rest of the program
\* keeps the invariant.
LEMMA NextInv == IInv /\ [Next]_vars => IInv'
<1>. SUFFICES ASSUME IInv, [Next]_vars PROVE IInv'
  OBVIOUS
<1>1. CASE UNCHANGED vars
  BY <1>1 DEF vars, IInv, TypeOK, Phases, Addresses, Sockets, Probes, Owned
<1>2. CASE Next
  BY <1>2, LookUpInv, OpenSocketInv, PublishSocketInv, ConnectInv,
     ConnectFailedInv, CloseProbeInv, ForgetProbeInv, WaitForDataInv,
     ResolvedInv, DidNotResolveInv, MainPerformsInv, ErrorDidEndInv,
     CancelInv, BeginInv, OthersOpenInv, OthersCloseInv DEF Next
<1>. QED
  BY <1>1, <1>2

\* The inductive invariant holds in every reachable state.
THEOREM Invariance == Spec => []IInv
BY InitInv, NextInv, PTL DEF Spec

\* The fields of ConnectionWaiter keep their types.
THEOREM TypeCorrect == Spec => []TypeOK
<1>1. IInv => TypeOK BY DEF IInv
<1>. QED BY <1>1, Invariance, PTL

LEMMA InvReturns == IInv => SocketsReturned
BY ConnectionWaiterAssumption DEF IInv, TypeOK, Sockets, Owned, SocketsReturned

\* No socket of an attempt outlives it, however cancel falls.
THEOREM NoSocketLeaks == Spec => []SocketsReturned
BY InvReturns, Invariance, PTL

LEMMA InvClosesOwn == IInv => NeverClosesOthers
BY DEF IInv, TypeOK, Probes, NeverClosesOthers

\* For RFB, no descriptor is closed that is not the attempt's.
THEOREM ClosesOnlyItsOwn == Spec => []NeverClosesOthers
BY InvClosesOwn, Invariance, PTL

-----------------------------------------------------------------------------
(* The refinement of ConnectionAttempt.                                    *)

LEMMA AttemptInit == Init => Attempt!Init
BY DEF Init, Attempt!Init

\* A step that the delegate does not notice
LEMMA AttemptStutters ==
    ASSUME UNCHANGED main
    PROVE  [Attempt!Next]_Attempt!attempt
BY DEF main, Attempt!attempt

LEMMA AttemptStep == IInv /\ [Next]_vars => [Attempt!Next]_Attempt!attempt
<1>. SUFFICES ASSUME IInv, [Next]_vars
              PROVE  [Attempt!Next]_Attempt!attempt
  OBVIOUS
<1>. USE DEF Attempt!Next, Attempt!attempt, Attempt!Running
<1>1. CASE UNCHANGED vars
  BY <1>1, AttemptStutters DEF vars, main
<1>2. CASE ThreadStep \/ Resolved \/ OthersOpen \/ OthersClose
  <2>1. UNCHANGED main
    BY <1>2 DEF ThreadStep, LookUp, OpenSocket, PublishSocket, Connect,
                ConnectFailed, CloseProbe, ForgetProbe, WaitForData, Resolved,
                OthersOpen, OthersClose
  <2>. QED BY <2>1, AttemptStutters
<1>3. CASE DidNotResolve
  <2>1. ~alert /\ told = <<>> /\ UNCHANGED <<delegate, told>>
    BY <1>3 DEF IInv, Phases, DidNotResolve
  <2>2. CASE delegate
    BY <1>3, <2>1, <2>2 DEF DidNotResolve, ShowError, Attempt!Report, IInv, TypeOK
  <2>3. CASE ~delegate
    BY <1>3, <2>1, <2>3 DEF DidNotResolve, ShowError, IInv, TypeOK
  <2>. QED BY <2>2, <2>3
<1>4. CASE MainPerforms
  <2>1. ~alert /\ told = <<>> /\ UNCHANGED delegate
    BY <1>4 DEF IInv, Phases, MainPerforms
  <2>2. CASE ~delegate
    BY <1>4, <2>1, <2>2 DEF MainPerforms, FinishConnection, ShowError, IInv, TypeOK
  <2>3. CASE delegate /\ Head(mainQueue) = "finishConnection"
    <3>1. told' = <<"succeeded">> /\ UNCHANGED alert
      BY <1>4, <2>1, <2>3 DEF MainPerforms, FinishConnection
    <3>. QED BY <2>1, <2>3, <3>1 DEF Attempt!Succeed
  <2>4. CASE delegate /\ Head(mainQueue) # "finishConnection"
    BY <1>4, <2>1, <2>4 DEF MainPerforms, ShowError, Attempt!Report, IInv, TypeOK
  <2>. QED BY <2>2, <2>3, <2>4
<1>5. CASE ErrorDidEnd
  <2>1. told = <<>>
    BY <1>5 DEF IInv, Phases, ErrorDidEnd
  <2>2. CASE delegate
    <3>1. told' = <<"failed">>
      BY <1>5, <2>1, <2>2 DEF ErrorDidEnd
    <3>. QED BY <1>5, <2>1, <2>2, <3>1 DEF ErrorDidEnd, Attempt!Fail
  <2>3. CASE ~delegate
    BY <1>5, <2>3 DEF ErrorDidEnd, Attempt!Dismiss
  <2>. QED BY <2>2, <2>3
<1>6. CASE Cancel
  BY <1>6 DEF Cancel, Attempt!Cancel
<1>7. CASE Begin
  BY <1>7 DEF Begin, Idle, Attempt!Begin
<1>. QED
  BY <1>1, <1>2, <1>3, <1>4, <1>5, <1>6, <1>7 DEF Next, ThreadStep

\* The waiter does what an attempt promises: one outcome at most, an error
\* before a failure, silence after cancel.
THEOREM Refinement == Spec => ImplementsAttempt
<1>1. Spec => []IInv /\ [][Next]_vars /\ Init
  BY Invariance, PTL DEF Spec
<1>2. IInv /\ [Next]_vars => [Attempt!Next]_Attempt!attempt
  BY AttemptStep
<1>. QED BY <1>1, <1>2, AttemptInit, PTL DEF ImplementsAttempt, Attempt!Spec

-----------------------------------------------------------------------------

\* No attempt is begun but by Begin, and cancelled but by Cancel.
LEMMA BecomesWaits ==
    ASSUME NEW s, Becomes(s)
    PROVE  [Next]_vars
BY DEF Becomes, Next

LEMMA SessionStepWaits == [SessionNext]_sessionVars => [Next]_vars
<1>. SUFFICES ASSUME [SessionNext]_sessionVars PROVE [Next]_vars
  OBVIOUS
<1>1. CASE UNCHANGED sessionVars
  BY <1>1 DEF sessionVars
<1>2. CASE ConnectionEnds \/ AuthenticationFails \/ PromptForPassword
  BY <1>2, BecomesWaits DEF ConnectionEnds, AuthenticationFails, PromptForPassword
<1>3. CASE PasswordEntered \/ PasswordCancelled
  BY <1>3, BecomesWaits DEF PasswordEntered, PasswordCancelled
<1>4. CASE QuestionAnswered \/ ForceReconnect
  BY <1>4, BecomesWaits DEF QuestionAnswered, ForceReconnect
<1>5. CASE WindowWillClose \/ TimerFires
  BY <1>5, BecomesWaits DEF WindowWillClose, TimerFires
<1>6. CASE ReconnectCancelled \/ Dealloc
  BY <1>6 DEF ReconnectCancelled, Dealloc, Next
<1>7. CASE WaiterRuns \/ WaiterTells
  BY <1>7 DEF WaiterRuns, WaiterTells, ThreadStep, Next
<1>. QED
  BY <1>1, <1>2, <1>3, <1>4, <1>5, <1>6, <1>7 DEF SessionNext

\* A session uses its waiters as waiters are to be used.
THEOREM SessionWaits == SessionSpec => Spec
<1>1. SessionInit => Init
  BY DEF SessionInit
<1>. QED BY <1>1, SessionStepWaits, PTL DEF SessionSpec, Spec

\* Over any number of reconnections, no socket of an attempt is left open.
THEOREM SessionLeaksNoSocket == SessionSpec => []SocketsReturned
BY SessionWaits, NoSocketLeaks, PTL

\* Over any number of reconnections, no file of another is closed.
THEOREM SessionClosesOnlyItsOwn == SessionSpec => []NeverClosesOthers
BY SessionWaits, ClosesOnlyItsOwn, PTL

\* A session hears of each of its attempts what an attempt promises.
THEOREM SessionHearsAttempts == SessionSpec => ImplementsAttempt
BY SessionWaits, Refinement, PTL

-----------------------------------------------------------------------------
(* The waiter does not retain the session it calls.                        *)

\* A session whose sheets are any in S.
Fields(S) ==
    [connection : BOOLEAN, listed : BOOLEAN, window : BOOLEAN, timer : BOOLEAN,
     sheets : S, waiter : BOOLEAN, attempts : Nat, freed : BOOLEAN,
     late : BOOLEAN, unheard : BOOLEAN]

\* A session has its fields, whatever its sheets are.
Shape(s) == \E S : s \in Fields(S)

\* What the methods of a session that lives do to its waiter: they keep it, or
\* begin an attempt with a new one.
Keeps(s, t) ==
    /\ Shape(t)
    /\ t.freed = s.freed
    /\ \/ t.attempts = s.attempts /\ t.waiter = s.waiter
       \/ t.attempts > s.attempts /\ t.waiter = TRUE

\* Keeps, of two methods of which the second begins no attempt.
LEMMA KeepsThen ==
    ASSUME NEW s, NEW t, NEW u, Keeps(s, t), Shape(u),
           u.freed = t.freed, u.attempts = t.attempts, u.waiter = t.waiter
    PROVE  Keeps(s, u)
BY DEF Keeps

\* What changes no more than the fields left out here keeps the waiter.
LEMMA SmallMethods ==
    ASSUME NEW s, Shape(s), NEW sheet
    PROVE  /\ Keeps(s, s)
           /\ Keeps(s, ConnectionProblem(s))
           /\ Keeps(s, EndSession(s))
           /\ Keeps(s, Ask(s, sheet))
           /\ Keeps(s, EndSheet(s, sheet))
           /\ Keeps(s, BeginReconnect(s))
<1>1. PICK S : s \in Fields(S)
  BY DEF Shape
<1>. DEFINE left == IF s.sheets # <<>> /\ Head(s.sheets) = sheet THEN Tail(s.sheets)
                    ELSE s.sheets
            T == S \cup {Append(s.sheets, sheet)} \cup {left}
<1>2. s \in Fields(T)
  BY <1>1 DEF Fields
<1>3. Append(s.sheets, sheet) \in T /\ left \in T
  OBVIOUS
<1>10. EndSheet(s, sheet) = [s EXCEPT !.sheets = left]
  BY DEF EndSheet
<1>. HIDE DEF T, left
<1>4. Keeps(s, s)
  BY DEF Keeps
<1>5. Keeps(s, ConnectionProblem(s))
  <2>1. ConnectionProblem(s) \in Fields(T)
    BY <1>2 DEF ConnectionProblem, Fields
  <2>. QED BY <1>2, <2>1 DEF Shape, Keeps, ConnectionProblem, Fields
<1>6. Keeps(s, EndSession(s))
  <2>1. EndSession(s) \in Fields(T)
    BY <1>2 DEF EndSession, Fields
  <2>. QED BY <1>2, <2>1 DEF Shape, Keeps, EndSession, Fields
<1>7. Keeps(s, Ask(s, sheet))
  <2>1. Ask(s, sheet) \in Fields(T)
    BY <1>2, <1>3 DEF Ask, Fields
  <2>. QED BY <1>2, <2>1 DEF Shape, Keeps, Ask, Fields
<1>8. Keeps(s, EndSheet(s, sheet))
  <2>1. EndSheet(s, sheet) \in Fields(T)
    BY <1>2, <1>3, <1>10 DEF Fields
  <2>. QED BY <1>2, <1>10, <2>1 DEF Shape, Keeps, Fields
<1>9. Keeps(s, BeginReconnect(s))
  <2>. DEFINE n == s.attempts + 1
  <2>1. BeginReconnect(s) = [s EXCEPT !.waiter = TRUE, !.attempts = n, !.timer = TRUE]
    BY <1>2 DEF BeginReconnect, Fields
  <2>2. s.attempts \in Nat /\ n \in Nat /\ n > s.attempts
    BY <1>2 DEF Fields
  <2>. HIDE DEF n
  <2>3. BeginReconnect(s) \in Fields(T)
    BY <1>2, <2>1, <2>2 DEF Fields
  <2>4. /\ BeginReconnect(s).attempts = n /\ BeginReconnect(s).waiter = TRUE
        /\ BeginReconnect(s).freed = s.freed
    BY <1>2, <2>1 DEF Fields
  <2>. QED BY <2>2, <2>3, <2>4 DEF Shape, Keeps
<1>. QED
  BY <1>4, <1>5, <1>6, <1>7, <1>8, <1>9

-----------------------------------------------------------------------------
\* Two methods, one after the other, of which one at most begins an attempt.
LEMMA KeepsKeeps ==
    ASSUME NEW s, NEW t, NEW u, Shape(s), Keeps(s, t), Keeps(t, u)
    PROVE  Keeps(s, u)
<1>1. s.attempts \in Nat /\ t.attempts \in Nat /\ u.attempts \in Nat
  BY DEF Shape, Fields, Keeps
<1>. QED BY <1>1 DEF Keeps

LEMMA ShapeKept == ASSUME NEW s, NEW t, Keeps(s, t) PROVE Shape(t)
BY DEF Keeps

LEMMA TerminateKeeps ==
    ASSUME NEW s, Shape(s), NEW old
    PROVE  Keeps(s, Terminate(s, old))
<1>. DEFINE t == ConnectionProblem(s)
<1>1. Keeps(s, s) /\ Keeps(s, t) /\ Shape(t)
  BY SmallMethods, ShapeKept
<1>. HIDE DEF t
<1>2. Keeps(t, EndSheet(t, "password")) /\ Shape(EndSheet(t, "password"))
  BY <1>1, SmallMethods, ShapeKept
<1>3. Keeps(EndSheet(t, "password"), Ask(EndSheet(t, "password"), "question"))
  BY <1>2, SmallMethods
<1>4. Keeps(s, Ask(EndSheet(t, "password"), "question"))
  BY <1>1, <1>2, <1>3, KeepsKeeps
<1>5. Keeps(s, BeginReconnect(t)) /\ Keeps(s, Ask(t, "question"))
  BY <1>1, SmallMethods, KeepsKeeps
<1>. QED BY <1>1, <1>4, <1>5 DEF Terminate, t

LEMMA AuthenticationFailedKeeps ==
    ASSUME NEW s, Shape(s), NEW old
    PROVE  Keeps(s, AuthenticationFailed(s, old))
<1>. DEFINE t == IF canReconnect THEN s ELSE Terminate(s, old)
<1>1. Keeps(s, t) /\ Shape(t)
  BY SmallMethods, TerminateKeeps, ShapeKept
<1>. HIDE DEF t
<1>2. Keeps(t, ConnectionProblem(t)) /\ Shape(ConnectionProblem(t))
  BY <1>1, SmallMethods, ShapeKept
<1>3. Keeps(ConnectionProblem(t), Ask(ConnectionProblem(t), "password"))
  BY <1>2, SmallMethods
<1>4. Keeps(s, Ask(ConnectionProblem(t), "password"))
  BY <1>1, <1>2, <1>3, KeepsKeeps
<1>. QED BY <1>4 DEF AuthenticationFailed, t

\* The end of a wait frees nothing, and leaves the waiter.
LEMMA WaitIsOverKeeps ==
    ASSUME NEW s, Shape(s)
    PROVE  Keeps(s, WaitIsOver(s))
<1>. DEFINE e == EndSheet(s, "reconnect")
            t == [e EXCEPT !.timer = FALSE]
<1>1. Keeps(s, e)
  BY SmallMethods
<1>. HIDE DEF e
<1>2. PICK S : e \in Fields(S)
  BY <1>1 DEF Keeps, Shape
<1>3. Keeps(e, t)
  <2>1. t \in Fields(S)
    BY <1>2 DEF Fields
  <2>. QED BY <1>2, <2>1 DEF Keeps, Shape, Fields
<1>4. WaitIsOver(s) = [t EXCEPT !.late = ~Retained(t)]
  BY DEF WaitIsOver, e
<1>5. t \in Fields(S)
  BY <1>2 DEF Fields
<1>. HIDE DEF t
<1>6. Retained(t) \in BOOLEAN
  BY <1>5 DEF Retained, Fields
<1>7. WaitIsOver(s) \in Fields(S)
  BY <1>4, <1>5, <1>6 DEF Fields
<1>8. Keeps(t, WaitIsOver(s))
  BY <1>4, <1>5, <1>7 DEF Keeps, Shape, Fields
<1>. QED BY <1>1, <1>3, <1>8, KeepsKeeps

-----------------------------------------------------------------------------

\* While an attempt goes on, the session that waits for it has its waiter, and
\* lives.
Heard == Shape(session) /\ (Reconnecting => session.waiter /\ ~session.freed)

LEMMA HeardInit == SessionInit => Heard
<1>. SUFFICES ASSUME SessionInit PROVE Heard
  OBVIOUS
<1>1. session \in Fields({<<>>})
  BY DEF SessionInit, Fields
<1>. QED BY <1>1 DEF Heard, Shape, Reconnecting, SessionInit

\* A step of a session that lives.
LEMMA HeardBecomes ==
    ASSUME Heard, ~session.freed, NEW s, Keeps(session, s), Becomes(s)
    PROVE  Heard'
<1>1. session' = s /\ Shape(s) /\ ~s.freed
  BY DEF Becomes, Keeps
<1>2. CASE s.attempts > session.attempts
  <2>1. s.waiter
    BY <1>2, <1>1 DEF Keeps, Heard, Shape, Fields
  <2>. QED BY <1>1, <2>1 DEF Heard
<1>3. CASE ~(s.attempts > session.attempts)
  <2>1. s.waiter = session.waiter
    BY <1>3 DEF Keeps
  <2>2. UNCHANGED <<delegate, told>>
    BY <1>3 DEF Becomes, vars
  <2>. QED BY <1>1, <2>1, <2>2 DEF Heard, Reconnecting
<1>. QED BY <1>2, <1>3

LEMMA HeardSteps == Heard /\ IInv /\ [SessionNext]_sessionVars => Heard'
<1>. SUFFICES ASSUME Heard, IInv, [SessionNext]_sessionVars PROVE Heard'
  OBVIOUS
<1>1. Shape(session)
  BY DEF Heard
<1>2. CASE UNCHANGED sessionVars
  BY <1>2 DEF sessionVars, vars, Heard, Reconnecting
<1>3. CASE ConnectionEnds
  BY <1>1, <1>3, TerminateKeeps, HeardBecomes DEF ConnectionEnds, Running
<1>4. CASE AuthenticationFails
  BY <1>1, <1>4, AuthenticationFailedKeeps, HeardBecomes DEF AuthenticationFails, Running
<1>5. CASE PromptForPassword
  BY <1>1, <1>5, SmallMethods, HeardBecomes DEF PromptForPassword, Running
<1>6. CASE PasswordEntered
  <2>1. CASE session.connection
    <3>1. PICK written \in BOOLEAN :
             LET s == IF written THEN session ELSE Terminate(session, FALSE)
             IN  Becomes([EndSheet(s, "password") EXCEPT
                            !.unheard = ~written /\ canReconnect])
      BY <1>6, <2>1 DEF PasswordEntered
    <3>. DEFINE s == IF written THEN session ELSE Terminate(session, FALSE)
                e == EndSheet(s, "password")
                u == ~written /\ canReconnect
    <3>2. Keeps(session, s) /\ Shape(s)
      BY <1>1, SmallMethods, TerminateKeeps, ShapeKept
    <3>. HIDE DEF s
    <3>3. Keeps(s, e) /\ Shape(e)
      BY <3>2, SmallMethods, ShapeKept
    <3>. HIDE DEF e
    <3>4. u \in BOOLEAN
      OBVIOUS
    <3>5. Becomes([e EXCEPT !.unheard = u])
      BY <3>1 DEF s, e
    <3>. HIDE DEF u
    <3>6. Keeps(e, [e EXCEPT !.unheard = u])
      BY <3>3, <3>4 DEF Keeps, Shape, Fields
    <3>7. Keeps(session, [e EXCEPT !.unheard = u])
      BY <1>1, <3>2, <3>3, <3>6, KeepsKeeps
    <3>. QED BY <1>6, <3>5, <3>7, HeardBecomes DEF PasswordEntered, Running
  <2>2. CASE ~session.connection
    <3>. DEFINE b == BeginReconnect(session)
    <3>1. Keeps(session, b) /\ Shape(b)
      BY <1>1, SmallMethods, ShapeKept
    <3>. HIDE DEF b
    <3>2. Keeps(session, EndSheet(b, "password"))
      BY <1>1, <3>1, SmallMethods, KeepsKeeps
    <3>. QED BY <1>6, <2>2, <3>2, HeardBecomes DEF PasswordEntered, Running, b
  <2>. QED BY <2>1, <2>2
<1>7. CASE PasswordCancelled
  <2>. DEFINE e == EndSheet(session, "password")
              c == ConnectionProblem(e)
  <2>1. Keeps(session, e) /\ Shape(e)
    BY <1>1, SmallMethods, ShapeKept
  <2>. HIDE DEF e
  <2>2. Keeps(e, c) /\ Shape(c)
    BY <2>1, SmallMethods, ShapeKept
  <2>. HIDE DEF c
  <2>3. Keeps(session, EndSession(c))
    BY <1>1, <2>1, <2>2, SmallMethods, KeepsKeeps
  <2>. QED BY <1>7, <2>3, HeardBecomes DEF PasswordCancelled, Running, e, c
<1>8. CASE QuestionAnswered
  <2>. DEFINE e == EndSheet(session, "question")
  <2>1. Keeps(session, e) /\ Shape(e)
    BY <1>1, SmallMethods, ShapeKept
  <2>. HIDE DEF e
  <2>2. Keeps(session, EndSession(e)) /\ Keeps(session, BeginReconnect(e))
    BY <1>1, <2>1, SmallMethods, KeepsKeeps
  <2>. QED BY <1>8, <2>2, HeardBecomes DEF QuestionAnswered, Running, e
<1>9. CASE ForceReconnect
  <2>. DEFINE c == ConnectionProblem(session)
  <2>1. Keeps(session, c) /\ Shape(c)
    BY <1>1, SmallMethods, ShapeKept
  <2>. HIDE DEF c
  <2>2. Keeps(session, BeginReconnect(c))
    BY <1>1, <2>1, SmallMethods, KeepsKeeps
  <2>. QED BY <1>9, <2>2, HeardBecomes DEF ForceReconnect, Running, c
<1>10. CASE WindowWillClose
  <2>. DEFINE w == [session EXCEPT !.window = FALSE]
  <2>1. Keeps(session, w) /\ Shape(w)
    BY <1>1 DEF Keeps, Shape, Fields
  <2>. HIDE DEF w
  <2>2. Keeps(session, EndSession(w))
    BY <1>1, <2>1, SmallMethods, KeepsKeeps
  <2>. QED BY <1>10, <2>2, HeardBecomes DEF WindowWillClose, Running, w
<1>11. CASE TimerFires
  <2>. DEFINE t == [session EXCEPT !.timer = FALSE]
  <2>1. Keeps(session, t) /\ Shape(t)
    BY <1>1 DEF Keeps, Shape, Fields
  <2>2. Becomes(t) \/ Becomes(Ask(t, "reconnect"))
    BY <1>11 DEF TimerFires
  <2>. HIDE DEF t
  <2>3. Keeps(session, Ask(t, "reconnect"))
    BY <1>1, <2>1, SmallMethods, KeepsKeeps
  <2>. QED BY <1>11, <2>1, <2>2, <2>3, HeardBecomes DEF TimerFires, Running
<1>12. CASE ReconnectCancelled
  <2>. DEFINE e == EndSheet(session, "reconnect")
              w == [e EXCEPT !.waiter = FALSE]
  <2>1. Shape(e)
    BY <1>1, SmallMethods, ShapeKept
  <2>. HIDE DEF e
  <2>2. Shape(w)
    BY <2>1 DEF Shape, Fields
  <2>3. session' = EndSession(w) /\ ~delegate'
    BY <1>12 DEF ReconnectCancelled, Cancel, e
  <2>. HIDE DEF w
  <2>4. Shape(session')
    BY <2>2, <2>3, SmallMethods, ShapeKept
  <2>. QED BY <2>3, <2>4 DEF Heard, Reconnecting
<1>13. CASE Dealloc
  <2>. DEFINE f == [session EXCEPT !.freed = TRUE, !.connection = FALSE,
                                   !.waiter = FALSE]
  <2>1. Shape(session')
    <3>1. Shape(f)
      BY <1>1 DEF Shape, Fields
    <3>. QED BY <1>13, <3>1 DEF Dealloc
  <2>2. CASE session.waiter
    BY <1>13, <2>1, <2>2 DEF Dealloc, Cancel, Heard, Reconnecting
  <2>3. CASE ~session.waiter
    BY <1>13, <2>1, <2>3 DEF Dealloc, vars, Heard, Reconnecting
  <2>. QED BY <2>2, <2>3
<1>14. CASE WaiterRuns
  <2>1. UNCHANGED <<session, delegate, told>>
    BY <1>14 DEF WaiterRuns, ThreadStep, LookUp, OpenSocket, PublishSocket, Connect,
                 ConnectFailed, CloseProbe, ForgetProbe, WaitForData, Resolved,
                 OthersOpen, OthersClose, main
  <2>. QED BY <2>1 DEF Heard, Reconnecting
<1>15. CASE WaiterTells
  <2>1. UNCHANGED delegate
    BY <1>15 DEF WaiterTells, DidNotResolve, MainPerforms, ErrorDidEnd
  <2>2. told = <<>>
    BY <1>15 DEF WaiterTells, DidNotResolve, MainPerforms, ErrorDidEnd, IInv, Phases
  <2>3. CASE UNCHANGED told
    <3>1. session' = ConnectionPrepareForSheet(session) \/ session' = session
      BY <1>15, <2>3 DEF WaiterTells, Hears
    <3>2. Keeps(session, ConnectionPrepareForSheet(session)) /\ Keeps(session, session)
      BY <1>1, WaitIsOverKeeps, SmallMethods DEF ConnectionPrepareForSheet
    <3>. QED BY <2>1, <2>3, <3>1, <3>2 DEF Heard, Reconnecting, Keeps
  <2>4. CASE told' # told
    <3>. DEFINE w == WaitIsOver(session)
                c == [w EXCEPT !.connection = TRUE, !.waiter = FALSE]
    <3>1. Shape(w)
      BY <1>1, WaitIsOverKeeps, ShapeKept
    <3>2. \/ session' = c \/ session' = ConnectionFailed(session)
          \/ session' = w \/ session' = session
      BY <1>15 DEF WaiterTells, Hears, ConnectionSucceeded, ConnectionPrepareForSheet
    <3>. HIDE DEF w
    <3>3. Shape(c)
      BY <3>1 DEF Shape, Fields
    <3>. HIDE DEF c
    <3>4. Shape(ConnectionFailed(session))
      BY <1>1, SmallMethods, ShapeKept DEF ConnectionFailed
    <3>5. ~Reconnecting'
      BY <2>2, <2>4 DEF Reconnecting
    <3>. QED BY <1>1, <3>1, <3>2, <3>3, <3>4, <3>5 DEF Heard
  <2>. QED BY <2>3, <2>4
<1>. QED
  BY <1>2, <1>3, <1>4, <1>5, <1>6, <1>7, <1>8, <1>9, <1>10, <1>11, <1>12, <1>13,
     <1>14, <1>15 DEF SessionNext

\* The waiter, which does not retain its session, never tells a session anything
\* that has been deallocated: the first half of NoLateCalls.
THEOREM NeverCallsTheDead == SessionSpec => [](Reconnecting => ~session.freed)
<1>1. SessionSpec => []IInv
  BY SessionWaits, Invariance, PTL
<1>2. SessionSpec => []Heard
  BY <1>1, HeardInit, HeardSteps, PTL DEF SessionSpec
<1>3. Heard => (Reconnecting => ~session.freed)
  BY DEF Heard
<1>. QED BY <1>2, <1>3, PTL

-----------------------------------------------------------------------------
(***************************************************************************)
(* What becomes of a session.  A session either waits for an attempt or it *)
(* rests; which of its sheets, its timer, its place in the list and its    *)
(* connection go together is different for the two.  The sheets come in    *)
(* few ways: only a session that cannot reconnect has two at once, the     *)
(* question after a rejected password with the prompt behind it.           *)
(***************************************************************************)

Queues == {<<>>, <<"password">>, <<"question">>, <<"reconnect">>,
           <<"question", "password">>}

Rec == Fields(Queues)

\* Begins and ends with the attempt, behind its sheet or before it is up.
Waiting(s) ==
    /\ s.sheets \in {<<>>, <<"reconnect">>}
    /\ s.timer => s.sheets = <<>>
    /\ ~s.connection /\ ~s.freed
    /\ s.listed \/ ~s.window \/ ~canReconnect

\* Has a connection, or a question for the user, or comes to its end.
Resting(s) ==
    /\ ~s.timer /\ s.sheets # <<"reconnect">>
    /\ canReconnect => s.sheets # <<"question", "password">>
    /\ s.connection => s.sheets \in {<<>>, <<"password">>} /\ (s.listed \/ s.sheets = <<>>)
    /\ ~s.listed /\ canReconnect => s.sheets = <<>>
    /\ s.listed /\ ~s.connection /\ ~s.unheard => s.sheets # <<>>
    /\ s.freed => ~s.listed /\ ~s.connection /\ s.sheets = <<>>

\* What holds of either.
Lateness(s) == s \in Rec /\ (s.late => ~s.window \/ ~canReconnect)

\* The error of an attempt is shown when nothing waits for the attempt any
\* more, and nobody is left to call after the end of the session.
Orderly ==
    /\ Lateness(session)
    /\ Reconnecting => /\ Waiting(session)
                       /\ alert => ~session.timer /\ session.sheets = <<>>
    /\ ~Reconnecting => /\ Resting(session)
                        /\ alert => session.freed

\* The ways the sheets come in are different, and what is put at the end and
\* taken from the front leads from one to the other.
LEMMA SheetQueues ==
    /\ <<"password">> # <<>> /\ <<"question">> # <<>> /\ <<"reconnect">> # <<>>
    /\ <<"question", "password">> # <<>>
    /\ <<"password">> # <<"question">> /\ <<"password">> # <<"reconnect">>
    /\ <<"question">> # <<"reconnect">>
    /\ <<"question", "password">> # <<"password">>
    /\ <<"question", "password">> # <<"question">>
    /\ <<"question", "password">> # <<"reconnect">>
    /\ \A x \in Sheets : Append(<<>>, x) = <<x>> /\ Head(<<x>>) = x /\ Tail(<<x>>) = <<>>
    /\ Append(<<"question">>, "password") = <<"question", "password">>
    /\ Head(<<"question", "password">>) = "question"
    /\ Tail(<<"question", "password">>) = <<"password">>
<1>1. \A x, y : Len(<<>>) = 0 /\ Len(<<x>>) = 1 /\ Len(<<x, y>>) = 2
  OBVIOUS
<1>2. \A x : <<x>>[1] = x
  OBVIOUS
<1>3. \A x \in Sheets : Append(<<>>, x) = <<x>> /\ Head(<<x>>) = x /\ Tail(<<x>>) = <<>>
  OBVIOUS
<1>4. Append(<<"question">>, "password") = <<"question", "password">>
  <2>. DEFINE s == Append(<<"question">>, "password")
              t == <<"question", "password">>
  <2>1. <<"question">> \in Seq(Sheets) /\ t \in Seq(Sheets) /\ s \in Seq(Sheets)
    BY DEF Sheets
  <2>2. /\ Len(<<"question">>) = 1 /\ <<"question">>[1] = "question"
        /\ Len(t) = 2 /\ t[1] = "question" /\ t[2] = "password"
    OBVIOUS
  <2>3. Len(s) = 2 /\ s[1] = "question" /\ s[2] = "password"
    BY <2>1, <2>2, AppendProperties DEF Sheets
  <2>. HIDE DEF s, t
  <2>4. \A i \in 1 .. Len(s) : s[i] = t[i]
    <3>. SUFFICES ASSUME NEW i \in 1 .. 2 PROVE s[i] = t[i]
      BY <2>3
    <3>1. i = 1 \/ i = 2
      OBVIOUS
    <3>. QED BY <2>2, <2>3, <3>1
  <2>5. s = t
    BY <2>1, <2>2, <2>3, <2>4, SeqEqual
  <2>. QED BY <2>5 DEF s, t
<1>5. Head(<<"question", "password">>) = "question"
  OBVIOUS
<1>6. Tail(<<"question", "password">>) = <<"password">>
  OBVIOUS
<1>. QED
  BY <1>1, <1>2, <1>3, <1>4, <1>5, <1>6


\* What is left of the sheets when one ends.
LEMMA EndSheetIs ==
    ASSUME NEW s \in Rec, NEW x \in Sheets
    PROVE  /\ s.sheets = <<x>> => EndSheet(s, x) = [s EXCEPT !.sheets = <<>>]
           /\ s.sheets = <<>> => EndSheet(s, x) = s
           /\ s.sheets = <<"question">> /\ x # "question" => EndSheet(s, x) = s
           /\ s.sheets = <<"question", "password">> /\ x = "question"
                 => EndSheet(s, x) = [s EXCEPT !.sheets = <<"password">>]
<1>. DEFINE left == IF s.sheets # <<>> /\ Head(s.sheets) = x THEN Tail(s.sheets)
                    ELSE s.sheets
<1>1. EndSheet(s, x) = [s EXCEPT !.sheets = left]
  BY DEF EndSheet
<1>2. /\ s.sheets = <<x>> => left = <<>>
      /\ s.sheets = <<>> => left = s.sheets
      /\ s.sheets = <<"question">> /\ x # "question" => left = s.sheets
      /\ s.sheets = <<"question", "password">> /\ x = "question" => left = <<"password">>
  BY SheetQueues DEF Sheets
<1>. HIDE DEF left
<1>3. left = s.sheets => EndSheet(s, x) = s
  BY <1>1 DEF Rec, Fields
<1>. QED BY <1>1, <1>2, <1>3

\* terminateConnection: of a session with a connection.
LEMMA TerminateTo ==
    ASSUME NEW s \in Rec, s.connection, s.sheets \in {<<>>, <<"password">>},
           NEW old, NEW u, u = Terminate(s, old)
    PROVE  \/ /\ s.sheets = <<"password">> /\ canReconnect
              /\ u = [s EXCEPT !.connection = FALSE]
           \/ /\ s.sheets = <<>> /\ canReconnect
              /\ u = [s EXCEPT !.connection = FALSE, !.waiter = TRUE,
                               !.attempts = s.attempts + 1, !.timer = TRUE]
           \/ /\ ~(s.sheets = <<"password">> /\ canReconnect)
              /\ u = [s EXCEPT !.connection = FALSE, !.sheets = <<"question">>]
<1>. DEFINE t == ConnectionProblem(s)
<1>1. /\ t = [s EXCEPT !.connection = FALSE] /\ t \in Rec /\ t.sheets = s.sheets
      /\ t.attempts = s.attempts
  BY DEF ConnectionProblem, Rec, Fields
<1>2. /\ s.connection /\ u = IF PasswordVisible(t)
           THEN IF canReconnect THEN t ELSE Ask(EndSheet(t, "password"), "question")
           ELSE IF canReconnect /\ old THEN BeginReconnect(t) ELSE Ask(t, "question")
  BY DEF Terminate
<1>. HIDE DEF t
<1>3. PasswordVisible(t) <=> s.sheets = <<"password">>
  BY <1>1, SheetQueues DEF PasswordVisible, Sheets
<1>4. CASE s.sheets = <<"password">>
  <2>1. EndSheet(t, "password") = [t EXCEPT !.sheets = <<>>]
    BY <1>1, <1>4, EndSheetIs DEF Sheets
  <2>2. Ask(EndSheet(t, "password"), "question") = [t EXCEPT !.sheets = <<"question">>]
    BY <1>1, <2>1, SheetQueues DEF Ask, Rec, Fields, Sheets
  <2>. QED BY <1>1, <1>2, <1>3, <1>4, <2>2
<1>5. CASE s.sheets = <<>>
  <2>1. Ask(t, "question") = [t EXCEPT !.sheets = <<"question">>]
    BY <1>1, <1>5, SheetQueues DEF Ask, Rec, Fields, Sheets
  <2>2. BeginReconnect(t) = [s EXCEPT !.connection = FALSE, !.waiter = TRUE,
                               !.attempts = s.attempts + 1, !.timer = TRUE]
    BY <1>1 DEF BeginReconnect, Rec, Fields
  <2>3. s.sheets # <<"password">>
    BY <1>5, SheetQueues
  <2>. QED BY <1>1, <1>2, <1>3, <1>5, <2>1, <2>2, <2>3
<1>. QED BY <1>4, <1>5


\* The three ways a step of a session that lives goes: it begins an attempt, it
\* rests on, or it waits on.
LEMMA BeginsTo ==
    ASSUME Orderly, NEW s, Becomes(s), s.attempts > session.attempts,
           Lateness(s), Waiting(s)
    PROVE  Orderly'
<1>1. session' = s /\ canReconnect' = canReconnect /\ Begin
  BY DEF Becomes
<1>2. Reconnecting' /\ ~alert'
  BY <1>1 DEF Begin, Idle, Reconnecting
<1>. QED BY <1>1, <1>2 DEF Orderly, Lateness, Waiting

LEMMA RestsAs ==
    ASSUME Orderly, ~session.freed, ~Reconnecting, NEW s, Becomes(s),
           ~(s.attempts > session.attempts), Lateness(s), Resting(s)
    PROVE  Orderly'
<1>1. session' = s /\ UNCHANGED <<canReconnect, delegate, told, alert>>
  BY DEF Becomes, vars
<1>2. ~Reconnecting' /\ ~alert'
  BY <1>1 DEF Reconnecting, Orderly
<1>. QED BY <1>1, <1>2 DEF Orderly, Lateness, Resting

LEMMA WaitsAs ==
    ASSUME Orderly, Reconnecting, NEW s, Becomes(s),
           ~(s.attempts > session.attempts), Lateness(s), Waiting(s),
           alert => ~s.timer /\ s.sheets = <<>>
    PROVE  Orderly'
<1>1. session' = s /\ UNCHANGED <<canReconnect, delegate, told, alert>>
  BY DEF Becomes, vars
<1>2. Reconnecting'
  BY <1>1 DEF Reconnecting
<1>. QED BY <1>1, <1>2 DEF Orderly, Lateness, Waiting

\* A session that has a connection and goes on is in the list, and rests.
LEMMA Connected ==
    ASSUME Orderly, Running, session.connection
    PROVE  /\ session \in Rec /\ ~Reconnecting /\ session.listed
           /\ ~session.timer /\ ~session.freed
           /\ session.sheets \in {<<>>, <<"password">>}
           /\ (session.late => ~session.window \/ ~canReconnect)
           /\ session.attempts \in Nat /\ session.attempts + 1 > session.attempts
           /\ session.attempts + 1 \in Nat
<1>1. session \in Rec /\ (session.late => ~session.window \/ ~canReconnect)
  BY DEF Orderly, Lateness
<1>2. ~Reconnecting /\ Resting(session)
  BY DEF Orderly, Waiting
<1>3. session.attempts \in Nat
  BY <1>1 DEF Rec, Fields
<1>. QED BY <1>1, <1>2, <1>3 DEF Resting, Running, Retained

LEMMA ConnectionEndsOrderly == ASSUME Orderly, ConnectionEnds PROVE Orderly'
<1>1. Running /\ session.connection
  BY DEF ConnectionEnds
<1>2. PICK old \in BOOLEAN : Becomes(Terminate(session, old))
  BY DEF ConnectionEnds
<1>. DEFINE u == Terminate(session, old)
            n == session.attempts + 1
<1>3. \/ /\ session.sheets = <<"password">> /\ canReconnect
         /\ u = [session EXCEPT !.connection = FALSE]
      \/ /\ session.sheets = <<>> /\ canReconnect
         /\ u = [session EXCEPT !.connection = FALSE, !.waiter = TRUE,
                                !.attempts = n, !.timer = TRUE]
      \/ /\ ~(session.sheets = <<"password">> /\ canReconnect)
         /\ u = [session EXCEPT !.connection = FALSE, !.sheets = <<"question">>]
  BY <1>1, Connected, TerminateTo
<1>4. Becomes(u)
  BY <1>2
<1>5. n \in Nat /\ n > session.attempts /\ session.attempts \in Nat
  BY <1>1, Connected
<1>. HIDE DEF u, n
<1>6. CASE /\ session.sheets = <<"password">> /\ canReconnect
           /\ u = [session EXCEPT !.connection = FALSE]
  <2>1. /\ u \in Rec /\ u.attempts = session.attempts /\ ~u.connection
        /\ u.listed = session.listed /\ u.timer = session.timer
        /\ u.sheets = session.sheets /\ u.freed = session.freed
        /\ u.late = session.late /\ u.window = session.window
    BY <1>1, <1>6, Connected DEF Rec, Fields
  <2>2. Lateness(u) /\ Resting(u)
    BY <1>1, <1>6, <2>1, Connected, SheetQueues DEF Lateness, Resting
  <2>3. ~(u.attempts > session.attempts)
    BY <1>5, <2>1
  <2>. QED BY <1>1, <1>4, <2>2, <2>3, Connected, RestsAs
<1>7. CASE /\ session.sheets = <<>> /\ canReconnect
           /\ u = [session EXCEPT !.connection = FALSE, !.waiter = TRUE,
                                  !.attempts = n, !.timer = TRUE]
  <2>1. /\ u \in Rec /\ u.attempts = n /\ ~u.connection
        /\ u.listed = session.listed /\ u.sheets = <<>>
        /\ u.freed = session.freed /\ u.late = session.late
        /\ u.window = session.window
    BY <1>1, <1>5, <1>7, Connected DEF Rec, Fields
  <2>2. Lateness(u) /\ Waiting(u)
    BY <1>1, <2>1, Connected DEF Lateness, Waiting
  <2>. QED BY <1>4, <1>5, <2>1, <2>2, BeginsTo
<1>8. CASE /\ ~(session.sheets = <<"password">> /\ canReconnect)
           /\ u = [session EXCEPT !.connection = FALSE, !.sheets = <<"question">>]
  <2>. <<"question">> \in Queues
    BY DEF Queues
  <2>1. /\ u \in Rec /\ u.attempts = session.attempts /\ ~u.connection
        /\ u.listed = session.listed /\ u.timer = session.timer
        /\ u.sheets = <<"question">> /\ u.freed = session.freed
        /\ u.late = session.late /\ u.window = session.window
    BY <1>1, <1>8, Connected DEF Rec, Fields
  <2>2. Lateness(u) /\ Resting(u)
    BY <1>1, <2>1, Connected, SheetQueues DEF Lateness, Resting
  <2>3. ~(u.attempts > session.attempts)
    BY <1>5, <2>1
  <2>. QED BY <1>1, <1>4, <2>2, <2>3, Connected, RestsAs
<1>. QED BY <1>3, <1>6, <1>7, <1>8


LEMMA AuthenticationFailsOrderly == ASSUME Orderly, AuthenticationFails PROVE Orderly'
<1>1. Running /\ session.connection /\ session.sheets = <<>>
  BY DEF AuthenticationFails
<1>2. PICK old \in BOOLEAN : Becomes(AuthenticationFailed(session, old))
  BY DEF AuthenticationFails
<1>. DEFINE t == IF canReconnect THEN session ELSE Terminate(session, old)
            c == ConnectionProblem(t)
            u == Ask(c, "password")
            q == IF canReconnect THEN <<"password">> ELSE <<"question", "password">>
<1>3. \/ t = session /\ canReconnect
      \/ /\ ~canReconnect
         /\ t = [session EXCEPT !.connection = FALSE, !.sheets = <<"question">>]
  BY <1>1, Connected, TerminateTo
<1>4. Becomes(u)
  BY <1>2 DEF AuthenticationFailed
<1>. HIDE DEF t
<1>5. c = [t EXCEPT !.connection = FALSE]
  BY DEF ConnectionProblem
<1>. HIDE DEF c
<1>6. u = [c EXCEPT !.sheets = Append(c.sheets, "password")]
  BY <1>1, <1>3, <1>5, Connected DEF Ask, Rec, Fields
<1>. HIDE DEF u
<1>7. Append(c.sheets, "password") = q
  <2>1. c.sheets = IF canReconnect THEN <<>> ELSE <<"question">>
    BY <1>1, <1>3, <1>5, Connected DEF Rec, Fields
  <2>. QED BY <2>1, SheetQueues DEF Sheets
<1>8. q \in Queues /\ (canReconnect => q = <<"password">>)
      /\ (~canReconnect => q = <<"question", "password">>)
  BY DEF Queues
<1>. HIDE DEF q
<1>9. u = [session EXCEPT !.connection = FALSE, !.sheets = q]
  BY <1>1, <1>3, <1>5, <1>6, <1>7, Connected DEF Rec, Fields
<1>10. /\ u \in Rec /\ u.attempts = session.attempts /\ ~u.connection
       /\ u.listed = session.listed /\ u.timer = session.timer
       /\ u.sheets = q /\ u.freed = session.freed
       /\ u.late = session.late /\ u.window = session.window
  BY <1>1, <1>8, <1>9, Connected DEF Rec, Fields
<1>11. q # <<>> /\ q # <<"reconnect">>
  BY <1>8, SheetQueues
<1>12. Lateness(u) /\ Resting(u)
  BY <1>1, <1>8, <1>10, <1>11, Connected, SheetQueues DEF Lateness, Resting
<1>13. ~(u.attempts > session.attempts)
  BY <1>1, <1>10, Connected
<1>. QED BY <1>1, <1>4, <1>12, <1>13, Connected, RestsAs

LEMMA PromptForPasswordOrderly == ASSUME Orderly, PromptForPassword PROVE Orderly'
<1>1. /\ Running /\ session.connection /\ session.sheets = <<>>
      /\ Becomes(Ask(session, "password"))
  BY DEF PromptForPassword
<1>. DEFINE u == Ask(session, "password")
<1>2. u = [session EXCEPT !.sheets = <<"password">>]
  BY <1>1, Connected, SheetQueues DEF Ask, Rec, Fields, Sheets
<1>. HIDE DEF u
<1>. <<"password">> \in Queues
  BY DEF Queues
<1>3. /\ u \in Rec /\ u.attempts = session.attempts /\ u.connection
      /\ u.listed = session.listed /\ u.timer = session.timer
      /\ u.sheets = <<"password">> /\ u.freed = session.freed
      /\ u.late = session.late /\ u.window = session.window
  BY <1>1, <1>2, Connected DEF Rec, Fields
<1>4. Lateness(u) /\ Resting(u)
  BY <1>1, <1>3, Connected, SheetQueues DEF Lateness, Resting
<1>5. ~(u.attempts > session.attempts)
  BY <1>1, <1>3, Connected
<1>. QED BY <1>1, <1>4, <1>5, Connected, RestsAs DEF u

\* Under the visible sheet for the password nothing waits.
LEMMA Prompted ==
    ASSUME Orderly, Running, PasswordVisible(session)
    PROVE  /\ session \in Rec /\ ~Reconnecting /\ Resting(session)
           /\ session.sheets = <<"password">> /\ ~session.freed
           /\ (session.late => ~session.window \/ ~canReconnect)
           /\ session.attempts \in Nat /\ session.attempts + 1 > session.attempts
           /\ session.attempts + 1 \in Nat
<1>1. session \in Rec /\ (session.late => ~session.window \/ ~canReconnect)
      /\ ~session.freed
  BY DEF Orderly, Lateness, Running
<1>2. session.sheets \in Queues /\ session.attempts \in Nat
  BY <1>1 DEF Rec, Fields
<1>3. session.sheets = <<"password">>
  BY <1>2, SheetQueues DEF PasswordVisible, Queues, Sheets
<1>4. ~Reconnecting
  BY <1>3, SheetQueues DEF Orderly, Waiting
<1>. QED BY <1>1, <1>2, <1>3, <1>4 DEF Orderly

LEMMA PasswordGivenOrderly ==
    ASSUME Orderly, PasswordEntered, session.connection
    PROVE  Orderly'
<1>1. Running /\ PasswordVisible(session)
  BY DEF PasswordEntered
<1>2. PICK written \in BOOLEAN :
         LET s == IF written THEN session ELSE Terminate(session, FALSE)
         IN  Becomes([EndSheet(s, "password") EXCEPT
                        !.unheard = ~written /\ canReconnect])
  BY DEF PasswordEntered
<1>. DEFINE s == IF written THEN session ELSE Terminate(session, FALSE)
            e == EndSheet(s, "password")
            x == ~written /\ canReconnect
            u == [e EXCEPT !.unheard = x]
<1>3. Becomes(u)
  BY <1>2
<1>4. x \in BOOLEAN
  OBVIOUS
<1>5. \/ written /\ s = session
      \/ /\ ~written /\ canReconnect
         /\ s = [session EXCEPT !.connection = FALSE]
      \/ /\ ~written /\ ~canReconnect
         /\ s = [session EXCEPT !.connection = FALSE, !.sheets = <<"question">>]
  <2>. DEFINE d == Terminate(session, FALSE)
  <2>1. \/ canReconnect /\ d = [session EXCEPT !.connection = FALSE]
        \/ /\ ~canReconnect
           /\ d = [session EXCEPT !.connection = FALSE, !.sheets = <<"question">>]
    BY <1>1, Prompted, Connected, TerminateTo, SheetQueues
  <2>. HIDE DEF d
  <2>2. s = IF written THEN session ELSE d
    BY DEF d
  <2>. HIDE DEF s
  <2>. QED BY <2>1, <2>2
<1>. HIDE DEF s
<1>. <<"question">> \in Queues /\ <<>> \in Queues
  BY DEF Queues
<1>6. s \in Rec
  BY <1>1, <1>5, Prompted DEF Rec, Fields
<1>7. s.sheets = IF ~written /\ ~canReconnect THEN <<"question">> ELSE <<"password">>
  BY <1>1, <1>5, Prompted DEF Rec, Fields
<1>8. IF ~written /\ ~canReconnect THEN e = s ELSE e = [s EXCEPT !.sheets = <<>>]
  BY <1>6, <1>7, EndSheetIs DEF Sheets
<1>. HIDE DEF e
<1>. DEFINE q == IF ~written /\ ~canReconnect THEN <<"question">> ELSE <<>>
<1>9. q \in Queues
  OBVIOUS
<1>10. e \in Rec /\ e.sheets = q
  BY <1>6, <1>7, <1>8 DEF Rec, Fields
<1>11. /\ e.attempts = session.attempts /\ e.connection = written
       /\ e.listed = session.listed /\ e.timer = session.timer
       /\ e.freed = session.freed
       /\ e.late = session.late /\ e.window = session.window
  <2>1. /\ s.attempts = session.attempts /\ s.connection = written
        /\ s.listed = session.listed /\ s.timer = session.timer
        /\ s.freed = session.freed
        /\ s.late = session.late /\ s.window = session.window
    BY <1>1, <1>5, Prompted DEF Rec, Fields
  <2>. QED BY <1>6, <1>8, <2>1 DEF Rec, Fields
<1>. HIDE DEF q
<1>12. u = [e EXCEPT !.unheard = x]
  OBVIOUS
<1>. HIDE DEF u, x
<1>13. /\ u \in Rec /\ u.attempts = session.attempts /\ u.connection = written
       /\ u.listed = session.listed /\ u.timer = session.timer
       /\ u.sheets = q /\ u.freed = session.freed /\ u.unheard = x
       /\ u.late = session.late /\ u.window = session.window
  BY <1>4, <1>10, <1>11, <1>12 DEF Rec, Fields
<1>14. Lateness(u)
  BY <1>1, <1>13, Prompted DEF Lateness
<1>15. session.listed /\ ~session.timer
  BY <1>1, Connected
<1>16. /\ q # <<"reconnect">> /\ q # <<"question", "password">>
       /\ written => q = <<>>
       /\ ~written /\ ~x => q # <<>>
  BY SheetQueues DEF q, x
<1>17. Resting(u)
  BY <1>1, <1>13, <1>15, <1>16, Prompted DEF Resting
<1>18. ~(u.attempts > session.attempts)
  BY <1>1, <1>13, Prompted
<1>. QED BY <1>1, <1>3, <1>14, <1>17, <1>18, Prompted, RestsAs DEF u


\* The password for a new attempt.
LEMMA PasswordToReconnectOrderly ==
    ASSUME Orderly, PasswordEntered, ~session.connection
    PROVE  Orderly'
<1>1. /\ Running /\ PasswordVisible(session)
      /\ Becomes(EndSheet(BeginReconnect(session), "password"))
  BY DEF PasswordEntered
<1>. DEFINE n == session.attempts + 1
            b == BeginReconnect(session)
            u == EndSheet(b, "password")
<1>2. b = [session EXCEPT !.waiter = TRUE, !.attempts = n, !.timer = TRUE]
  BY <1>1, Prompted DEF BeginReconnect, Rec, Fields
<1>3. n \in Nat /\ n > session.attempts
  BY <1>1, Prompted
<1>. HIDE DEF n, b
<1>4. /\ b \in Rec /\ b.attempts = n /\ b.connection = session.connection
      /\ b.listed = session.listed /\ b.sheets = <<"password">>
      /\ b.freed = session.freed /\ b.late = session.late
      /\ b.window = session.window
  BY <1>1, <1>2, <1>3, Prompted DEF Rec, Fields
<1>5. u = [b EXCEPT !.sheets = <<>>]
  BY <1>4, EndSheetIs DEF Sheets
<1>. HIDE DEF u
<1>. <<>> \in Queues
  BY DEF Queues
<1>6. /\ u \in Rec /\ u.attempts = n /\ u.connection = session.connection
      /\ u.listed = session.listed /\ u.sheets = <<>>
      /\ u.freed = session.freed /\ u.late = session.late
      /\ u.window = session.window
  BY <1>4, <1>5 DEF Rec, Fields
<1>7. Lateness(u) /\ Waiting(u)
  BY <1>1, <1>6, Prompted, SheetQueues DEF Lateness, Waiting, Resting
<1>. QED BY <1>1, <1>3, <1>6, <1>7, BeginsTo DEF u, b

LEMMA PasswordCancelledOrderly == ASSUME Orderly, PasswordCancelled PROVE Orderly'
<1>. DEFINE e == EndSheet(session, "password")
            u == EndSession(ConnectionProblem(e))
<1>1. Running /\ PasswordVisible(session) /\ Becomes(u)
  BY DEF PasswordCancelled
<1>2. e = [session EXCEPT !.sheets = <<>>]
  BY <1>1, Prompted, EndSheetIs DEF Sheets
<1>. HIDE DEF e
<1>3. u = [[e EXCEPT !.connection = FALSE] EXCEPT !.listed = FALSE]
  BY DEF EndSession, ConnectionProblem
<1>. HIDE DEF u
<1>. <<>> \in Queues
  BY DEF Queues
<1>4. /\ u \in Rec /\ u.attempts = session.attempts /\ ~u.connection
      /\ ~u.listed /\ u.timer = session.timer
      /\ u.sheets = <<>> /\ u.freed = session.freed
      /\ u.late = session.late /\ u.window = session.window
  BY <1>1, <1>2, <1>3, Prompted DEF Rec, Fields
<1>5. Lateness(u) /\ Resting(u)
  BY <1>1, <1>4, Prompted, SheetQueues DEF Lateness, Resting
<1>6. ~(u.attempts > session.attempts)
  BY <1>1, <1>4, Prompted
<1>. QED BY <1>1, <1>5, <1>6, Prompted, RestsAs DEF u, e

LEMMA QuestionAnsweredOrderly == ASSUME Orderly, QuestionAnswered PROVE Orderly'
<1>. DEFINE e == EndSheet(session, "question")
            n == session.attempts + 1
<1>1. /\ Running /\ session.sheets # <<>> /\ Head(session.sheets) = "question"
      /\ Becomes(EndSession(e)) \/ (canReconnect /\ Becomes(BeginReconnect(e)))
  BY DEF QuestionAnswered
<1>2. session \in Rec /\ (session.late => ~session.window \/ ~canReconnect)
      /\ ~session.freed
  BY <1>1 DEF Orderly, Lateness, Running
<1>3. session.sheets \in Queues /\ session.attempts \in Nat
  BY <1>2 DEF Rec, Fields
<1>4. session.sheets \in {<<"question">>, <<"question", "password">>}
  BY <1>1, <1>3, SheetQueues DEF Queues, Sheets
<1>5. ~Reconnecting /\ Resting(session)
  BY <1>4, SheetQueues DEF Orderly, Waiting
<1>6. /\ ~session.connection
      /\ canReconnect => session.listed /\ session.sheets = <<"question">>
  BY <1>4, <1>5, SheetQueues DEF Resting
<1>. DEFINE q == IF session.sheets = <<"question">> THEN <<>> ELSE <<"password">>
<1>7. e = [session EXCEPT !.sheets = q]
  BY <1>2, <1>4, EndSheetIs, SheetQueues DEF Sheets
<1>8. q \in Queues /\ (canReconnect => q = <<>>) /\ q # <<"reconnect">>
      /\ q # <<"question", "password">>
  BY <1>6, SheetQueues DEF Queues
<1>9. n \in Nat /\ n > session.attempts
  BY <1>3
<1>. HIDE DEF e, q, n
<1>10. /\ e \in Rec /\ e.attempts = session.attempts
       /\ e.connection = session.connection
       /\ e.listed = session.listed /\ e.timer = session.timer
       /\ e.sheets = q /\ e.freed = session.freed
       /\ e.late = session.late /\ e.window = session.window
  BY <1>2, <1>7, <1>8 DEF Rec, Fields
<1>11. CASE Becomes(EndSession(e))
  <2>. DEFINE u == EndSession(e)
  <2>1. u = [e EXCEPT !.listed = FALSE]
    BY DEF EndSession
  <2>. HIDE DEF u
  <2>2. /\ u \in Rec /\ u.attempts = session.attempts
        /\ u.connection = session.connection
        /\ ~u.listed /\ u.timer = session.timer
        /\ u.sheets = q /\ u.freed = session.freed
        /\ u.late = session.late /\ u.window = session.window
    BY <1>10, <2>1 DEF Rec, Fields
  <2>3. Lateness(u) /\ Resting(u)
    BY <1>2, <1>5, <1>6, <1>8, <2>2 DEF Lateness, Resting
  <2>4. ~(u.attempts > session.attempts)
    BY <1>3, <2>2
  <2>. QED BY <1>2, <1>5, <1>11, <2>3, <2>4, RestsAs DEF u
<1>12. CASE canReconnect /\ Becomes(BeginReconnect(e))
  <2>. DEFINE u == BeginReconnect(e)
  <2>1. u = [e EXCEPT !.waiter = TRUE, !.attempts = n, !.timer = TRUE]
    BY <1>10 DEF BeginReconnect, Rec, Fields, n
  <2>. HIDE DEF u
  <2>2. /\ u \in Rec /\ u.attempts = n
        /\ u.connection = session.connection
        /\ u.listed = session.listed /\ u.sheets = q /\ u.freed = session.freed
        /\ u.late = session.late /\ u.window = session.window
    BY <1>9, <1>10, <2>1 DEF Rec, Fields
  <2>3. Lateness(u) /\ Waiting(u)
    BY <1>2, <1>6, <1>8, <1>12, <2>2 DEF Lateness, Waiting
  <2>. QED BY <1>9, <1>12, <2>2, <2>3, BeginsTo DEF u
<1>. QED BY <1>1, <1>11, <1>12

LEMMA ForceReconnectOrderly == ASSUME Orderly, ForceReconnect PROVE Orderly'
<1>. DEFINE c == ConnectionProblem(session)
            n == session.attempts + 1
            u == BeginReconnect(c)
<1>1. /\ Running /\ session.connection /\ session.sheets = <<>> /\ Becomes(u)
  BY DEF ForceReconnect
<1>2. n \in Nat /\ n > session.attempts
  BY <1>1, Connected
<1>3. u = [session EXCEPT !.connection = FALSE, !.waiter = TRUE,
                          !.attempts = n, !.timer = TRUE]
  BY <1>1, Connected DEF ConnectionProblem, BeginReconnect, Rec, Fields
<1>. HIDE DEF u, n
<1>4. /\ u \in Rec /\ u.attempts = n /\ ~u.connection
      /\ u.listed = session.listed /\ u.sheets = <<>>
      /\ u.freed = session.freed /\ u.late = session.late
      /\ u.window = session.window
  BY <1>1, <1>2, <1>3, Connected DEF Rec, Fields
<1>5. Lateness(u) /\ Waiting(u)
  BY <1>1, <1>4, Connected DEF Lateness, Waiting
<1>. QED BY <1>1, <1>2, <1>4, <1>5, BeginsTo

LEMMA WindowWillCloseOrderly == ASSUME Orderly, WindowWillClose PROVE Orderly'
<1>. DEFINE u == EndSession([session EXCEPT !.window = FALSE])
<1>1. Running /\ session.sheets = <<>> /\ ~alert /\ Becomes(u)
  BY DEF WindowWillClose
<1>2. session \in Rec /\ ~session.freed /\ session.attempts \in Nat
  BY <1>1 DEF Orderly, Lateness, Running, Rec, Fields
<1>3. /\ u \in Rec /\ u.attempts = session.attempts
      /\ u.connection = session.connection /\ ~u.window
      /\ ~u.listed /\ u.timer = session.timer
      /\ u.sheets = <<>> /\ u.freed = session.freed
  BY <1>1, <1>2 DEF EndSession, Rec, Fields
<1>. HIDE DEF u
<1>4. Lateness(u) /\ ~(u.attempts > session.attempts)
  BY <1>2, <1>3 DEF Lateness
<1>5. CASE Reconnecting
  <2>1. Waiting(u)
    BY <1>3, <1>5 DEF Waiting, Orderly
  <2>. QED BY <1>1, <1>4, <1>5, <2>1, WaitsAs
<1>6. CASE ~Reconnecting
  <2>1. Resting(u)
    BY <1>2, <1>3, <1>6, SheetQueues DEF Resting, Orderly
  <2>. QED BY <1>1, <1>2, <1>4, <1>6, <2>1, RestsAs
<1>. QED BY <1>5, <1>6

LEMMA TimerFiresOrderly == ASSUME Orderly, TimerFires PROVE Orderly'
<1>. DEFINE t == [session EXCEPT !.timer = FALSE]
            u == IF t.window THEN Ask(t, "reconnect") ELSE t
            q == IF session.window THEN <<"reconnect">> ELSE <<>>
<1>1. Running /\ session.timer /\ Becomes(u)
  BY DEF TimerFires
<1>2. session \in Rec /\ ~session.freed /\ session.attempts \in Nat
      /\ (session.late => ~session.window \/ ~canReconnect)
  BY <1>1 DEF Orderly, Lateness, Running, Rec, Fields
<1>3. Reconnecting /\ Waiting(session) /\ session.sheets = <<>> /\ ~alert
  BY <1>1 DEF Orderly, Resting, Waiting
<1>4. /\ t \in Rec /\ t.attempts = session.attempts
      /\ t.connection = session.connection /\ t.window = session.window
      /\ t.listed = session.listed /\ ~t.timer
      /\ t.sheets = <<>> /\ t.freed = session.freed /\ t.late = session.late
  BY <1>2, <1>3 DEF Rec, Fields
<1>5. q \in Queues /\ q \in {<<>>, <<"reconnect">>}
  BY DEF Queues
<1>. HIDE DEF t
<1>6. u = [t EXCEPT !.sheets = q]
  <2>1. CASE t.window
    BY <1>4, <2>1, SheetQueues DEF Ask, Rec, Fields, Sheets
  <2>2. CASE ~t.window
    BY <1>4, <2>2 DEF Rec, Fields
  <2>. QED BY <2>1, <2>2
<1>. HIDE DEF u, q
<1>7. /\ u \in Rec /\ u.attempts = session.attempts
      /\ u.connection = session.connection /\ u.window = session.window
      /\ u.listed = session.listed /\ ~u.timer
      /\ u.sheets = q /\ u.freed = session.freed /\ u.late = session.late
  BY <1>4, <1>5, <1>6 DEF Rec, Fields
<1>8. Lateness(u) /\ ~(u.attempts > session.attempts) /\ Waiting(u)
  BY <1>2, <1>3, <1>5, <1>7 DEF Lateness, Waiting
<1>. QED BY <1>1, <1>3, <1>8, WaitsAs DEF u, t

LEMMA ReconnectCancelledOrderly == ASSUME Orderly, ReconnectCancelled PROVE Orderly'
<1>. DEFINE e == EndSheet(session, "reconnect")
            u == EndSession([e EXCEPT !.waiter = FALSE])
<1>1. /\ Running /\ session.sheets # <<>> /\ Head(session.sheets) = "reconnect"
      /\ Cancel /\ session' = u /\ canReconnect' = canReconnect
  BY DEF ReconnectCancelled
<1>2. session \in Rec /\ ~session.freed
      /\ (session.late => ~session.window \/ ~canReconnect)
  BY <1>1 DEF Orderly, Lateness, Running
<1>3. session.sheets = <<"reconnect">>
  <2>1. session.sheets \in Queues
    BY <1>2 DEF Rec, Fields
  <2>. QED BY <1>1, <2>1, SheetQueues DEF Queues, Sheets
<1>4. Reconnecting /\ Waiting(session) /\ ~alert /\ ~session.timer
  BY <1>3, SheetQueues DEF Orderly, Resting, Waiting
<1>5. e = [session EXCEPT !.sheets = <<>>]
  BY <1>2, <1>3, EndSheetIs DEF Sheets
<1>. HIDE DEF e
<1>. <<>> \in Queues
  BY DEF Queues
<1>6. /\ u \in Rec /\ ~u.connection /\ ~u.listed /\ ~u.timer
      /\ u.window = session.window /\ u.late = session.late
      /\ u.sheets = <<>> /\ u.freed = session.freed
  <2>1. u = [[e EXCEPT !.waiter = FALSE] EXCEPT !.listed = FALSE]
    BY DEF EndSession
  <2>. HIDE DEF u
  <2>. QED BY <1>2, <1>4, <1>5, <2>1 DEF Rec, Fields, Waiting
<1>. HIDE DEF u
<1>7. Lateness(u) /\ Resting(u)
  BY <1>2, <1>6, SheetQueues DEF Lateness, Resting
<1>8. ~Reconnecting' /\ ~alert'
  BY <1>1, <1>4 DEF Cancel, Reconnecting
<1>. QED BY <1>1, <1>7, <1>8 DEF Orderly, Lateness, Resting

LEMMA DeallocOrderly == ASSUME Orderly, Heard, Dealloc PROVE Orderly'
<1>1. session \in Rec /\ (session.late => ~session.window \/ ~canReconnect)
  BY DEF Orderly, Lateness
<1>2. ~session.listed /\ ~session.timer /\ session.sheets = <<>>
  BY DEF Dealloc, Settled, Retained
<1>3. /\ session' = [session EXCEPT !.freed = TRUE, !.connection = FALSE,
                                    !.waiter = FALSE]
      /\ canReconnect' = canReconnect
  BY DEF Dealloc
<1>4. /\ session' \in Rec /\ session'.freed /\ ~session'.connection
      /\ ~session'.listed /\ ~session'.timer /\ session'.sheets = <<>>
      /\ session'.late = session.late /\ session'.window = session.window
  BY <1>1, <1>2, <1>3 DEF Rec, Fields
<1>5. ~Reconnecting'
  BY DEF Dealloc, Cancel, Heard, Reconnecting, vars
<1>. QED
  BY <1>1, <1>3, <1>4, <1>5, SheetQueues DEF Orderly, Lateness, Resting

-----------------------------------------------------------------------------
(* The waiter, which tells the session what has become of the attempt.     *)

LEMMA WaiterRunsOrderly == ASSUME Orderly, WaiterRuns PROVE Orderly'
<1>1. UNCHANGED <<session, canReconnect, delegate, told, alert>>
  BY DEF WaiterRuns, ThreadStep, LookUp, OpenSocket, PublishSocket, Connect,
         ConnectFailed, CloseProbe, ForgetProbe, WaitForData, Resolved,
         OthersOpen, OthersClose, main
<1>. QED BY <1>1 DEF Orderly, Lateness, Waiting, Resting, Reconnecting

\* The four things the waiter may do on the main thread: find that nobody
\* listens, show an error, hand over a connection, end with the error.
LEMMA WaiterSays ==
    ASSUME IInv, WaiterTells
    PROVE  /\ UNCHANGED <<delegate, canReconnect>> /\ told = <<>>
           /\ \/ /\ ~delegate /\ told' = told /\ (alert' => alert)
                 /\ session' = session
              \/ /\ delegate /\ ~alert /\ alert' /\ told' = told
                 /\ session' = WaitIsOver(session)
              \/ /\ delegate /\ ~alert /\ ~alert' /\ told' = <<"succeeded">>
                 /\ session' = ConnectionSucceeded(session)
              \/ /\ delegate /\ alert /\ ~alert' /\ told' = <<"failed">>
                 /\ session' = EndSession(session)
<1>1. delegate \in BOOLEAN /\ alert \in BOOLEAN
  BY DEF IInv, TypeOK
<1>2. UNCHANGED <<delegate, canReconnect>>
  BY DEF WaiterTells, DidNotResolve, MainPerforms, ErrorDidEnd
<1>3. told = <<>>
  BY DEF WaiterTells, DidNotResolve, MainPerforms, ErrorDidEnd, IInv, Phases
<1>4. /\ <<"succeeded">> # <<>> /\ <<"failed">> # <<>>
      /\ <<"succeeded">> # <<"failed">>
      /\ Append(<<>>, "succeeded") = <<"succeeded">>
      /\ Append(<<>>, "failed") = <<"failed">>
  OBVIOUS
<1>5. \/ told' = told /\ ~alert /\ alert' = delegate
      \/ told' = told /\ ~delegate /\ (alert' => alert)
      \/ /\ delegate /\ ~alert /\ ~alert' /\ told' = <<"succeeded">>
      \/ /\ delegate /\ alert /\ ~alert' /\ told' = <<"failed">>
  <2>1. CASE DidNotResolve
    BY <2>1, <1>1 DEF DidNotResolve, ShowError, IInv, Phases
  <2>2. CASE MainPerforms
    <3>1. ~alert
      BY <2>2 DEF MainPerforms, IInv, Phases
    <3>2. CASE Head(mainQueue) = "finishConnection"
      BY <2>2, <3>1, <3>2, <1>3, <1>4 DEF MainPerforms, FinishConnection
    <3>3. CASE Head(mainQueue) # "finishConnection"
      BY <2>2, <3>1, <3>3, <1>1 DEF MainPerforms, ShowError
    <3>. QED BY <3>2, <3>3
  <2>3. CASE ErrorDidEnd
    BY <2>3, <1>3, <1>4 DEF ErrorDidEnd
  <2>. QED BY <2>1, <2>2, <2>3 DEF WaiterTells
<1>6. Hears
  BY DEF WaiterTells
<1>7. told' = told /\ (alert' /\ ~alert) => session' = WaitIsOver(session)
  BY <1>6 DEF Hears, ConnectionPrepareForSheet
<1>8. told' = told /\ ~(alert' /\ ~alert) => session' = session
  BY <1>6 DEF Hears
<1>9. ASSUME told' = <<"succeeded">>, ~alert' PROVE session' = ConnectionSucceeded(session)
  <2>1. told' # told
    BY <1>3, <1>4, <1>9
  <2>. QED BY <1>4, <1>6, <1>9, <2>1 DEF Hears
<1>10. ASSUME told' = <<"failed">>, ~alert' PROVE session' = EndSession(session)
  <2>1. told' # told /\ told' # <<"succeeded">>
    BY <1>3, <1>4, <1>10
  <2>. QED BY <1>6, <1>10, <2>1 DEF Hears, ConnectionFailed
<1>. QED
  BY <1>2, <1>3, <1>5, <1>7, <1>8, <1>9, <1>10

\* The end of the wait takes the sheet and the timer with it, and a session in
\* no list is on its own then.
LEMMA WaitIsOverIs ==
    ASSUME NEW s \in Rec, Waiting(s), NEW u, u = WaitIsOver(s)
    PROVE  u = [s EXCEPT !.sheets = <<>>, !.timer = FALSE, !.late = ~s.listed]
<1>. DEFINE e == EndSheet(s, "reconnect")
            t == [e EXCEPT !.timer = FALSE]
<1>1. e = [s EXCEPT !.sheets = <<>>]
  <2>1. s.sheets = <<>> \/ s.sheets = <<"reconnect">>
    BY DEF Waiting
  <2>2. s.sheets = <<>> => s = [s EXCEPT !.sheets = <<>>]
    BY DEF Rec, Fields
  <2>. QED BY <2>1, <2>2, EndSheetIs DEF Sheets
<1>2. u = [t EXCEPT !.late = ~Retained(t)]
  BY DEF WaitIsOver
<1>. HIDE DEF e
<1>3. t = [s EXCEPT !.sheets = <<>>, !.timer = FALSE]
  BY <1>1 DEF Rec, Fields
<1>. HIDE DEF t
<1>4. ~t.timer /\ t.sheets = <<>> /\ t.listed = s.listed
  BY <1>3 DEF Rec, Fields
<1>5. Retained(t) = s.listed
  <2>1. s.listed \in BOOLEAN
    BY DEF Rec, Fields
  <2>. QED BY <1>4, <2>1 DEF Retained
<1>. QED BY <1>2, <1>3, <1>5 DEF Rec, Fields

LEMMA WaiterTellsOrderly == ASSUME Orderly, IInv, WaiterTells PROVE Orderly'
<1>1. /\ session \in Rec /\ (session.late => ~session.window \/ ~canReconnect)
      /\ canReconnect' = canReconnect /\ delegate' = delegate /\ told = <<>>
  BY WaiterSays DEF Orderly, Lateness
<1>. <<>> \in Queues
  BY DEF Queues
<1>2. delegate => Waiting(session) /\ (alert => ~session.timer /\ session.sheets = <<>>)
  BY <1>1 DEF Orderly, Reconnecting
<1>3. CASE ~delegate /\ session' = session /\ (alert' => alert)
  <2>1. ~Reconnecting /\ ~Reconnecting'
    BY <1>1, <1>3 DEF Reconnecting
  <2>. QED BY <1>1, <1>3, <2>1 DEF Orderly, Lateness, Resting
<1>. DEFINE w == WaitIsOver(session)
            l == ~session.listed
<1>4. ASSUME delegate
      PROVE  /\ w \in Rec /\ ~w.timer /\ w.sheets = <<>> /\ ~w.connection
             /\ ~w.freed /\ w.listed = session.listed /\ w.window = session.window
             /\ w.late => ~w.listed
  <2>1. w = [session EXCEPT !.sheets = <<>>, !.timer = FALSE, !.late = l]
    BY <1>1, <1>2, <1>4, WaitIsOverIs
  <2>2. l \in BOOLEAN /\ (l => ~session.listed)
    OBVIOUS
  <2>. HIDE DEF w, l
  <2>. QED BY <1>1, <1>2, <1>4, <2>1, <2>2 DEF Rec, Fields, Waiting
<1>. HIDE DEF w
<1>5. CASE delegate /\ alert' /\ told' = told /\ session' = w
  <2>1. Reconnecting'
    BY <1>1, <1>5 DEF Reconnecting
  <2>2. Lateness(w) /\ Waiting(w)
    BY <1>2, <1>4, <1>5 DEF Lateness, Waiting
  <2>. QED BY <1>1, <1>4, <1>5, <2>1, <2>2 DEF Orderly, Lateness, Waiting
<1>6. CASE delegate /\ ~alert' /\ told' = <<"succeeded">>
           /\ session' = ConnectionSucceeded(session)
  <2>. DEFINE u == [w EXCEPT !.connection = TRUE, !.waiter = FALSE]
  <2>1. session' = u
    BY <1>6 DEF ConnectionSucceeded, w
  <2>2. /\ u \in Rec /\ ~u.timer /\ u.sheets = <<>> /\ u.connection /\ ~u.freed
        /\ u.listed = session.listed /\ u.window = session.window
        /\ u.late => ~u.listed
    BY <1>4, <1>6 DEF Rec, Fields
  <2>. HIDE DEF u
  <2>3. Lateness(u) /\ Resting(u)
    BY <1>2, <1>6, <2>2, SheetQueues DEF Lateness, Waiting, Resting
  <2>4. ~Reconnecting'
    BY <1>6 DEF Reconnecting
  <2>. QED BY <1>1, <1>6, <2>1, <2>3, <2>4 DEF Orderly, Lateness, Resting
<1>7. CASE delegate /\ alert /\ ~alert' /\ told' = <<"failed">>
           /\ session' = EndSession(session)
  <2>. DEFINE u == EndSession(session)
  <2>1. /\ u \in Rec /\ ~u.listed /\ u.timer = session.timer
        /\ u.sheets = session.sheets /\ u.connection = session.connection
        /\ u.freed = session.freed /\ u.late = session.late
        /\ u.window = session.window
    BY <1>1 DEF EndSession, Rec, Fields
  <2>2. session' = u
    BY <1>7
  <2>. HIDE DEF u
  <2>3. Lateness(u) /\ Resting(u)
    BY <1>1, <1>2, <1>7, <2>1, SheetQueues DEF Lateness, Waiting, Resting
  <2>4. ~Reconnecting'
    BY <1>7 DEF Reconnecting
  <2>. QED BY <1>1, <1>7, <2>2, <2>3, <2>4 DEF Orderly, Lateness, Resting
<1>. QED BY <1>3, <1>5, <1>6, <1>7, WaiterSays DEF w

-----------------------------------------------------------------------------
LEMMA OrderlyInit == SessionInit => Orderly
<1>. SUFFICES ASSUME SessionInit PROVE Orderly
  OBVIOUS
<1>1. <<>> \in Queues /\ 0 \in Nat
  BY DEF Queues
<1>2. /\ session \in Rec /\ session.connection /\ session.listed /\ ~session.timer
      /\ session.sheets = <<>> /\ ~session.freed /\ ~session.late
  BY <1>1 DEF SessionInit, Rec, Fields
<1>3. ~Reconnecting /\ ~alert
  BY DEF SessionInit, Init, Reconnecting
<1>. QED BY <1>2, <1>3, SheetQueues DEF Orderly, Lateness, Resting

LEMMA OrderlySteps == Orderly /\ Heard /\ IInv /\ [SessionNext]_sessionVars => Orderly'
<1>. SUFFICES ASSUME Orderly, Heard, IInv, [SessionNext]_sessionVars PROVE Orderly'
  OBVIOUS
<1>1. CASE UNCHANGED sessionVars
  BY <1>1 DEF sessionVars, vars, Orderly, Lateness, Waiting, Resting, Reconnecting
<1>2. CASE ConnectionEnds \/ AuthenticationFails \/ PromptForPassword
  BY <1>2, ConnectionEndsOrderly, AuthenticationFailsOrderly, PromptForPasswordOrderly
<1>3. CASE PasswordEntered
  BY <1>3, PasswordGivenOrderly, PasswordToReconnectOrderly
<1>4. CASE PasswordCancelled \/ QuestionAnswered \/ ForceReconnect
  BY <1>4, PasswordCancelledOrderly, QuestionAnsweredOrderly, ForceReconnectOrderly
<1>5. CASE WindowWillClose \/ TimerFires
  BY <1>5, WindowWillCloseOrderly, TimerFiresOrderly
<1>6. CASE ReconnectCancelled \/ Dealloc
  BY <1>6, ReconnectCancelledOrderly, DeallocOrderly
<1>7. CASE WaiterRuns \/ WaiterTells
  BY <1>7, WaiterRunsOrderly, WaiterTellsOrderly
<1>. QED
  BY <1>1, <1>2, <1>3, <1>4, <1>5, <1>6, <1>7 DEF SessionNext

LEMMA OrderlyAlways == SessionSpec => [](Orderly /\ Heard)
<1>1. SessionSpec => []IInv
  BY SessionWaits, Invariance, PTL
<1>. QED BY <1>1, HeardInit, HeardSteps, OrderlyInit, OrderlySteps, PTL DEF SessionSpec

\* A session in the list that has lost its connection, and did hear of it, is
\* never left without an attempt, an error on the screen or a sheet, whatever
\* the order of ends, sheets, timer and attempts.
THEOREM NeverAbandonedAlways == SessionSpec => []NeverAbandoned
<1>1. Orderly => NeverAbandoned
  BY DEF Orderly, Resting, NeverAbandoned
<1>. QED BY <1>1, OrderlyAlways, PTL

\* The timer and the sheet of a reconnection never outlive the attempt, nor do
\* they stand beside a connection or an error.
THEOREM WaitsAlways == SessionSpec => []WaitsOnlyForAttempts
<1>1. Orderly => WaitsOnlyForAttempts
  <2>. SUFFICES ASSUME Orderly,
                       session.timer \/ \E i \in DOMAIN session.sheets :
                                            session.sheets[i] = "reconnect"
                PROVE  /\ Reconnecting /\ ~alert /\ ~session.connection
                       /\ canReconnect => Len(session.sheets) <= 1
    BY DEF WaitsOnlyForAttempts
  <2>1. session.sheets \in Queues
    BY DEF Orderly, Lateness, Rec, Fields
  <2>2. session.timer \/ session.sheets = <<"reconnect">>
    <3>1. \A x : <<x>>[1] = x /\ DOMAIN <<x>> = {1}
      OBVIOUS
    <3>2. DOMAIN <<>> = {}
      OBVIOUS
    <3>3. /\ DOMAIN <<"question", "password">> = {1, 2}
          /\ <<"question", "password">>[1] = "question"
          /\ <<"question", "password">>[2] = "password"
      OBVIOUS
    <3>. QED BY <2>1, <3>1, <3>2, <3>3 DEF Queues
  <2>3. Reconnecting /\ Waiting(session) /\ ~alert
    BY <2>2, SheetQueues DEF Orderly, Resting
  <2>4. Len(<<>>) <= 1 /\ Len(<<"reconnect">>) <= 1
    OBVIOUS
  <2>. QED BY <2>3, <2>4 DEF Waiting
<1>. QED BY <1>1, OrderlyAlways, PTL

\* The waiter never calls a session that has been deallocated, nor one that only
\* its timer kept, unless the window was closed before the timer fired.
THEOREM NoLateCallsEver == SessionSpec => []NoLateCalls
<1>1. Orderly /\ Heard => NoLateCalls
  BY DEF Orderly, Lateness, Heard, NoLateCalls
<1>. QED BY <1>1, OrderlyAlways, PTL

-----------------------------------------------------------------------------
(* The listener, which makes sessions of connections that servers open:    *)
(* for every number of them and every profile, each open connection has    *)
(* one owner, and when the listener has stopped the timer that closes      *)
(* those left over is running.                                             *)

\* While the listener is off nothing accepted is waiting to be reported, and
\* connections that say nothing are only kept until closeTimer fires.
ListenerQuiet ==
    ~listening => /\ \A p \in Peers : socket[p] # "accepted"
                  /\ fileHandles # {} => closeTimer

\* OneOwner needs the types; ListenerQuiet says of a stopped listener that
\* connectionReceived: has nothing left to add behind the timer's back.
ListenerInv == ListenerTypeOK /\ OneOwner /\ ListenerQuiet

\* init and windowDidLoad: no socket, no connection, no timer.
LEMMA ListenerInitInv == ListenerInit => ListenerInv
  <1> SUFFICES ASSUME ListenerInit PROVE ListenerInv
    OBVIOUS
  <1>1. DOMAIN sessions = {}
    BY DEF ListenerInit
  <1>2. ListenerTypeOK
    BY <1>1 DEF ListenerInit, ListenerTypeOK, PeerSockets, Says
  <1>3. OneOwner
    BY <1>1 DEF ListenerInit, OneOwner
  <1>4. ListenerQuiet
    BY DEF ListenerInit, ListenerQuiet
  <1> QED
    BY <1>2, <1>3, <1>4 DEF ListenerInv

\* actionPressed:, to start: the connections left over are closed first.
LEMMA ListenerStartInv ==
    ASSUME ListenerInv, NEW profile \in Profiles, NEW bound \in BOOLEAN,
           Start(profile, bound)
    PROVE  ListenerInv'
  <1> USE DEF Start, CloseLingering, CloseAll, SetStatus
  <1>1. ListenerTypeOK'
    BY DEF ListenerInv, ListenerTypeOK, PeerSockets
  <1>2. OneOwner'
    BY DEF ListenerInv, ListenerTypeOK, OneOwner, PeerSockets
  <1>3. ListenerQuiet'
    BY DEF ListenerInv, ListenerTypeOK, ListenerQuiet, PeerSockets
  <1> QED
    BY <1>1, <1>2, <1>3 DEF ListenerInv

\* actionPressed:, to stop: nothing is left over.
LEMMA ListenerStopInv == ASSUME ListenerInv, Stop PROVE ListenerInv'
  <1> USE DEF Stop, CloseLingering, CloseAll, StopListening, StopListener, SetStatus
  <1>1. ListenerTypeOK'
    BY DEF ListenerInv, ListenerTypeOK, PeerSockets
  <1>2. OneOwner'
    BY DEF ListenerInv, ListenerTypeOK, OneOwner, PeerSockets
  <1>3. ListenerQuiet'
    BY DEF ListenerInv, ListenerTypeOK, ListenerQuiet, PeerSockets
  <1> QED
    BY <1>1, <1>2, <1>3 DEF ListenerInv

\* The background accept and connectionReceived:.
LEMMA ListenerAcceptInv ==
    ASSUME ListenerInv, NEW p \in Peers, Accept(p) \/ ConnectionReceived(p)
    PROVE  ListenerInv'
  <1> USE DEF Accept, ConnectionReceived, SetStatus
  <1>1. ListenerTypeOK'
    BY DEF ListenerInv, ListenerTypeOK, PeerSockets
  <1>2. OneOwner'
    BY DEF ListenerInv, ListenerTypeOK, OneOwner, PeerSockets
  <1>3. ListenerQuiet'
    BY DEF ListenerInv, ListenerTypeOK, ListenerQuiet, PeerSockets
  <1> QED
    BY <1>1, <1>2, <1>3 DEF ListenerInv

\* dataReceived:, of a connection that has been closed.
LEMMA ListenerHungUpInv == ASSUME ListenerInv, NEW p \in Peers, HungUp(p) PROVE ListenerInv'
  <1> USE DEF HungUp
  <1>1. ListenerTypeOK'
    BY DEF ListenerInv, ListenerTypeOK, PeerSockets
  <1>2. OneOwner'
    BY DEF ListenerInv, ListenerTypeOK, OneOwner, PeerSockets
  <1>3. ListenerQuiet'
    BY DEF ListenerInv, ListenerTypeOK, ListenerQuiet, PeerSockets
  <1> QED
    BY <1>1, <1>2, <1>3 DEF ListenerInv

\* dataReceived:, of a server: the connection changes its owner, and the timer
\* for the others runs before the handler returns.
LEMMA ListenerDataReceivedInv == ASSUME ListenerInv, NEW p \in Peers, DataReceived(p) PROVE ListenerInv'
  <1>1. DOMAIN sessions' = DOMAIN sessions \cup {p}
    BY DEF DataReceived
  <1>2. \A q \in DOMAIN sessions' : sessions'[q] \in Profiles \cup {NoProfile}
    BY <1>1 DEF DataReceived, ListenerInv, ListenerTypeOK
  <1> USE DEF DataReceived, StopListener, StopListening, SetStatus
  <1>3. ListenerTypeOK'
    BY <1>1, <1>2 DEF ListenerInv, ListenerTypeOK, PeerSockets
  <1>4. OneOwner'
    <2>1. \A q \in Peers : socket'[q] = "open" <=> socket[q] = "open"
      BY DEF ListenerInv, ListenerTypeOK, PeerSockets
    <2>2. fileHandles' \cup DOMAIN sessions' = fileHandles \cup DOMAIN sessions
      BY <1>1
    <2>3. fileHandles' \cap DOMAIN sessions' = {}
      BY <1>1 DEF ListenerInv, OneOwner
    <2> QED
      BY <2>1, <2>2, <2>3 DEF ListenerInv, OneOwner
  <1>5. ListenerQuiet'
    BY DEF ListenerInv, ListenerTypeOK, ListenerQuiet, PeerSockets
  <1> QED
    BY <1>3, <1>4, <1>5 DEF ListenerInv

\* The two timers, and what the other end does.
LEMMA ListenerOtherInv ==
    ASSUME ListenerInv,
           Linger \/ ClearError
           \/ \E p \in Peers, what \in Says : PeerActs(p, what)
    PROVE  ListenerInv'
  <1>1. CASE Linger
    <2> USE <1>1 DEF Linger, CloseLingering, CloseAll
    <2>1. ListenerTypeOK'
      BY DEF ListenerInv, ListenerTypeOK, PeerSockets
    <2>2. OneOwner'
      BY DEF ListenerInv, ListenerTypeOK, OneOwner, PeerSockets
    <2>3. ListenerQuiet'
      BY DEF ListenerInv, ListenerTypeOK, ListenerQuiet, PeerSockets
    <2> QED
      BY <2>1, <2>2, <2>3 DEF ListenerInv
  <1>2. CASE ClearError
    BY <1>2 DEF ClearError, SetStatus, ListenerInv, ListenerTypeOK, OneOwner, ListenerQuiet
  <1>3. CASE \E p \in Peers, what \in Says : PeerActs(p, what)
    BY <1>3 DEF PeerActs, ListenerInv, ListenerTypeOK, OneOwner, ListenerQuiet, Says
  <1> QED
    BY <1>1, <1>2, <1>3

\* A session ends and closes its connection.
LEMMA ListenerSessionEndsInv == ASSUME ListenerInv, NEW p \in Peers, SessionEnds(p) PROVE ListenerInv'
  <1>1. DOMAIN sessions' = DOMAIN sessions \ {p}
    BY DEF SessionEnds
  <1>2. \A q \in DOMAIN sessions' : sessions'[q] \in Profiles \cup {NoProfile}
    BY <1>1 DEF SessionEnds, ListenerInv, ListenerTypeOK
  <1> USE DEF SessionEnds
  <1>3. ListenerTypeOK'
    BY <1>1, <1>2 DEF ListenerInv, ListenerTypeOK, PeerSockets
  <1>4. OneOwner'
    BY <1>1 DEF ListenerInv, ListenerTypeOK, OneOwner, PeerSockets
  <1>5. ListenerQuiet'
    BY DEF ListenerInv, ListenerTypeOK, ListenerQuiet, PeerSockets
  <1> QED
    BY <1>3, <1>4, <1>5 DEF ListenerInv

\* Every handler keeps the invariant.
THEOREM ListenerInvariance == ListenerSpec => []ListenerInv
  <1>1. ListenerInv /\ [ListenerNext]_listenerVars => ListenerInv'
    <2> SUFFICES ASSUME ListenerInv, [ListenerNext]_listenerVars PROVE ListenerInv'
      OBVIOUS
    <2>1. ASSUME NEW profile \in Profiles, NEW bound \in BOOLEAN,
                 Start(profile, bound)
          PROVE  ListenerInv'
      BY <2>1, ListenerStartInv
    <2>2. CASE Stop
      BY <2>2, ListenerStopInv
    <2>3. CASE \/ Linger \/ ClearError
               \/ \E p \in Peers, what \in Says : PeerActs(p, what)
      BY <2>3, ListenerOtherInv
    <2>4. ASSUME NEW p \in Peers, Accept(p) \/ ConnectionReceived(p) PROVE ListenerInv'
      BY <2>4, ListenerAcceptInv
    <2>5. ASSUME NEW p \in Peers, HungUp(p) PROVE ListenerInv'
      BY <2>5, ListenerHungUpInv
    <2>6. ASSUME NEW p \in Peers, DataReceived(p) PROVE ListenerInv'
      BY <2>6, ListenerDataReceivedInv
    <2>7. ASSUME NEW p \in Peers, SessionEnds(p) PROVE ListenerInv'
      BY <2>7, ListenerSessionEndsInv
    <2>8. CASE UNCHANGED listenerVars
      BY <2>8 DEF listenerVars, ListenerInv, ListenerTypeOK, OneOwner, ListenerQuiet
    <2> QED
      BY <2>1, <2>2, <2>3, <2>4, <2>5, <2>6, <2>7, <2>8 DEF ListenerNext
  <1> QED
    BY ListenerInitInv, <1>1, PTL DEF ListenerSpec

\* The fields of ListenerController always have their types.
THEOREM ListenerTypeCorrect == ListenerSpec => []ListenerTypeOK
  <1>1. ListenerInv => ListenerTypeOK
    BY DEF ListenerInv
  <1> QED
    BY ListenerInvariance, <1>1, PTL

\* Whatever the number of connections: each that is open belongs to the
\* listener or to a session, never to both and never to none.
THEOREM OneOwnerAlways == ListenerSpec => []OneOwner
  <1>1. ListenerInv => OneOwner
    BY DEF ListenerInv
  <1> QED
    BY ListenerInvariance, <1>1, PTL

\* The safety part of LingeringEnds: a listener that is off and still has
\* connections has a timer to close them.
THEOREM TimerForLingering ==
    ListenerSpec => [](~listening /\ fileHandles # {} => closeTimer)
  <1>1. ListenerInv => (~listening /\ fileHandles # {} => closeTimer)
    BY DEF ListenerInv, ListenerQuiet
  <1> QED
    BY ListenerInvariance, <1>1, PTL
=============================================================================
