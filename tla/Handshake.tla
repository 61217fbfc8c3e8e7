----------------------------- MODULE Handshake -----------------------------
(***************************************************************************)
(* The handshake of an RFB connection, from the version of the server to   *)
(* the start of the session: RFBConnection (the current reader, writing,   *)
(* termination), RFBHandshaker, and what Session does when it is asked for *)
(* a password or told of a failure.  At the other end of the socket is an  *)
(* RFB server, modelled from what the handshaker expects of it.            *)
(*                                                                         *)
(* All of the client runs on the main thread.  What interleaves are the    *)
(* arrival of data, the user in the password sheet, the events of a window *)
(* that is already on the screen (when the session is reconnecting), and   *)
(* the server, which may close the connection at any time.                 *)
(*                                                                         *)
(* A message stands for the bytes a reader is set to read, whole: a reader *)
(* that has received only a part of them changes nothing but itself.       *)
(***************************************************************************)
EXTENDS Integers, Sequences

CONSTANTS
    Versions,      \* versions servers announce, <<major, minor>>
    Offers,        \* the lists of security types servers offer
    Sessions,      \* sessions that connect, see Session
    MaxQueue       \* bound of the model: messages on their way to the server

\* A session may have its window on the screen from an earlier connection, and
\* may be able to connect to the server again, [server_ doYouSupport:CONNECT].
Session == [reconnecting : BOOLEAN, canReconnect : BOOLEAN]

NotVNC == <<>>
NoAuth == 1
VncAuth == 2
ArdAuth == 30
Unusable == 0

ASSUME HandshakeAssumption ==
    /\ \A v \in Versions : v = NotVNC \/ v \in Nat \X Nat
    /\ \A o \in Offers : o \in Seq(1 .. 255) /\ o # <<>>
    /\ Sessions \subseteq Session
    /\ MaxQueue \in Nat \ {0}

\* A message, in either direction; arg is a sequence of numbers.
Msg(k, a) == [kind |-> k, arg |-> a]

\* What a window, or a session that has started, writes.
SessionMessages == {"setup", "request", "cutText", "key", "desktopSize"}

VARIABLES
    owner,      \* the session
    conn,       \* the client: see Connection
    toServer,   \* bytes written and not yet read by the server
    toClient,   \* bytes sent and not yet read by the client
    server,     \* what the server waits for: see ServerPhases
    open        \* the server has not closed the socket

vars == <<owner, conn, toServer, toClient, server, open>>

\* What currentReader reads; "type" is the reader of the types of messages,
\* set once the session has started.
Readers == {"version", "authCount", "authArray", "authType", "challenge",
            "ardGenerator", "ardKeySize", "ardPrime", "ardPeerKey",
            "authResult", "reasonLength", "reason", "serverInit",
            "nameLength", "name", "type", "nil"}

Message ==
    [kind : Readers \cup {"choice", "response", "ardResponse", "clientInit"}
                    \cup SessionMessages,
     arg : Seq(Nat)]

ServerPhases == {"hello", "version", "choice", "response", "ardResponse",
                 "clientInit", "running", "done", "confused"}

Connection ==
    [reader : Readers,
     minor : 0 .. 8,               \* protocolMinorVersion, 0 before it is known
     username : BOOLEAN, password : BOOLEAN,         \* # nil
     handshaker : BOOLEAN,         \* # nil
     waiting : {"no", "challenge", "ard"},   \* vncAuthChallenge # nil,
                                             \* waitingForArdCredentials
     ardPeerKey : BOOLEAN,
     triedPassword : BOOLEAN,
     resizable : BOOLEAN,          \* _serverSupportsSetDesktopSize
     apple : BOOLEAN,
     session : BOOLEAN,            \* the session still has this connection
     sheet : BOOLEAN,              \* the password sheet is visible
     handled : BOOLEAN,            \* the session told the user that the
                                   \* connection ended, or began to reconnect
     stopped : BOOLEAN,            \* terminateConnection has been called
     visible : BOOLEAN,            \* the window is on the screen
     wrote : {<<>>}]               \* messages written by the current step
-----------------------------------------------------------------------------
(***************************************************************************)
(* RFBConnection and Session, as operators on the state of the connection. *)
(* They are composed in the order of the calls of the code.                *)
(***************************************************************************)
SetReader(c, r) == [c EXCEPT !.reader = r]

\* Session connectionProblem: the session lets go of the connection.
ConnectionProblem(c) == [c EXCEPT !.session = FALSE]

(* The operators whose names end in _Wrong are plausible mistakes in the   *)
(* definition that follows them; they are not part of the model.           *)

\* Waits for the password sheet even if it cannot reconnect afterwards.
SessionTerminate_Wrong(c) ==
    IF ~c.session THEN c
    ELSE IF c.sheet THEN ConnectionProblem(c)
         ELSE [ConnectionProblem(c) EXCEPT !.handled = TRUE]

\* Session terminateConnection.
SessionTerminate(c) ==
    IF ~c.session THEN c
    ELSE IF c.sheet /\ owner.canReconnect
         THEN ConnectionProblem(c)
         ELSE [ConnectionProblem(c) EXCEPT !.sheet = FALSE, !.handled = TRUE]

\* RFBConnection terminateConnection.
Terminate(c) == SessionTerminate([SetReader(c, "nil") EXCEPT !.stopped = TRUE])

\* Session authenticationFailed; it goes on after terminateConnection.
AuthenticationFailed(c) ==
    IF ~c.session THEN c
    ELSE LET told == IF owner.canReconnect THEN c ELSE SessionTerminate(c)
         IN  [ConnectionProblem(told) EXCEPT !.sheet = TRUE]

PromptForPassword(c) == IF c.session THEN [c EXCEPT !.sheet = TRUE] ELSE c

Write(c, m) == IF open THEN [c EXCEPT !.wrote = Append(@, m)] ELSE Terminate(c)
-----------------------------------------------------------------------------
(***************************************************************************)
(* RFBHandshaker: one operator per method.                                 *)
(***************************************************************************)
MinOf(a, b) == IF a < b THEN a ELSE b

\* The version of the protocol that the client uses with a server.
ProtocolMinor(v) ==
    IF v[1] > 3 THEN 8
    ELSE IF v[2] = 889 THEN 8
    ELSE MinOf(8, v[2])

SendClientInit(c) == SetReader(Write(c, Msg("clientInit", <<>>)), "serverInit")

\* The comparison with 7 is strict.
SetServerVersion_Wrong(c, v) ==
    IF v = NotVNC
    THEN SessionTerminate(c)
    ELSE LET minor == ProtocolMinor(v)
             known == [c EXCEPT !.minor = minor, !.handshaker = TRUE]
         IN  SetReader(Write(known, Msg("version", <<minor>>)),
                       IF minor > 7 THEN "authCount" ELSE "authType")

\* The handshaker, which sends the version, is created here.
SetServerVersion(c, v) ==
    IF v = NotVNC
    THEN SessionTerminate(c)
    ELSE LET minor == ProtocolMinor(v)
             known == [c EXCEPT !.minor = minor, !.handshaker = TRUE,
                                !.resizable = ~c.apple /\ (v[1] > 3 \/ (v[1] = 3 /\ minor = 8))]
         IN  SetReader(Write(known, Msg("version", <<minor>>)),
                       IF minor >= 7 THEN "authCount" ELSE "authType")

SetAuthCount(c, n) == SetReader(c, IF n = 0 THEN "reasonLength" ELSE "authArray")

StartArd(c) == SetReader(Write(c, Msg("choice", <<ArdAuth>>)), "ardGenerator")

\* Waits for the result that only 3.8 servers send.
ChooseNoAuth_Wrong(c) ==
    LET told == Write(c, Msg("choice", <<NoAuth>>))
    IN  IF c.minor >= 7 THEN SetReader(told, "authResult") ELSE SendClientInit(told)

\* 3.7 servers send no result for NoAuth, 3.8 servers do.
ChooseNoAuth(c) ==
    LET told == Write(c, Msg("choice", <<NoAuth>>))
    IN  IF c.minor >= 8 THEN SetReader(told, "authResult") ELSE SendClientInit(told)

ChooseArd(c) ==
    LET apple == [c EXCEPT !.apple = TRUE, !.resizable = FALSE]
    IN  IF c.username /\ c.password
        THEN StartArd(apple)
        ELSE PromptForPassword([apple EXCEPT !.waiting = "ard"])

\* The first type of the list that the client can use.
SetAuthArray(c, types) ==
    LET usable == {i \in 1 .. Len(types) : types[i] \in {NoAuth, VncAuth, ArdAuth}}
        first  == CHOOSE i \in usable : \A j \in usable : i <= j
    IN  IF usable = {} THEN Terminate(Write(c, Msg("choice", <<Unusable>>)))
        ELSE CASE types[first] = NoAuth  -> ChooseNoAuth(c)
               [] types[first] = VncAuth ->
                    SetReader(Write(c, Msg("choice", <<VncAuth>>)), "challenge")
               [] types[first] = ArdAuth -> ChooseArd(c)

\* Confirms the type to a 3.3 server, which has not asked.
SetAuthType_Wrong(c, t) ==
    CASE t = 0       -> SetReader(c, "reasonLength")
      [] t = NoAuth  -> SendClientInit(c)
      [] t = VncAuth -> SetReader(Write(c, Msg("choice", <<VncAuth>>)), "challenge")
      [] OTHER       -> Terminate(c)

SetAuthType(c, t) ==
    CASE t = 0       -> SetReader(c, "reasonLength")
      [] t = NoAuth  -> SendClientInit(c)
      [] t = VncAuth -> SetReader(c, "challenge")
      [] OTHER       -> Terminate(c)

\* The credentials go out, in the answer to a challenge or with the key of
\* the client.
SendCredentials(c, m) ==
    [SetReader(Write(c, m), "authResult") EXCEPT !.triedPassword = TRUE]

\* The challenge is not kept for the answer of the user.
Challenge_Wrong(c) ==
    IF c.password THEN SendCredentials(c, Msg("response", <<>>))
                  ELSE PromptForPassword(c)

Challenge(c) ==
    IF c.password THEN SendCredentials(c, Msg("response", <<>>))
                  ELSE [PromptForPassword(c) EXCEPT !.waiting = "challenge"]

\* Goes on after terminating the connection.
PerformArdAuth_Wrong(c, helperOK) ==
    IF ~(c.username /\ c.password)
    THEN PromptForPassword([c EXCEPT !.waiting = "ard"])
    ELSE SendCredentials(IF helperOK THEN c ELSE Terminate(c), Msg("ardResponse", <<>>))

\* helperOK: the calculation of ARDAuthHelper succeeds.
PerformArdAuth(c, helperOK) ==
    IF ~(c.username /\ c.password)
    THEN PromptForPassword([c EXCEPT !.waiting = "ard"])
    ELSE IF helperOK THEN SendCredentials(c, Msg("ardResponse", <<>>))
                     ELSE Terminate(c)

\* vncAuthChallenge is released only after the challenge has been answered.
GotPassword(c) ==
    CASE c.waiting = "challenge" -> [Challenge(c) EXCEPT !.waiting = "no"]
      [] c.waiting = "ard" ->
            LET told == [c EXCEPT !.waiting = "no"]
            IN  IF c.ardPeerKey THEN PerformArdAuth(told, TRUE) ELSE StartArd(told)
      [] OTHER -> c

Failed(c) == IF c.triedPassword THEN AuthenticationFailed(c) ELSE Terminate(c)

\* rfbVncAuthOK, rfbVncAuthFailed, rfbVncAuthTooMany, and what is none of them
SetAuthResult(c, result) ==
    CASE result = 0 -> SendClientInit(c)
      [] result = 1 /\ c.minor >= 8 -> SetReader(c, "reasonLength")
      [] result = 1 /\ c.minor < 8  -> Failed(c)
      [] result = 2 -> Terminate(c)
      [] OTHER -> Failed(c)

\* RFBConnection start, called by setServerInit: the pixel format and the
\* encodings are buffered, and flushed by the first request for an update.
Start(c, apple) ==
    LET named == [c EXCEPT !.apple = @ \/ apple,
                           !.resizable = @ /\ ~apple]
    IN  [Write(SetReader([named EXCEPT !.visible = TRUE], "type"),
               Msg("setup", <<>>)) EXCEPT !.handshaker = FALSE]
-----------------------------------------------------------------------------
Init ==
    /\ owner \in Sessions
    /\ \E username, password \in BOOLEAN :
          conn = [reader |-> "version", minor |-> 0,
                  username |-> username, password |-> password,
                  handshaker |-> FALSE, waiting |-> "no", ardPeerKey |-> FALSE,
                  triedPassword |-> FALSE, resizable |-> FALSE, apple |-> FALSE,
                  session |-> TRUE, sheet |-> FALSE, handled |-> FALSE,
                  stopped |-> FALSE, visible |-> owner.reconnecting, wrote |-> <<>>]
    /\ toServer = <<>>
    /\ toClient = <<>>
    /\ server = [phase |-> "hello", version |-> NotVNC, minor |-> 0]
    /\ open = TRUE

\* The connection changes as the code says, and what it wrote is on its way.
Becomes(c) ==
    /\ conn' = [c EXCEPT !.wrote = <<>>]
    /\ toServer' = IF open THEN toServer \o c.wrote ELSE toServer

\* The data for the current reader has arrived.
Arrived(r) == conn.reader = r /\ toClient # <<>> /\ Head(toClient).kind = r

Consume == toClient' = Tail(toClient) /\ UNCHANGED <<owner, server, open>>

Arg == Head(toClient).arg

ReadVersion ==
    /\ Arrived("version")
    /\ Becomes(SetServerVersion(conn, Arg))
    /\ Consume

ReadAuthCount ==
    /\ Arrived("authCount")
    /\ Becomes(SetAuthCount(conn, Arg[1]))
    /\ Consume

ReadAuthArray ==
    /\ Arrived("authArray")
    /\ Becomes(SetAuthArray(conn, Arg))
    /\ Consume

ReadAuthType ==
    /\ Arrived("authType")
    /\ Becomes(SetAuthType(conn, Arg[1]))
    /\ Consume

ReadChallenge ==
    /\ Arrived("challenge") /\ conn.waiting = "no"
    /\ Becomes(Challenge(conn))
    /\ Consume

ReadArdGenerator ==
    /\ Arrived("ardGenerator")
    /\ Becomes(SetReader(conn, "ardKeySize"))
    /\ Consume

ReadArdKeySize ==
    /\ Arrived("ardKeySize")
    /\ Becomes(SetReader(conn, "ardPrime"))
    /\ Consume

ReadArdPrime ==
    /\ Arrived("ardPrime")
    /\ Becomes(SetReader(conn, "ardPeerKey"))
    /\ Consume

ReadArdPeerKey ==
    /\ Arrived("ardPeerKey")
    /\ \E helperOK \in BOOLEAN :
          Becomes(PerformArdAuth([conn EXCEPT !.ardPeerKey = TRUE], helperOK))
    /\ Consume

ReadAuthResult ==
    /\ Arrived("authResult")
    /\ Becomes(SetAuthResult(conn, Arg[1]))
    /\ Consume

\* connFailed is called with the reason, at once if it is empty.
ReadReasonLength ==
    /\ Arrived("reasonLength")
    /\ Becomes(IF Arg[1] = 0 THEN Failed(conn) ELSE SetReader(conn, "reason"))
    /\ Consume

ReadReason ==
    /\ Arrived("reason")
    /\ Becomes(Failed(conn))
    /\ Consume

ReadServerInit ==
    /\ Arrived("serverInit")
    /\ Becomes(SetReader(conn, "nameLength"))
    /\ Consume

\* The name may reveal an Apple server; an empty name does not.
ReadNameLength ==
    /\ Arrived("nameLength")
    /\ Becomes(IF Arg[1] = 0 THEN Start(conn, FALSE) ELSE SetReader(conn, "name"))
    /\ Consume

ReadName ==
    /\ Arrived("name")
    /\ \E apple \in BOOLEAN : Becomes(Start(conn, apple))
    /\ Consume

\* read returns 0 or an error other than EAGAIN.
ReadEOF ==
    /\ conn.reader # "nil" /\ ~open /\ toClient = <<>>
    /\ Becomes(Terminate(conn))
    /\ UNCHANGED <<owner, toClient, server, open>>

\* Once the session has let go of the connection, it is deallocated when the
\* handler that is running returns; readData may still give what it has read
\* to a reader before that.
Deallocate ==
    /\ ~conn.session /\ conn.reader # "nil"
    /\ conn' = SetReader(conn, "nil")
    /\ UNCHANGED <<owner, toServer, toClient, server, open>>

ReadHandshake ==
    \/ ReadVersion \/ ReadAuthCount \/ ReadAuthArray \/ ReadAuthType
    \/ ReadChallenge \/ ReadArdGenerator \/ ReadArdKeySize \/ ReadArdPrime
    \/ ReadArdPeerKey \/ ReadAuthResult \/ ReadReasonLength \/ ReadReason
    \/ ReadServerInit \/ ReadNameLength \/ ReadName \/ ReadEOF
-----------------------------------------------------------------------------
(***************************************************************************)
(* The user and the window.                                                *)
(***************************************************************************)
\* reconnectWithNewPassword.  The sheet is still visible while the
\* connection is given the password.
PasswordEntered ==
    /\ conn.sheet
    /\ LET told == IF conn.session
                   THEN GotPassword([conn EXCEPT !.password = TRUE,
                                        !.username = @ \/ conn.waiting = "ard"])
                   ELSE [conn EXCEPT !.handled = TRUE]
       IN  Becomes([told EXCEPT !.sheet = FALSE])
    /\ UNCHANGED <<owner, toClient, server, open>>

\* dontReconnect
PasswordCancelled ==
    /\ conn.sheet
    /\ Becomes([ConnectionProblem(conn) EXCEPT !.sheet = FALSE, !.handled = TRUE])
    /\ UNCHANGED <<owner, toClient, server, open>>

\* A window of the session that is on the screen: its occlusion changes, it
\* becomes key, a menu sends a key, it is resized.  Only the second looks at
\* the handshaker.
WindowEvent(k) ==
    /\ conn.session /\ conn.visible
    /\ Len(toServer) < MaxQueue
    /\ k = "cutText" => ~conn.handshaker
    /\ k = "desktopSize" => conn.resizable
    /\ Becomes(Write(conn, Msg(k, <<>>)))
    /\ UNCHANGED <<owner, toClient, server, open>>
-----------------------------------------------------------------------------
(***************************************************************************)
(* The server.                                                             *)
(***************************************************************************)
Send(ms) == toClient' = toClient \o ms

NextPhase(p) == server' = [server EXCEPT !.phase = p]

ServerVersion(v) ==
    /\ server.phase = "hello" /\ open
    /\ Send(<<Msg("version", v)>>)
    /\ server' = [server EXCEPT !.phase = "version", !.version = v]
    /\ UNCHANGED <<owner, conn, toServer, open>>

Received(p, k) ==
    /\ server.phase = p /\ open /\ toServer # <<>>
    /\ Head(toServer).kind = k
    /\ toServer' = Tail(toServer)
    /\ UNCHANGED <<owner, conn, open>>

\* A reason to refuse, empty or not.
Reasons == {<<Msg("reasonLength", <<0>>)>>,
            <<Msg("reasonLength", <<1>>), Msg("reason", <<>>)>>}

\* The client has named the version it will speak: the server refuses, lets
\* it choose a security type, or (3.3) decides itself.
ServerOffers ==
    /\ Received("version", "version")
    /\ LET minor == Head(toServer).arg[1]
       IN  \/ /\ \E reason \in Reasons :
                    Send(<<IF minor >= 7 THEN Msg("authCount", <<0>>)
                                         ELSE Msg("authType", <<0>>)>> \o reason)
              /\ NextPhase("done")
           \/ /\ minor >= 7
              /\ \E offer \in Offers :
                    Send(<<Msg("authCount", <<Len(offer)>>), Msg("authArray", offer)>>)
              /\ server' = [server EXCEPT !.phase = "choice", !.minor = minor]
           \/ /\ minor < 7
              /\ Send(<<Msg("authType", <<NoAuth>>)>>)
              /\ server' = [server EXCEPT !.phase = "clientInit", !.minor = minor]
           \/ /\ minor < 7
              /\ Send(<<Msg("authType", <<VncAuth>>), Msg("challenge", <<>>)>>)
              /\ server' = [server EXCEPT !.phase = "response", !.minor = minor]

ServerGetsChoice ==
    /\ Received("choice", "choice")
    /\ LET type == Head(toServer).arg[1]
       IN  \/ /\ type = NoAuth
              /\ Send(IF server.minor >= 8 THEN <<Msg("authResult", <<0>>)>> ELSE <<>>)
              /\ NextPhase("clientInit")
           \/ /\ type = VncAuth
              /\ Send(<<Msg("challenge", <<>>)>>)
              /\ NextPhase("response")
           \/ /\ type = ArdAuth
              /\ Send(<<Msg("ardGenerator", <<>>), Msg("ardKeySize", <<>>),
                        Msg("ardPrime", <<>>), Msg("ardPeerKey", <<>>)>>)
              /\ NextPhase("ardResponse")
           \/ /\ type = Unusable
              /\ UNCHANGED toClient
              /\ NextPhase("done")

\* Right, wrong (with a reason from 3.8 on), too many attempts, or a result the
\* client does not know.
ServerJudges ==
    /\ Received("response", "response") \/ Received("ardResponse", "ardResponse")
    /\ \/ Send(<<Msg("authResult", <<0>>)>>) /\ NextPhase("clientInit")
       \/ /\ \E reason \in Reasons :
                Send(<<Msg("authResult", <<1>>)>>
                     \o (IF server.minor >= 8 THEN reason ELSE <<>>))
          /\ NextPhase("done")
       \/ \E other \in {2, 3} : Send(<<Msg("authResult", <<other>>)>>)
          /\ NextPhase("done")

ServerInits ==
    /\ Received("clientInit", "clientInit")
    /\ \E name \in {<<Msg("nameLength", <<0>>)>>,
                    <<Msg("nameLength", <<1>>), Msg("name", <<>>)>>} :
          Send(<<Msg("serverInit", <<>>)>> \o name)
    /\ NextPhase("running")

ServerRuns ==
    /\ \E k \in SessionMessages : Received("running", k)
    /\ UNCHANGED <<toClient, server>>

\* The server takes what it reads for a part of the handshake and no longer
\* speaks the same protocol as the client.
Understood ==
    CASE server.phase = "version"     -> {"version"}
      [] server.phase = "choice"      -> {"choice"}
      [] server.phase = "response"    -> {"response"}
      [] server.phase = "ardResponse" -> {"ardResponse"}
      [] server.phase = "clientInit"  -> {"clientInit"}
      [] server.phase = "running"     -> SessionMessages
      [] OTHER                        -> {}

ServerMisreads ==
    /\ open /\ toServer # <<>>
    /\ server.phase \notin {"done", "confused"}
    /\ Head(toServer).kind \notin Understood
    /\ toServer' = Tail(toServer)
    /\ NextPhase("confused")
    /\ UNCHANGED <<owner, conn, toClient, open>>

ServerCloses ==
    /\ open
    /\ open' = FALSE
    /\ toServer' = <<>>
    /\ NextPhase(IF server.phase = "confused" THEN "confused" ELSE "done")
    /\ UNCHANGED <<owner, conn, toClient>>

ServerAnswers ==
    \/ \E v \in Versions : ServerVersion(v)
    \/ ServerOffers \/ ServerGetsChoice \/ ServerJudges \/ ServerInits
    \/ ServerRuns \/ ServerMisreads

Next ==
    \/ ReadHandshake
    \/ Deallocate
    \/ PasswordEntered
    \/ PasswordCancelled
    \/ \E k \in SessionMessages \ {"setup"} : WindowEvent(k)
    \/ ServerAnswers
    \/ ServerCloses

Spec == Init /\ [][Next]_vars

\* Data that has arrived is read, the server does its part, and the user does
\* something about the password sheet.
FairSpec ==
    /\ Spec
    /\ WF_vars(ReadHandshake)
    /\ WF_vars(PasswordEntered \/ PasswordCancelled)
    /\ WF_vars(ServerAnswers)
-----------------------------------------------------------------------------
\* The fields of RFBConnection and RFBHandshaker have their types, and every
\* version of the protocol is one the client implements.
TypeOK ==
    /\ owner \in Sessions
    /\ conn \in Connection
    /\ server.phase \in ServerPhases
    /\ {toServer, toClient} \subseteq Seq(Message)
    /\ open \in BOOLEAN

\* The two ends speak the same protocol at every moment: whatever the version,
\* the security type and the credentials, the server never reads a message
\* that it does not expect at that point of the handshake (a wrong choice of
\* reader after a security type, a request sent too early).  The window of a
\* session that reconnects writes during the handshake (the guard of
\* sendPasteboardToServer is a handshaker, which there is not until the
\* version of the server has been read), and confuses the server.
ServerUnderstands == ~owner.reconnecting => server.phase # "confused"

\* What arrives is what the current reader reads, and nothing arrives while
\* the client waits for its user: otherwise readData would hand bytes to a
\* reader that takes them for something else, or report a protocol error.
ReaderMatches ==
    conn.session /\ toClient # <<>> =>
        conn.reader = Head(toClient).kind /\ conn.waiting = "no"

\* As long as there is a connection, the password sheet is up exactly when the
\* handshake waits for the answer: the answer is never ignored by gotPassword,
\* and the handshake never waits for a sheet that was not shown.
SheetHasPurpose ==
    conn.session => (conn.sheet <=> conn.waiting # "no")

\* Once the session has let go of the connection, nothing more is written
\* to the server and the session is not started, although a reader may be
\* set after terminateConnection and be given the rest of what was read.
NothingAfterTheEnd ==
    [][~conn.session => /\ Len(toServer') <= Len(toServer)
                        /\ conn'.reader = "type" => conn.reader = "type"]_vars

\* Every handshake ends: the session starts, or the connection is given up,
\* whatever the server answers and whenever it closes the connection.
HandshakeEnds ==
    ~owner.reconnecting => <>(conn.reader = "type" \/ ~conn.session)

\* A session whose connection has ended has told its user, or asks for a
\* password to reconnect with, or is reconnecting: none is left with a window
\* that nothing will ever happen in.
NeverStranded == ~conn.session => conn.sheet \/ conn.handled

\* Without a server to connect to again, terminateConnection does not wait for
\* the password sheet, and that is enough.
IncomingNeverStranded == ~owner.canReconnect => NeverStranded

=============================================================================
