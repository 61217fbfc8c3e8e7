-------------------------- MODULE HandshakeProofs --------------------------
(***************************************************************************)
(* Proofs about Handshake, for all versions of servers, all lists of       *)
(* security types and all sessions: the two ends stay in step, prompts and *)
(* answers match, and nothing is done on behalf of a connection that is    *)
(* over.                                                                   *)
(*                                                                         *)
(* The invariant follows the conversation.  Legible says what can be left  *)
(* of an answer of the server when a given reader reads; Agree says, for   *)
(* each phase of the server, where the client can be and what it can have  *)
(* written.  Windows of a session that reconnects write at any moment, and *)
(* what they write confuses the server: Quiet, Next1 and Next2 say what the *)
(* server finds before it meets such a message.                            *)
(***************************************************************************)
EXTENDS Handshake, SequenceTheorems, WellFoundedInduction, TLAPS

WindowKinds == {"request", "cutText", "key", "desktopSize"}

\* The next message that the server reads is one of a window.
Noisy(q) == q # <<>> /\ q[1].kind \in WindowKinds

\* Nothing of the handshake is on its way, that the server will understand.
Quiet(q) == q = <<>> \/ Noisy(q)

\* The message m of the handshake is on its way; or m and then n.
Next1(q, m) == Noisy(q) \/ (q # <<>> /\ q[1] = m /\ Quiet(Tail(q)))

Next2(q, m, n) == Noisy(q) \/ (q # <<>> /\ q[1] = m /\ Next1(Tail(q), n))

\* What a refusal is read from: its length, then its contents unless empty.
Refusal(m) == \/ m = <<Msg("reasonLength", <<0>>)>>
              \/ m = <<Msg("reasonLength", <<1>>), Msg("reason", <<>>)>>

\* m may be left of an answer when the reader is r and protocolMinorVersion is
\* minor: what is read next, and then.
Remains(r, minor, m) ==
    \/ r = "version" /\ \E v \in Versions : m = <<Msg("version", v)>>
    \/ /\ r = "authCount"
       /\ \/ m[1] = Msg("authCount", <<0>>) /\ Refusal(Tail(m))
          \/ \E offer \in Offers :
                m = <<Msg("authCount", <<Len(offer)>>), Msg("authArray", offer)>>
    \/ r = "authArray" /\ \E offer \in Offers : m = <<Msg("authArray", offer)>>
    \/ /\ r = "authType"
       /\ \/ m[1] = Msg("authType", <<0>>) /\ Refusal(Tail(m))
          \/ m = <<Msg("authType", <<NoAuth>>)>>
          \/ m = <<Msg("authType", <<VncAuth>>), Msg("challenge", <<>>)>>
    \/ r = "challenge" /\ m = <<Msg("challenge", <<>>)>>
    \/ r = "ardGenerator"
       /\ m = <<Msg("ardGenerator", <<>>), Msg("ardKeySize", <<>>),
                Msg("ardPrime", <<>>), Msg("ardPeerKey", <<>>)>>
    \/ r = "ardKeySize"
       /\ m = <<Msg("ardKeySize", <<>>), Msg("ardPrime", <<>>), Msg("ardPeerKey", <<>>)>>
    \/ r = "ardPrime" /\ m = <<Msg("ardPrime", <<>>), Msg("ardPeerKey", <<>>)>>
    \/ r = "ardPeerKey" /\ m = <<Msg("ardPeerKey", <<>>)>>
    \/ /\ r = "authResult"
       /\ \/ m = <<Msg("authResult", <<0>>)>>
          \/ m = <<Msg("authResult", <<1>>)>> /\ minor < 8
          \/ m[1] = Msg("authResult", <<1>>) /\ Refusal(Tail(m)) /\ minor >= 8
          \/ \E other \in {2, 3} : m = <<Msg("authResult", <<other>>)>>
    \/ r = "reasonLength" /\ Refusal(m)
    \/ r = "reason" /\ m = <<Msg("reason", <<>>)>>
    \/ /\ r = "serverInit"
       /\ \/ m = <<Msg("serverInit", <<>>), Msg("nameLength", <<0>>)>>
          \/ m = <<Msg("serverInit", <<>>), Msg("nameLength", <<1>>), Msg("name", <<>>)>>
    \/ /\ r = "nameLength"
       /\ \/ m = <<Msg("nameLength", <<0>>)>>
          \/ m = <<Msg("nameLength", <<1>>), Msg("name", <<>>)>>
    \/ r = "name" /\ m = <<Msg("name", <<>>)>>

Active == server.phase \notin {"done", "confused"}

\* The server waits for an answer that the user has not given yet.
Asked ==
    \/ server.phase = "choice" /\ conn.waiting = "ard" /\ conn.reader = "authArray"
    \/ server.phase = "response" /\ conn.waiting = "challenge" /\ conn.reader = "challenge"
    \/ server.phase = "ardResponse" /\ conn.waiting = "ard" /\ conn.ardPeerKey

\* The server has answered, and the client has not read all of the answer.
Answered ==
    \/ server.phase = "version" /\ conn.reader = "version"
    \/ server.phase = "choice" /\ conn.minor >= 7
       /\ \/ conn.reader = "authCount" /\ toClient[1] # Msg("authCount", <<0>>)
          \/ conn.reader = "authArray"
    \/ server.phase = "response"
       /\ \/ conn.reader = "authType" /\ toClient[1] = Msg("authType", <<VncAuth>>)
          \/ conn.reader = "challenge"
    \/ server.phase = "ardResponse"
       /\ conn.reader \in {"ardGenerator", "ardKeySize", "ardPrime", "ardPeerKey"}
    \/ server.phase = "clientInit"
       /\ \/ conn.reader = "authResult" /\ toClient = <<Msg("authResult", <<0>>)>>
          \/ conn.reader = "authType" /\ toClient = <<Msg("authType", <<NoAuth>>)>>

\* The client has answered, and the server has not read all of the answer.
Replied(q) ==
    \/ /\ server.phase = "version"
       /\ Next1(q, Msg("version", <<conn.minor>>))
       /\ conn.reader = IF conn.minor >= 7 THEN "authCount" ELSE "authType"
    \/ /\ server.phase = "choice"
       /\ \/ /\ Next1(q, Msg("choice", <<NoAuth>>))
             /\ conn.reader = "authResult" /\ conn.minor >= 8
          \/ /\ Next2(q, Msg("choice", <<NoAuth>>), Msg("clientInit", <<>>))
             /\ conn.reader = "serverInit" /\ conn.minor < 8
          \/ /\ Next1(q, Msg("choice", <<VncAuth>>))
             /\ conn.reader = "challenge"
          \/ /\ Next1(q, Msg("choice", <<ArdAuth>>))
             /\ conn.reader = "ardGenerator"
    \/ /\ server.phase = "response" /\ conn.reader = "authResult"
       /\ Next1(q, Msg("response", <<>>))
    \/ /\ server.phase = "ardResponse" /\ conn.reader = "authResult"
       /\ Next1(q, Msg("ardResponse", <<>>))
    \/ /\ server.phase = "clientInit" /\ conn.reader = "serverInit"
       /\ Next1(q, Msg("clientInit", <<>>))

\* The handshake is over for the server.
Running ==
    /\ server.phase = "running"
    /\ \/ toClient # <<>> /\ conn.reader \in {"serverInit", "nameLength", "name"}
       \/ toClient = <<>> /\ conn.reader = "type"
    /\ conn.waiting = "no"

\* Where the two ends can be, while there is a connection.
Agree ==
    \/ /\ server.phase = "hello" /\ conn.reader = "version"
       /\ toClient = <<>> /\ conn.waiting = "no" /\ Quiet(toServer)
    \/ toClient # <<>> /\ Quiet(toServer) /\ Answered /\ conn.waiting = "no"
    \/ toClient = <<>> /\ Quiet(toServer) /\ Asked
    \/ toClient = <<>> /\ Replied(toServer) /\ conn.waiting = "no"
    \/ Running

\* The connection has been given up, and the server does not know it.
Idle ==
    \/ server.phase \notin {"hello", "running"} /\ Quiet(toServer)
    \/ server.phase = "choice" /\ Next1(toServer, Msg("choice", <<Unusable>>))
    \/ server.phase = "running"

InStep == Active => IF conn.session THEN Agree ELSE Idle

\* Both ends have the same version, and know of no key that is not there yet.
SameVersion ==
    Active /\ conn.session =>
        /\ server.phase \notin {"hello", "version"} => server.minor = conn.minor
        /\ server.phase \in {"hello", "version", "choice"} => ~conn.ardPeerKey

Legible ==
    conn.session /\ toClient # <<>> =>
        Remains(conn.reader, conn.minor, toClient) /\ conn.waiting = "no"

Severed == ~open => toServer = <<>> /\ ~Active

Released == ~conn.session => toClient = <<>> \/ conn.reader = "nil"

\* Only a window that is on the screen writes what belongs to no handshake.
Clean(q) == \A i \in 1 .. Len(q) : q[i].kind \notin WindowKinds

Proper(q) == \A i \in 1 .. Len(q) : q[i].kind \in SessionMessages

Undisturbed ==
    Active /\ ~owner.reconnecting =>
        IF server.phase = "running" THEN Proper(toServer) ELSE Clean(toServer)

Visible ==
    Active /\ conn.session /\ conn.visible /\ ~owner.reconnecting =>
        server.phase = "running"

\* A session that cannot connect again has told the user of the end.
Told == ~conn.session /\ ~owner.canReconnect => conn.handled

ServerOK == server \in [phase : ServerPhases, version : Versions \cup {NotVNC},
                        minor : 0 .. 8]

IInv == /\ TypeOK /\ ServerOK /\ SheetHasPurpose /\ ServerUnderstands
        /\ Legible /\ InStep /\ SameVersion /\ Severed /\ Released
        /\ Visible /\ Undisturbed /\ Told

-----------------------------------------------------------------------------
(* Messages on their way.                                                  *)

\* What a window writes is met no sooner than what is on its way already.
LEMMA NoiseAppended ==
    ASSUME NEW q \in Seq(Message), NEW k \in Message, k.kind \in WindowKinds
    PROVE  /\ Quiet(q) => Quiet(Append(q, k))
           /\ \A m : Next1(q, m) => Next1(Append(q, k), m)
           /\ \A m, n : Next2(q, m, n) => Next2(Append(q, k), m, n)
<1>1. ASSUME NEW s \in Seq(Message)
      PROVE  /\ Append(s, k) # <<>> /\ Append(s, k) \in Seq(Message)
             /\ s = <<>> => Append(s, k)[1] = k
             /\ s # <<>> => /\ Append(s, k)[1] = s[1]
                            /\ Tail(Append(s, k)) = Append(Tail(s), k)
                            /\ Tail(s) \in Seq(Message)
  <2>1. /\ Append(s, k) # <<>> /\ Append(s, k) \in Seq(Message)
        /\ \A i \in 1 .. Len(s) : Append(s, k)[i] = s[i]
        /\ Append(s, k)[Len(s) + 1] = k
    BY AppendProperties
  <2>2. s # <<>> => Len(s) \in Nat \ {0} /\ Tail(s) \in Seq(Message)
    BY EmptySeq, HeadTailProperties
  <2>3. s # <<>> => Tail(Append(s, k)) = Append(Tail(s), k)
    BY HeadTailAppend
  <2>4. s = <<>> => Len(s) = 0
    BY EmptySeq
  <2>. HIDE DEF Message
  <2>. QED BY <2>1, <2>2, <2>3, <2>4
<1>4. \A s \in Seq(Message) : Noisy(s) => Noisy(Append(s, k))
  BY <1>1 DEF Noisy
<1>5. \A s \in Seq(Message) : Quiet(s) => Quiet(Append(s, k))
  BY <1>1, <1>4 DEF Quiet, Noisy
<1>6. \A s \in Seq(Message) : \A m : Next1(s, m) => Next1(Append(s, k), m)
  <2>. SUFFICES ASSUME NEW s \in Seq(Message), NEW m, Next1(s, m), ~Noisy(s)
                PROVE  Next1(Append(s, k), m)
    BY <1>4 DEF Next1
  <2>1. s # <<>> /\ s[1] = m /\ Quiet(Tail(s))
    BY DEF Next1
  <2>2. /\ Append(s, k)[1] = m /\ Append(s, k) # <<>>
        /\ Tail(Append(s, k)) = Append(Tail(s), k) /\ Tail(s) \in Seq(Message)
    BY <1>1, <2>1
  <2>. QED BY <2>1, <2>2, <1>5 DEF Next1
<1>7. \A m, n : Next2(q, m, n) => Next2(Append(q, k), m, n)
  <2>. SUFFICES ASSUME NEW m, NEW n, Next2(q, m, n), ~Noisy(q)
                PROVE  Next2(Append(q, k), m, n)
    BY <1>4 DEF Next2
  <2>1. q # <<>> /\ q[1] = m /\ Next1(Tail(q), n) /\ Tail(q) \in Seq(Message)
    BY <1>1 DEF Next2
  <2>. QED BY <2>1, <1>1, <1>6 DEF Next2
<1>. QED
  BY <1>5, <1>6, <1>7

\* What the client writes when nothing is on its way is what comes next.
LEMMA QuietWrite ==
    ASSUME NEW q \in Seq(Message), Quiet(q), NEW m \in Message, NEW n \in Message
    PROVE  /\ Next1(q \o <<m>>, m)
           /\ Next2(q \o <<m, n>>, m, n)
<1>1. CASE q = <<>>
  <2>1. <<m>> # <<>> /\ <<m>>[1] = m /\ Tail(<<m>>) = <<>>
    OBVIOUS
  <2>2. <<m, n>> # <<>> /\ <<m, n>>[1] = m /\ Tail(<<m, n>>) = <<n>>
    OBVIOUS
  <2>3. <<n>> # <<>> /\ <<n>>[1] = n /\ Tail(<<n>>) = <<>>
    OBVIOUS
  <2>4. q \o <<m>> = <<m>> /\ q \o <<m, n>> = <<m, n>>
    BY <1>1
  <2>. QED BY <2>1, <2>2, <2>3, <2>4 DEF Next1, Next2, Quiet
<1>2. CASE Noisy(q)
  <2>1. q # <<>>
    BY <1>2 DEF Noisy
  <2>2. /\ (q \o <<m>>)[1] = q[1] /\ (q \o <<m>>) # <<>>
        /\ (q \o <<m, n>>)[1] = q[1] /\ (q \o <<m, n>>) # <<>>
    BY <2>1
  <2>. QED BY <1>2, <2>2 DEF Noisy, Next1, Next2
<1>. QED BY <1>1, <1>2 DEF Quiet

\* The server reads what is next, unless a window has written before it.
LEMMA ReadNext ==
    ASSUME NEW q \in Seq(Message), q # <<>>, q[1].kind \notin WindowKinds
    PROVE  /\ ~Quiet(q)
           /\ \A m : Next1(q, m) => q[1] = m /\ Quiet(Tail(q))
           /\ \A m, n : Next2(q, m, n) => q[1] = m /\ Next1(Tail(q), n)
BY DEF Quiet, Noisy, Next1, Next2

-----------------------------------------------------------------------------
(* The operators of the client, on the record of its state.                *)

\* The connection within a handler, which may have written messages.
Call == [reader : Readers, minor : 0 .. 8, username : BOOLEAN,
         password : BOOLEAN, handshaker : BOOLEAN,
         waiting : {"no", "challenge", "ard"}, ardPeerKey : BOOLEAN,
         triedPassword : BOOLEAN, resizable : BOOLEAN, apple : BOOLEAN,
         session : BOOLEAN, sheet : BOOLEAN, handled : BOOLEAN,
         stopped : BOOLEAN, visible : BOOLEAN, wrote : Seq(Message)]

LEMMA CallBegins ==
    ASSUME NEW c \in Connection PROVE c \in Call /\ c.wrote = <<>>
<1>1. <<>> \in Seq(Message)
  BY EmptySeq
<1>. QED BY <1>1 DEF Connection, Call

LEMMA CallEnds ==
    ASSUME NEW c \in Call PROVE [c EXCEPT !.wrote = <<>>] \in Connection
BY DEF Connection, Call

\* The session has let go of the connection, and the user has been told if
\* there is no other to come.
Gone(c) == c \in Call /\ ~c.session /\ (~owner.canReconnect => c.handled)

LEMMA GoneReads ==
    ASSUME NEW c, Gone(c), NEW r \in Readers
    PROVE  Gone(SetReader(c, r)) /\ SetReader(c, r).reader = r
BY DEF Gone, SetReader, Call

\* Whatever the session had before, it has no connection afterwards.
LEMMA SessionTerminates ==
    ASSUME NEW c \in Call, c.session \/ Gone(c)
    PROVE  /\ Gone(SessionTerminate(c))
           /\ SessionTerminate(c).reader = c.reader
           /\ SessionTerminate(c).wrote = c.wrote
<1>1. CASE ~c.session
  BY <1>1 DEF Gone, SessionTerminate
<1>2. CASE c.session
  <2>1. ConnectionProblem(c) = [c EXCEPT !.session = FALSE]
    BY DEF ConnectionProblem
  <2>2. CASE c.sheet /\ owner.canReconnect
    BY <1>2, <2>1, <2>2 DEF Gone, SessionTerminate, Call
  <2>3. CASE ~(c.sheet /\ owner.canReconnect)
    <3>1. SessionTerminate(c) = [c EXCEPT !.session = FALSE, !.sheet = FALSE, !.handled = TRUE]
      BY <1>2, <2>1, <2>3 DEF SessionTerminate, Call
    <3>. QED BY <3>1 DEF Gone, Call
  <2>. QED BY <2>2, <2>3
<1>. QED BY <1>1, <1>2 DEF Call

LEMMA Terminates ==
    ASSUME NEW c \in Call, c.session \/ Gone(c)
    PROVE  /\ Gone(Terminate(c))
           /\ Terminate(c).reader = "nil"
           /\ Terminate(c).wrote = c.wrote
<1>. DEFINE t == [SetReader(c, "nil") EXCEPT !.stopped = TRUE]
<1>1. t \in Call /\ t.reader = "nil" /\ t.wrote = c.wrote /\ (t.session \/ Gone(t))
  BY DEF SetReader, Call, Readers, Gone
<1>. HIDE DEF t
<1>2. Terminate(c) = SessionTerminate(t)
  BY DEF Terminate, t
<1>. QED BY <1>1, <1>2, SessionTerminates

\* A write that fails ends the connection, and has written nothing.
LEMMA WriteFails ==
    ASSUME ~open, NEW c \in Call, c.session \/ Gone(c), NEW m
    PROVE  Gone(Write(c, m)) /\ Write(c, m).reader = "nil" /\ Write(c, m).wrote = c.wrote
BY Terminates DEF Write

\* One that succeeds changes nothing else.
LEMMA Writes ==
    ASSUME open, NEW c \in Call, NEW m \in Message
    PROVE  /\ Write(c, m) = [c EXCEPT !.wrote = Append(c.wrote, m)]
           /\ Write(c, m) \in Call
<1>1. Append(c.wrote, m) \in Seq(Message)
  BY AppendProperties DEF Call
<1>2. Write(c, m) = [c EXCEPT !.wrote = Append(c.wrote, m)]
  BY DEF Write, Call
<1>. QED BY <1>1, <1>2 DEF Call

\* The failure of an authentication that has been tried ends it as well.
LEMMA AuthenticationFails ==
    ASSUME NEW c \in Call, c.session
    PROVE  Gone(AuthenticationFailed(c)) /\ AuthenticationFailed(c).wrote = c.wrote
<1>. DEFINE told == IF owner.canReconnect THEN c ELSE SessionTerminate(c)
<1>1. /\ told \in Call /\ told.wrote = c.wrote
      /\ ~owner.canReconnect => told.handled
  BY SessionTerminates DEF Gone
<1>. HIDE DEF told
<1>2. AuthenticationFailed(c) = [told EXCEPT !.session = FALSE, !.sheet = TRUE]
  BY <1>1 DEF AuthenticationFailed, ConnectionProblem, told, Call
<1>. QED BY <1>1, <1>2 DEF Gone, Call

LEMMA Fails ==
    ASSUME NEW c \in Call, c.session
    PROVE  Gone(Failed(c)) /\ Failed(c).wrote = c.wrote
BY AuthenticationFails, Terminates DEF Failed

\* Without a peer, what writes in the end only lets go of the connection.
LEMMA NothingSent ==
    ASSUME ~open, NEW c \in Call, c.session \/ Gone(c), NEW m
    PROVE  /\ Gone(SendClientInit(c)) /\ SendClientInit(c).wrote = c.wrote
           /\ Gone(StartArd(c)) /\ StartArd(c).wrote = c.wrote
           /\ Gone(ChooseNoAuth(c)) /\ ChooseNoAuth(c).wrote = c.wrote
           /\ Gone(SendCredentials(c, m)) /\ SendCredentials(c, m).wrote = c.wrote
<1>. USE DEF Readers
<1>1. ASSUME NEW d \in Call, d.session \/ Gone(d), NEW r \in Readers, NEW k
      PROVE  Gone(SetReader(Write(d, k), r)) /\ SetReader(Write(d, k), r).wrote = d.wrote
  <2>. DEFINE w == Write(d, k)
  <2>1. Gone(w) /\ w.wrote = d.wrote
    BY <1>1, WriteFails
  <2>. HIDE DEF w
  <2>2. Gone(SetReader(w, r))
    BY <1>1, <2>1, GoneReads
  <2>3. SetReader(w, r).wrote = w.wrote
    BY <2>1 DEF SetReader, Gone, Call
  <2>. QED BY <2>1, <2>2, <2>3 DEF w
<1>2. Gone(SendClientInit(c)) /\ SendClientInit(c).wrote = c.wrote
  BY <1>1 DEF SendClientInit
<1>3. Gone(StartArd(c)) /\ StartArd(c).wrote = c.wrote
  BY <1>1 DEF StartArd
<1>4. Gone(ChooseNoAuth(c)) /\ ChooseNoAuth(c).wrote = c.wrote
  <2>. DEFINE told == Write(c, Msg("choice", <<NoAuth>>))
  <2>1. Gone(told) /\ told.wrote = c.wrote /\ told \in Call
    BY WriteFails DEF Gone
  <2>. HIDE DEF told
  <2>2. Gone(SendClientInit(told)) /\ SendClientInit(told).wrote = c.wrote
    BY <1>1, <2>1 DEF SendClientInit
  <2>3. Gone(SetReader(told, "authResult")) /\ SetReader(told, "authResult").wrote = c.wrote
    <3>1. Gone(SetReader(told, "authResult"))
      BY <2>1, GoneReads
    <3>2. SetReader(told, "authResult").wrote = told.wrote
      BY <2>1 DEF SetReader, Call
    <3>. QED BY <2>1, <3>1, <3>2
  <2>. QED BY <2>2, <2>3 DEF ChooseNoAuth, told
<1>5. Gone(SendCredentials(c, m)) /\ SendCredentials(c, m).wrote = c.wrote
  <2>. DEFINE told == SetReader(Write(c, m), "authResult")
  <2>1. Gone(told) /\ told.wrote = c.wrote
    BY <1>1
  <2>. HIDE DEF told
  <2>2. SendCredentials(c, m) = [told EXCEPT !.triedPassword = TRUE]
    BY DEF SendCredentials, told
  <2>. QED BY <2>1, <2>2 DEF Gone, Call
<1>. QED BY <1>2, <1>3, <1>4, <1>5

-----------------------------------------------------------------------------
(* What is left to show of a step of the client.                           *)

\* It lets go of the connection, and leaves nothing to be read.
LEMMA EndsInv ==
    ASSUME IInv, NEW c, Gone(c), Becomes(c), UNCHANGED <<owner, server, open>>,
           toClient' \in Seq(Message), toServer' \in Seq(Message),
           toClient' = <<>> \/ c.reader = "nil",
           Active => Idle', Undisturbed'
    PROVE  IInv'
<1>1. conn' = [c EXCEPT !.wrote = <<>>] /\ (~open => toServer' = toServer)
  BY DEF Becomes
<1>2. /\ conn' \in Connection /\ ~conn'.session /\ conn'.reader = c.reader
      /\ ~owner.canReconnect => conn'.handled
  BY <1>1, CallEnds DEF Gone, Call
<1>3. TypeOK'
  BY <1>2 DEF IInv, TypeOK, Message
<1>4. ServerOK' /\ SheetHasPurpose' /\ ServerUnderstands'
  BY <1>2 DEF IInv, ServerOK, SheetHasPurpose, ServerUnderstands
<1>5. Legible' /\ SameVersion' /\ Released' /\ Told'
  BY <1>2 DEF Legible, SameVersion, Released, Told
<1>6. InStep'
  BY <1>2 DEF InStep, Active
<1>7. Severed'
  BY <1>1 DEF IInv, Severed, Active
<1>8. Visible'
  BY <1>2 DEF Visible
<1>. QED BY <1>3, <1>4, <1>5, <1>6, <1>7, <1>8 DEF IInv

\* It keeps the connection.
LEMMA GoesOnInv ==
    ASSUME IInv, conn' \in Connection, conn'.session, UNCHANGED <<owner, server, open>>,
           toClient' \in Seq(Message), toServer' \in Seq(Message),
           ~open => toServer' = toServer,
           SheetHasPurpose', Legible', Active => Agree', SameVersion', Visible', Undisturbed'
    PROVE  IInv'
<1>3. TypeOK'
  BY DEF IInv, TypeOK, Message
<1>4. ServerOK' /\ ServerUnderstands'
  BY DEF IInv, ServerOK, ServerUnderstands
<1>5. Released' /\ Told'
  BY DEF Released, Told
<1>6. InStep'
  BY DEF InStep, Active
<1>7. Severed'
  BY DEF IInv, Severed, Active
<1>. QED BY <1>3, <1>4, <1>5, <1>6, <1>7 DEF IInv

\* It keeps the connection, and may write, set the reader, and what neither
\* the server nor the user's sheet depends on.
LEMMA TalksInv ==
    ASSUME IInv, NEW c \in Call, Becomes(c), UNCHANGED <<owner, server, open>>,
           toClient' \in Seq(Message), toServer' \in Seq(Message),
           conn.session, c.session, c.sheet = conn.sheet, c.waiting = conn.waiting,
           Active /\ c.minor # conn.minor => server.phase \in {"hello", "version"},
           Active /\ c.ardPeerKey # conn.ardPeerKey => server.phase = "ardResponse",
           c.visible = conn.visible \/ server.phase = "running",
           Legible', Undisturbed', Active => Agree'
    PROVE  IInv'
<1>1. conn' = [c EXCEPT !.wrote = <<>>] /\ (~open => toServer' = toServer)
  BY DEF Becomes
<1>2. /\ conn' \in Connection /\ conn'.session /\ conn'.minor = c.minor
      /\ conn'.sheet = c.sheet /\ conn'.waiting = c.waiting
      /\ conn'.ardPeerKey = c.ardPeerKey /\ conn'.visible = c.visible
  BY <1>1, CallEnds DEF Call
<1>3. SheetHasPurpose'
  BY <1>2 DEF IInv, SheetHasPurpose
<1>4. SameVersion'
  BY <1>2 DEF IInv, SameVersion, Active
<1>5. Visible'
  BY <1>2 DEF IInv, Visible, Active
<1>. QED BY <1>1, <1>2, <1>3, <1>4, <1>5, GoesOnInv

-----------------------------------------------------------------------------
(* What a step of the client finds, and what its writing does.             *)

LEMMA InitInv == Init => IInv
<1>. SUFFICES ASSUME Init PROVE IInv
  OBVIOUS
<1>1. conn \in Connection /\ conn.session /\ ~conn.sheet /\ conn.waiting = "no"
      /\ conn.reader = "version" /\ ~conn.ardPeerKey
      /\ conn.visible = owner.reconnecting
  <2>1. owner.reconnecting \in BOOLEAN
    BY HandshakeAssumption DEF Init, Session
  <2>. QED BY <2>1 DEF Init, Connection, Readers
<1>2. <<>> \in Seq(Message) /\ Len(<<>>) = 0
  BY EmptySeq
<1>3. TypeOK
  BY <1>1, <1>2 DEF Init, TypeOK, Message, ServerPhases
<1>4. ServerOK /\ ServerUnderstands /\ SheetHasPurpose
  BY <1>1 DEF Init, ServerOK, ServerPhases, ServerUnderstands, SheetHasPurpose
<1>5. Legible /\ SameVersion /\ Severed /\ Released /\ Told
  BY <1>1 DEF Init, Legible, SameVersion, Severed, Released, Told
<1>6. InStep
  BY <1>1 DEF Init, InStep, Agree, Quiet
<1>7. Visible /\ Undisturbed
  BY <1>1, <1>2 DEF Init, Visible, Undisturbed, Clean
<1>. QED BY <1>3, <1>4, <1>5, <1>6, <1>7 DEF IInv

\* A sequence of one to four messages, read from its head.
LEMMA Tails ==
    ASSUME NEW a, NEW b, NEW c, NEW d
    PROVE  /\ Tail(<<a>>) = <<>> /\ Tail(<<a, b>>) = <<b>>
           /\ Tail(<<a, b, c>>) = <<b, c>> /\ Tail(<<a, b, c, d>>) = <<b, c, d>>
           /\ <<a>> # <<>> /\ <<a, b>> # <<>> /\ <<a, b, c>> # <<>> /\ <<a, b, c, d>> # <<>>
           /\ <<a>>[1] = a /\ <<a, b>>[1] = a /\ <<a, b, c>>[1] = a /\ <<a, b, c, d>>[1] = a
           /\ Len(<<a>>) = 1 /\ Len(<<a, b>>) = 2 /\ Len(<<a, b, c>>) = 3
OBVIOUS

\* One message after another.
LEMMA TwoWords ==
    ASSUME NEW M, NEW a \in M, NEW b \in M
    PROVE  Append(<<a>>, b) = <<a, b>>
<1>. DEFINE s == Append(<<a>>, b)
            t == <<a, b>>
<1>1. <<a>> \in Seq(M) /\ t \in Seq(M) /\ s \in Seq(M)
  OBVIOUS
<1>2. Len(<<a>>) = 1 /\ Len(t) = 2 /\ <<a>>[1] = a /\ t[1] = a /\ t[2] = b
  OBVIOUS
<1>3. Len(s) = 2 /\ s[1] = a /\ s[2] = b
  BY <1>1, <1>2, AppendProperties
<1>. HIDE DEF s, t
<1>4. \A i \in 1 .. Len(s) : s[i] = t[i]
  <2>. SUFFICES ASSUME NEW i \in 1 .. 2 PROVE s[i] = t[i]
    BY <1>3
  <2>1. i = 1 \/ i = 2
    OBVIOUS
  <2>. QED BY <1>2, <1>3, <2>1
<1>5. s = t
  BY <1>1, <1>2, <1>3, <1>4, SeqEqual
<1>. QED BY <1>5 DEF s, t

LEMMA ThreeWords ==
    ASSUME NEW M, NEW a \in M, NEW b \in M, NEW c \in M
    PROVE  /\ <<a>> \o <<b>> = <<a, b>>
           /\ <<a>> \o <<b, c>> = <<a, b, c>>
<1>1. <<a>> \o <<b>> = <<a, b>>
  <2>1. <<a>> \in Seq(M)
    OBVIOUS
  <2>. QED BY <2>1, TwoWords, AppendIsConcat
<1>2. <<a>> \o <<b, c>> = <<a, b, c>>
  <2>. DEFINE s == <<a>> \o <<b, c>>
              t == <<a, b, c>>
              r == <<b, c>>
  <2>1. /\ <<a>> \in Seq(M) /\ Len(<<a>>) = 1 /\ <<a>>[1] = a
        /\ r \in Seq(M) /\ Len(r) = 2 /\ r[1] = b /\ r[2] = c
        /\ t \in Seq(M) /\ Len(t) = 3 /\ t[1] = a /\ t[2] = b /\ t[3] = c
    OBVIOUS
  <2>2. /\ s \in Seq(M) /\ Len(s) = 3
        /\ \A i \in 1 .. 3 : s[i] = IF i <= 1 THEN <<a>>[i] ELSE r[i - 1]
    BY <2>1, ConcatProperties
  <2>. HIDE DEF s, t, r
  <2>3. \A i \in 1 .. 3 : s[i] = t[i]
    <3>. SUFFICES ASSUME NEW i \in 1 .. 3 PROVE s[i] = t[i]
      OBVIOUS
    <3>1. i = 1 \/ i = 2 \/ i = 3
      OBVIOUS
    <3>. QED BY <2>1, <2>2, <3>1
  <2>4. s = t
    BY <2>1, <2>2, <2>3, SeqEqual
  <2>. QED BY <2>4 DEF s, t, r
<1>. QED BY <1>1, <1>2

\* One message before others.
LEMMA FirstWord ==
    ASSUME NEW M, NEW m \in M, NEW r \in Seq(M)
    PROVE  /\ <<m>> \o r \in Seq(M) /\ (<<m>> \o r) # <<>>
           /\ (<<m>> \o r)[1] = m /\ Tail(<<m>> \o r) = r
<1>. DEFINE s == <<m>> \o r
<1>1. <<m>> \in Seq(M) /\ Len(<<m>>) = 1 /\ <<m>>[1] = m
  OBVIOUS
<1>2. /\ s \in Seq(M) /\ Len(s) = 1 + Len(r)
      /\ \A i \in 1 .. 1 + Len(r) : s[i] = IF i <= 1 THEN m ELSE r[i - 1]
  BY <1>1, ConcatProperties
<1>3. Len(r) \in Nat
  BY LenProperties
<1>. HIDE DEF s
<1>4. s # <<>> /\ s[1] = m
  BY <1>2, <1>3, EmptySeq
<1>5. /\ Tail(s) \in Seq(M) /\ Len(Tail(s)) = Len(r)
      /\ \A i \in 1 .. Len(Tail(s)) : Tail(s)[i] = s[i + 1]
  BY <1>2, <1>3, <1>4, HeadTailProperties
<1>6. \A i \in 1 .. Len(Tail(s)) : Tail(s)[i] = r[i]
  BY <1>2, <1>3, <1>5
<1>7. Tail(s) = r
  BY <1>5, <1>6, SeqEqual
<1>. QED BY <1>2, <1>4, <1>7 DEF s

\* Messages of the handshake do not disturb it.
LEMMA CleanTalk ==
    ASSUME NEW q \in Seq(Message), NEW r \in Seq(Message)
    PROVE  /\ q \o r \in Seq(Message)
           /\ Clean(q) /\ Clean(r) => Clean(q \o r)
           /\ Proper(q) /\ Proper(r) => Proper(q \o r)
           /\ q # <<>> => /\ Tail(q) \in Seq(Message)
                          /\ Clean(q) => Clean(Tail(q)) /\ q[1].kind \notin WindowKinds
                          /\ Proper(q) => Proper(Tail(q))
<1>. HIDE DEF Message
<1>1. /\ q \o r \in Seq(Message) /\ Len(q \o r) = Len(q) + Len(r)
      /\ \A i \in 1 .. Len(q) + Len(r) :
            (q \o r)[i] = IF i <= Len(q) THEN q[i] ELSE r[i - Len(q)]
  BY ConcatProperties
<1>2. Len(q) \in Nat /\ Len(r) \in Nat
  BY LenProperties
<1>3. \A i \in 1 .. Len(q) + Len(r) : ~(i <= Len(q)) => i - Len(q) \in 1 .. Len(r)
  BY <1>2
<1>4. Clean(q) /\ Clean(r) => Clean(q \o r)
  BY <1>1, <1>2, <1>3 DEF Clean
<1>5. Proper(q) /\ Proper(r) => Proper(q \o r)
  BY <1>1, <1>2, <1>3 DEF Proper
<1>6. ASSUME q # <<>>
      PROVE  /\ Tail(q) \in Seq(Message) /\ Len(Tail(q)) = Len(q) - 1
             /\ \A i \in 1 .. Len(Tail(q)) : Tail(q)[i] = q[i + 1]
             /\ 1 \in 1 .. Len(q)
  BY <1>6, HeadTailProperties, EmptySeq
<1>7. q # <<>> => /\ Clean(q) => Clean(Tail(q)) /\ q[1].kind \notin WindowKinds
                  /\ Proper(q) => Proper(Tail(q))
  BY <1>2, <1>6 DEF Clean, Proper
<1>. QED BY <1>1, <1>4, <1>5, <1>6, <1>7

\* Data is read on behalf of a connection that is there, and is what the
\* conversation says.
LEMMA Reading ==
    ASSUME IInv, NEW r \in Readers \ {"nil"}, Arrived(r), Consume
    PROVE  /\ conn \in Call /\ conn.wrote = <<>> /\ conn.session /\ conn.reader = r
           /\ toClient \in Seq(Message) /\ toClient # <<>> /\ Head(toClient) = toClient[1]
           /\ toClient' = Tail(toClient) /\ toClient' \in Seq(Message)
           /\ toServer \in Seq(Message)
           /\ UNCHANGED <<owner, server, open>>
           /\ Remains(r, conn.minor, toClient) /\ conn.waiting = "no"
           /\ Active => /\ open
                        /\ server.phase # "hello"
                        /\ \/ Quiet(toServer) /\ Answered /\ server.phase # "running"
                           \/ Running
<1>1. /\ conn \in Connection /\ toClient \in Seq(Message) /\ toServer \in Seq(Message)
  BY DEF IInv, TypeOK, Message
<1>2. conn.reader = r /\ toClient # <<>> /\ toClient' = Tail(toClient)
      /\ UNCHANGED <<owner, server, open>>
  BY DEF Arrived, Consume
<1>3. conn.session
  BY <1>2 DEF IInv, Released
<1>4. Remains(r, conn.minor, toClient) /\ conn.waiting = "no"
  BY <1>2, <1>3 DEF IInv, Legible
<1>5. Active => open /\ Agree
  BY <1>3 DEF IInv, Severed, InStep
<1>6. Agree => /\ server.phase # "hello"
               /\ \/ Quiet(toServer) /\ Answered /\ server.phase # "running"
                  \/ Running
  BY <1>2 DEF Agree, Running, Answered
<1>7. toClient' \in Seq(Message) /\ Head(toClient) = toClient[1]
  BY <1>1, <1>2, HeadTailProperties
<1>. QED BY <1>1, <1>2, <1>3, <1>4, <1>5, <1>6, <1>7, CallBegins

\* What the client writes reaches the server next, if nothing was under way.
LEMMA Says ==
    ASSUME IInv, open, UNCHANGED <<owner, server, open>>, NEW c, Becomes(c),
           NEW m \in Message, NEW n \in Message,
           m.kind \notin WindowKinds, n.kind \notin WindowKinds,
           Active => server.phase # "running"
    PROVE  /\ c.wrote = <<m>> =>
                  /\ toServer' \in Seq(Message) /\ Undisturbed'
                  /\ Quiet(toServer) => Next1(toServer', m)
           /\ c.wrote = <<m, n>> =>
                  /\ toServer' \in Seq(Message) /\ Undisturbed'
                  /\ Quiet(toServer) => Next2(toServer', m, n)
<1>1. toServer \in Seq(Message) /\ toServer' = toServer \o c.wrote
  BY DEF IInv, TypeOK, Message, Becomes
<1>2. ASSUME NEW w \in Seq(Message), Clean(w), c.wrote = w
      PROVE  toServer' \in Seq(Message) /\ Undisturbed'
  <2>1. toServer' \in Seq(Message) /\ (Clean(toServer) => Clean(toServer'))
    BY <1>1, <1>2, CleanTalk
  <2>. QED BY <2>1 DEF IInv, Undisturbed, Active
<1>3. <<m>> \in Seq(Message) /\ Clean(<<m>>)
  BY DEF Clean
<1>4. <<m, n>> \in Seq(Message) /\ Clean(<<m, n>>)
  <2>1. <<m, n>> \in Seq(Message)
    OBVIOUS
  <2>2. \A i \in 1 .. Len(<<m, n>>) : <<m, n>>[i].kind \notin WindowKinds
    OBVIOUS
  <2>. QED BY <2>1, <2>2 DEF Clean
<1>. QED BY <1>1, <1>2, <1>3, <1>4, QuietWrite

LEMMA SaysNothing ==
    ASSUME IInv, UNCHANGED <<owner, server, open>>, NEW c, Becomes(c), c.wrote = <<>>
    PROVE  toServer' = toServer /\ toServer' \in Seq(Message) /\ Undisturbed'
<1>1. toServer \in Seq(Message)
  BY DEF IInv, TypeOK, Message
<1>2. toServer' = toServer
  BY <1>1, ConcatEmptySeq DEF Becomes
<1>. QED BY <1>1, <1>2 DEF IInv, Undisturbed, Active

\* Nothing is to be read: whatever the client does, it stays legible.
LEMMA NothingToRead == toClient' = <<>> => Legible'
BY DEF Legible

\* The reader is set to what comes next, and no more happens.
LEMMA ReadsOn ==
    ASSUME IInv, NEW r \in Readers \ {"nil"}, Arrived(r), Consume,
           NEW next \in Readers, Becomes(SetReader(conn, next)),
           Legible', Active => Agree'
    PROVE  IInv'
<1>. DEFINE c == SetReader(conn, next)
<1>1. /\ conn \in Call /\ conn.wrote = <<>> /\ conn.session
      /\ toClient' \in Seq(Message) /\ UNCHANGED <<owner, server, open>>
  BY Reading
<1>2. /\ c \in Call /\ c.wrote = <<>> /\ c.session /\ c.sheet = conn.sheet
      /\ c.waiting = conn.waiting /\ c.minor = conn.minor
      /\ c.ardPeerKey = conn.ardPeerKey /\ c.visible = conn.visible
  BY <1>1 DEF SetReader, Call
<1>. HIDE DEF c
<1>3. Becomes(c)
  BY DEF c
<1>4. toServer' \in Seq(Message) /\ Undisturbed'
  BY <1>1, <1>2, <1>3, SaysNothing
<1>. QED BY <1>1, <1>2, <1>3, <1>4, TalksInv

\* The fields that a new reader leaves alone.
LEMMA AfterReader ==
    ASSUME IInv, NEW next \in Readers, Becomes(SetReader(conn, next)), UNCHANGED <<owner, server, open>>
    PROVE  /\ conn'.reader = next /\ conn'.minor = conn.minor
           /\ conn'.waiting = conn.waiting /\ conn'.session = conn.session
           /\ conn'.ardPeerKey = conn.ardPeerKey
           /\ toServer' = toServer
<1>1. conn \in Connection
  BY DEF IInv, TypeOK
<1>2. SetReader(conn, next).wrote = <<>>
  BY <1>1 DEF SetReader, Connection
<1>3. toServer' = toServer
  BY <1>2, SaysNothing
<1>. QED BY <1>1, <1>3 DEF Becomes, SetReader, Connection

-----------------------------------------------------------------------------
(* The steps in which data is read.                                        *)

LEMMA ReadAuthCountInv == ASSUME IInv, ReadAuthCount PROVE IInv'
<1>. DEFINE n == toClient[1].arg[1]
            next == IF n = 0 THEN "reasonLength" ELSE "authArray"
<1>1. Arrived("authCount") /\ Consume /\ "authCount" \in Readers \ {"nil"}
  BY DEF ReadAuthCount, Readers
<1>2. /\ toClient # <<>> /\ Head(toClient) = toClient[1] /\ toClient' = Tail(toClient)
      /\ Remains("authCount", conn.minor, toClient) /\ conn.waiting = "no"
      /\ UNCHANGED <<owner, server, open>> /\ conn.reader = "authCount"
      /\ Active => open /\ Quiet(toServer) /\ Answered /\ server.phase # "running"
  BY <1>1, Reading DEF Running
<1>3. Becomes(SetReader(conn, next)) /\ next \in Readers
  BY <1>2 DEF ReadAuthCount, SetAuthCount, Arg, Readers
<1>4. /\ conn'.reader = next /\ conn'.minor = conn.minor /\ conn'.waiting = "no"
      /\ toServer' = toServer
  BY <1>2, <1>3, AfterReader
<1>5. CASE toClient[1] = Msg("authCount", <<0>>) /\ Refusal(Tail(toClient))
  <2>1. next = "reasonLength"
    BY <1>5 DEF Msg
  <2>2. Legible'
    BY <1>2, <1>4, <1>5, <2>1 DEF Legible, Remains, Refusal
  <2>3. ~Active
    BY <1>2, <1>5 DEF Answered
  <2>. QED BY <1>1, <1>3, <2>2, <2>3, ReadsOn
<1>6. CASE \E offer \in Offers :
              toClient = <<Msg("authCount", <<Len(offer)>>), Msg("authArray", offer)>>
  <2>1. PICK offer \in Offers :
              toClient = <<Msg("authCount", <<Len(offer)>>), Msg("authArray", offer)>>
    BY <1>6
  <2>2. Len(offer) \in Nat \ {0}
    BY HandshakeAssumption, EmptySeq
  <2>3. next = "authArray"
    BY <2>1, <2>2, Tails DEF Msg
  <2>4. toClient' = <<Msg("authArray", offer)>>
    BY <1>2, <2>1, Tails
  <2>5. Legible'
    BY <1>4, <2>3, <2>4 DEF Legible, Remains
  <2>6. toClient' # <<>>
    BY <2>4, Tails
  <2>7. Active => Agree'
    BY <1>2, <1>4, <2>3, <2>6 DEF Agree, Answered
  <2>. QED BY <1>1, <1>3, <2>5, <2>7, ReadsOn
<1>. QED BY <1>2, <1>5, <1>6 DEF Remains

-----------------------------------------------------------------------------
(* Answers of the client.                                                  *)

\* All has been read, and the client writes one message.
LEMMA Replies ==
    ASSUME IInv, open, UNCHANGED <<owner, server, open>>, toClient' = <<>>,
           NEW c \in Call, Becomes(c), conn.session, c.session,
           c.sheet = conn.sheet, c.waiting = conn.waiting, c.visible = conn.visible,
           Active /\ c.minor # conn.minor => server.phase \in {"hello", "version"},
           Active /\ c.ardPeerKey # conn.ardPeerKey => server.phase = "ardResponse",
           NEW m \in Message, m.kind \notin WindowKinds, c.wrote = <<m>>,
           Active => server.phase # "running" /\ Quiet(toServer),
           Active => (Next1(toServer', m) => Agree')
    PROVE  IInv'
<1>1. toServer' \in Seq(Message) /\ Undisturbed' /\ (Active => Next1(toServer', m))
  BY Says
<1>2. toClient' \in Seq(Message)
  BY EmptySeq
<1>. QED BY <1>1, <1>2, NothingToRead, TalksInv

\* The connection is given up, without another message.
LEMMA GivesUp ==
    ASSUME IInv, UNCHANGED <<owner, server, open>>,
           toClient' \in Seq(Message), NEW c, Gone(c), Becomes(c), c.wrote = <<>>,
           toClient' = <<>> \/ c.reader = "nil",
           Active => \/ server.phase # "hello" /\ Quiet(toServer)
                     \/ server.phase = "running"
    PROVE  IInv'
<1>1. toServer' = toServer /\ toServer' \in Seq(Message) /\ Undisturbed'
  BY SaysNothing
<1>2. Active => Idle'
  BY <1>1 DEF Idle
<1>. QED BY <1>1, <1>2, EndsInv

\* The messages of the client are messages, and none of a window.
LEMMA Words ==
    /\ \A minor \in 0 .. 8 : Msg("version", <<minor>>) \in Message
    /\ \A t \in Nat : Msg("choice", <<t>>) \in Message
    /\ \A k \in {"clientInit", "response", "ardResponse", "setup"} : Msg(k, <<>>) \in Message
    /\ \A k, a : Msg(k, a).kind = k
    /\ \A k \in {"version", "choice", "clientInit", "response", "ardResponse"} :
          k \notin WindowKinds
<1>. DEFINE Kinds == Readers \cup {"choice", "response", "ardResponse", "clientInit"}
                     \cup SessionMessages
<1>1. /\ \A minor \in 0 .. 8 : <<minor>> \in Seq(Nat)
      /\ \A t \in Nat : <<t>> \in Seq(Nat)
      /\ <<>> \in Seq(Nat)
  OBVIOUS
<1>2. \A k, a : Msg(k, a).kind = k
  BY DEF Msg
<1>3. \A k \in Kinds, a \in Seq(Nat) : Msg(k, a) \in Message
  BY DEF Msg, Message
<1>4. {"version", "choice", "clientInit", "response", "ardResponse", "setup"} \subseteq Kinds
  BY DEF Readers, SessionMessages
<1>5. \A k \in {"version", "choice", "clientInit", "response", "ardResponse"} :
          k \notin WindowKinds
  BY DEF WindowKinds
<1>. QED BY <1>1, <1>2, <1>3, <1>4, <1>5

\* The first of the types of a list that are usable.
LEMMA FirstUsable ==
    ASSUME NEW usable \in SUBSET Nat, usable # {}
    PROVE  LET first == CHOOSE i \in usable : \A j \in usable : i <= j
           IN  first \in usable
<1>1. \E i \in usable : \A j \in usable : ~ (<<j, i>> \in OpToRel(<, Nat))
  BY NatLessThanWellFounded, WFMin
<1>2. \E i \in usable : \A j \in usable : i <= j
  <2>1. \A i, j \in Nat : <<j, i>> \in OpToRel(<, Nat) <=> j < i
    BY DEF OpToRel
  <2>2. PICK i \in usable : \A j \in usable : ~ (<<j, i>> \in OpToRel(<, Nat))
    BY <1>1
  <2>3. ASSUME NEW j \in usable PROVE i <= j
    <3>1. i \in Nat /\ j \in Nat /\ ~(j < i)
      BY <2>1, <2>2
    <3>. QED BY <3>1
  <2>. QED BY <2>3
<1>. QED BY <1>2

LEMMA OneWritten ==
    ASSUME open, NEW c \in Call, c.wrote = <<>>, NEW m \in Message
    PROVE  /\ Write(c, m) = [c EXCEPT !.wrote = <<m>>]
           /\ Write(c, m) \in Call
<1>1. Append(<<>>, m) = <<m>>
  OBVIOUS
<1>. QED BY <1>1, Writes

\* All of what the server sent has been read.
LEMMA LastRead ==
    ASSUME IInv, NEW r \in Readers \ {"nil"}, Arrived(r), Consume,
           NEW m, toClient = <<m>>
    PROVE  /\ toClient' = <<>> /\ toClient' \in Seq(Message)
           /\ conn \in Call /\ conn.wrote = <<>> /\ conn.session /\ conn.reader = r
           /\ conn.waiting = "no"
           /\ UNCHANGED <<owner, server, open>>
           /\ Head(toClient) = m
           /\ Active => open /\ server.phase # "hello"
                             /\ \/ server.phase # "running" /\ Quiet(toServer) /\ Answered
                                \/ Running
<1>1. Tail(<<m>>) = <<>> /\ <<m>>[1] = m
  BY Tails
<1>. QED BY <1>1, Reading, EmptySeq

\* A message is written, and the reader set to read the answer.
LEMMA Answers ==
    ASSUME NEW b \in Call, b.wrote = <<>>, b.session, NEW m \in Message,
           NEW next \in Readers, NEW c,
           \/ c = SetReader(Write(b, m), next)
           \/ c = [SetReader(Write(b, m), next) EXCEPT !.triedPassword = TRUE]
    PROVE  /\ ~open => Gone(c) /\ c.wrote = <<>>
           /\ open => /\ c \in Call /\ c.wrote = <<m>> /\ c.session /\ c.reader = next
                      /\ c.sheet = b.sheet /\ c.waiting = b.waiting
                      /\ c.visible = b.visible /\ c.minor = b.minor
                      /\ c.ardPeerKey = b.ardPeerKey
<1>. DEFINE w == Write(b, m)
            s == SetReader(w, next)
<1>1. ASSUME ~open PROVE Gone(c) /\ c.wrote = <<>>
  <2>1. Gone(w) /\ w.wrote = <<>>
    BY <1>1, WriteFails
  <2>. HIDE DEF w
  <2>2. Gone(s) /\ s.wrote = <<>>
    BY <2>1, GoneReads DEF SetReader, Gone, Call
  <2>3. c = s \/ c = [s EXCEPT !.triedPassword = TRUE]
    BY DEF w
  <2>. HIDE DEF s
  <2>4. CASE c = s
    BY <2>2, <2>4
  <2>5. CASE c = [s EXCEPT !.triedPassword = TRUE]
    BY <2>2, <2>5 DEF Gone, Call
  <2>. QED BY <2>3, <2>4, <2>5
<1>2. ASSUME open
      PROVE  /\ c \in Call /\ c.wrote = <<m>> /\ c.session /\ c.reader = next
             /\ c.sheet = b.sheet /\ c.waiting = b.waiting
             /\ c.visible = b.visible /\ c.minor = b.minor
             /\ c.ardPeerKey = b.ardPeerKey
  <2>1. w = [b EXCEPT !.wrote = <<m>>]
    BY <1>2, OneWritten
  <2>2. <<m>> \in Seq(Message)
    OBVIOUS
  <2>. HIDE DEF w
  <2>3. s = [w EXCEPT !.reader = next]
    BY DEF SetReader
  <2>4. c = s \/ c = [s EXCEPT !.triedPassword = TRUE]
    BY DEF w
  <2>. HIDE DEF s
  <2>5. /\ s \in Call /\ s.wrote = <<m>> /\ s.session /\ s.reader = next
        /\ s.sheet = b.sheet /\ s.waiting = b.waiting
        /\ s.visible = b.visible /\ s.minor = b.minor
        /\ s.ardPeerKey = b.ardPeerKey
    BY <2>1, <2>2, <2>3 DEF Call
  <2>6. CASE c = s
    BY <2>5, <2>6
  <2>7. CASE c = [s EXCEPT !.triedPassword = TRUE]
    BY <2>5, <2>7 DEF Call
  <2>. QED BY <2>4, <2>6, <2>7
<1>. QED BY <1>1, <1>2

\* An answer of the client, after all that the server has sent is read: what
\* is left to show is that the server expects it.
LEMMA AnswerInv ==
    ASSUME IInv, UNCHANGED <<owner, server, open>>, toClient' = <<>>, conn.session,
           NEW b \in Call, b.wrote = <<>>, b.session,
           b.sheet = conn.sheet, b.waiting = conn.waiting, b.visible = conn.visible,
           Active /\ b.minor # conn.minor => server.phase \in {"hello", "version"},
           Active /\ b.ardPeerKey # conn.ardPeerKey => server.phase = "ardResponse",
           NEW m \in Message, m.kind \notin WindowKinds, NEW next \in Readers,
           NEW c, Becomes(c),
           \/ c = SetReader(Write(b, m), next)
           \/ c = [SetReader(Write(b, m), next) EXCEPT !.triedPassword = TRUE],
           Active => open /\ server.phase # "running" /\ Quiet(toServer),
           /\ Active /\ Next1(toServer', m)
           /\ conn'.reader = next /\ conn'.minor = b.minor
           /\ conn'.waiting = conn.waiting /\ conn'.ardPeerKey = b.ardPeerKey
           => Agree'
    PROVE  IInv'
<1>1. toClient' \in Seq(Message)
  BY EmptySeq
<1>2. CASE ~open
  <2>1. Gone(c) /\ c.wrote = <<>>
    BY <1>2, Answers
  <2>. QED BY <1>1, <1>2, <2>1, GivesUp
<1>3. CASE open
  <2>1. /\ c \in Call /\ c.wrote = <<m>> /\ c.session /\ c.reader = next
        /\ c.sheet = b.sheet /\ c.waiting = b.waiting
        /\ c.visible = b.visible /\ c.minor = b.minor
        /\ c.ardPeerKey = b.ardPeerKey
    BY <1>3, Answers
  <2>2. /\ conn'.reader = next /\ conn'.minor = b.minor
        /\ conn'.waiting = conn.waiting /\ conn'.ardPeerKey = b.ardPeerKey
    BY <2>1 DEF Becomes, Call
  <2>3. Active => (Next1(toServer', m) => Agree')
    BY <2>2
  <2>. QED BY <1>3, <2>1, <2>3, Replies
<1>. QED BY <1>2, <1>3

\* The client waits for its user, with the sheet on the screen.
LEMMA AsksUser ==
    ASSUME IInv, UNCHANGED <<owner, server, open>>, toClient' = <<>>, conn.session,
           NEW b \in Call, b.wrote = <<>>, b.session,
           b.minor = conn.minor, b.visible = conn.visible,
           Active /\ b.ardPeerKey # conn.ardPeerKey => server.phase = "ardResponse",
           NEW kind \in {"challenge", "ard"},
           NEW c, Becomes(c), c = [b EXCEPT !.sheet = TRUE, !.waiting = kind],
           /\ Active /\ toServer' = toServer
           /\ conn'.waiting = kind /\ conn'.reader = b.reader
           /\ conn'.ardPeerKey = b.ardPeerKey
           => Agree'
    PROVE  IInv'
<1>1. /\ c \in Call /\ c.wrote = <<>> /\ c.session /\ c.sheet /\ c.waiting = kind
      /\ c.minor = conn.minor /\ c.visible = conn.visible /\ c.reader = b.reader
      /\ c.ardPeerKey = b.ardPeerKey
  BY DEF Call
<1>2. conn' = [c EXCEPT !.wrote = <<>>]
  BY DEF Becomes
<1>3. /\ conn' \in Connection /\ conn'.session /\ conn'.sheet /\ conn'.waiting = kind
      /\ conn'.minor = conn.minor /\ conn'.visible = conn.visible
      /\ conn'.reader = b.reader /\ conn'.ardPeerKey = b.ardPeerKey
  BY <1>1, <1>2, CallEnds DEF Call
<1>4. toServer' = toServer /\ toServer' \in Seq(Message) /\ Undisturbed'
  BY <1>1, SaysNothing
<1>5. SheetHasPurpose'
  BY <1>3 DEF SheetHasPurpose
<1>6. SameVersion'
  BY <1>3 DEF IInv, SameVersion, Active
<1>7. Visible'
  BY <1>3 DEF IInv, Visible, Active
<1>8. toClient' \in Seq(Message)
  BY EmptySeq
<1>9. Active => Agree'
  BY <1>3, <1>4
<1>. QED BY <1>3, <1>4, <1>5, <1>6, <1>7, <1>8, <1>9, NothingToRead, GoesOnInv

\* What the client does about a list of security types.
LEMMA FirstType ==
    ASSUME NEW c, NEW offer \in Seq(1 .. 255)
    PROVE  \/ SetAuthArray(c, offer) = Terminate(Write(c, Msg("choice", <<Unusable>>)))
           \/ SetAuthArray(c, offer) = ChooseNoAuth(c)
           \/ SetAuthArray(c, offer) = SetReader(Write(c, Msg("choice", <<VncAuth>>)), "challenge")
           \/ SetAuthArray(c, offer) = ChooseArd(c)
<1>. DEFINE usable == {i \in 1 .. Len(offer) : offer[i] \in {NoAuth, VncAuth, ArdAuth}}
            first  == CHOOSE i \in usable : \A j \in usable : i <= j
<1>1. CASE usable = {}
  BY <1>1 DEF SetAuthArray
<1>2. CASE usable # {}
  <2>1. usable \in SUBSET Nat
    BY LenProperties
  <2>2. first \in usable
    BY <1>2, <2>1, FirstUsable
  <2>3. offer[first] \in {NoAuth, VncAuth, ArdAuth}
    BY <2>2
  <2>4. SetAuthArray(c, offer) =
            CASE offer[first] = NoAuth  -> ChooseNoAuth(c)
              [] offer[first] = VncAuth ->
                   SetReader(Write(c, Msg("choice", <<VncAuth>>)), "challenge")
              [] offer[first] = ArdAuth -> ChooseArd(c)
    BY <1>2 DEF SetAuthArray
  <2>. HIDE DEF first
  <2>. QED BY <2>3, <2>4 DEF NoAuth, VncAuth, ArdAuth
<1>. QED BY <1>1, <1>2

\* No type of the list is usable: the client says so, and ends.
LEMMA RefusesInv ==
    ASSUME IInv, UNCHANGED <<owner, server, open>>, toClient' = <<>>,
           conn \in Call, conn.wrote = <<>>, conn.session,
           Becomes(Terminate(Write(conn, Msg("choice", <<Unusable>>)))),
           Active => open /\ server.phase = "choice" /\ Quiet(toServer)
    PROVE  IInv'
<1>. DEFINE m == Msg("choice", <<Unusable>>)
            w == Write(conn, m)
            c == Terminate(w)
<1>1. m \in Message /\ m.kind \notin WindowKinds
  BY Words DEF Unusable
<1>2. toClient' \in Seq(Message)
  BY EmptySeq
<1>3. CASE ~open
  <2>1. Gone(w) /\ w.wrote = <<>> /\ w \in Call
    BY <1>3, WriteFails DEF Gone
  <2>. HIDE DEF w
  <2>2. Gone(c) /\ c.wrote = <<>>
    BY <2>1, Terminates
  <2>. HIDE DEF c
  <2>3. Becomes(c)
    BY DEF c, w
  <2>. QED BY <1>2, <1>3, <2>2, <2>3, GivesUp
<1>4. CASE open
  <2>. HIDE DEF m
  <2>1. w = [conn EXCEPT !.wrote = <<m>>] /\ w \in Call
    BY <1>1, <1>4, OneWritten
  <2>2. w.session /\ w.wrote = <<m>>
    BY <2>1 DEF Call
  <2>. HIDE DEF w
  <2>3. Gone(c) /\ c.wrote = <<m>>
    BY <2>1, <2>2, Terminates
  <2>. HIDE DEF c
  <2>4. Becomes(c)
    BY DEF c, w, m
  <2>5. toServer' \in Seq(Message) /\ Undisturbed' /\ (Quiet(toServer) => Next1(toServer', m))
    BY <1>1, <1>4, <2>3, <2>4, Says
  <2>6. Active => Idle'
    BY <2>5 DEF Idle, m
  <2>. QED BY <1>2, <2>3, <2>4, <2>5, <2>6, EndsInv
<1>. QED BY <1>3, <1>4

\* No authentication is needed; 3.7 servers are not waited for.
LEMMA NoAuthInv ==
    ASSUME IInv, UNCHANGED <<owner, server, open>>, toClient' = <<>>,
           conn \in Call, conn.wrote = <<>>, conn.session, conn.waiting = "no",
           Becomes(ChooseNoAuth(conn)),
           Active => open /\ server.phase = "choice" /\ Quiet(toServer)
    PROVE  IInv'
<1>. DEFINE m == Msg("choice", <<NoAuth>>)
            n == Msg("clientInit", <<>>)
            c == ChooseNoAuth(conn)
<1>1. /\ m \in Message /\ m.kind \notin WindowKinds
      /\ n \in Message /\ n.kind \notin WindowKinds
  BY Words DEF NoAuth
<1>2. toClient' \in Seq(Message) /\ conn.minor \in Nat
  BY EmptySeq DEF Call
<1>3. CASE conn.minor >= 8
  <2>1. c = SetReader(Write(conn, m), "authResult") /\ "authResult" \in Readers
    BY <1>3 DEF ChooseNoAuth, Readers
  <2>2. Becomes(c)
    OBVIOUS
  <2>. HIDE DEF c, m
  <2>3. /\ Active /\ Next1(toServer', m)
        /\ conn'.reader = "authResult" /\ conn'.minor = conn.minor
        /\ conn'.waiting = conn.waiting
        => Agree'
    BY <1>3 DEF Agree, Replied, m
  <2>. QED BY <1>1, <1>3, <2>1, <2>2, <2>3, AnswerInv
<1>4. CASE conn.minor < 8 /\ ~open
  <2>1. Gone(c) /\ c.wrote = <<>>
    BY <1>4, NothingSent
  <2>2. Becomes(c)
    OBVIOUS
  <2>. HIDE DEF c
  <2>. QED BY <1>2, <1>4, <2>1, <2>2, GivesUp
<1>5. CASE conn.minor < 8 /\ open
  <2>. DEFINE w == Write(conn, m)
  <2>0. Becomes(c)
    OBVIOUS
  <2>1. c = SetReader(Write(w, n), "serverInit")
    BY <1>2, <1>5 DEF ChooseNoAuth, SendClientInit
  <2>. HIDE DEF c, m, n
  <2>2. w = [conn EXCEPT !.wrote = <<m>>] /\ w \in Call
    BY <1>1, <1>5, OneWritten
  <2>3. w.wrote = <<m>>
    BY <2>2 DEF Call
  <2>4. Write(w, n) = [w EXCEPT !.wrote = Append(w.wrote, n)] /\ Write(w, n) \in Call
    BY <1>1, <1>5, <2>2, Writes
  <2>5. Append(<<m>>, n) = <<m, n>>
    BY <1>1, TwoWords
  <2>. HIDE DEF w
  <2>6. Write(w, n) = [w EXCEPT !.wrote = <<m, n>>]
    BY <2>3, <2>4, <2>5
  <2>. DEFINE x == Write(w, n)
  <2>7. x = [w EXCEPT !.wrote = <<m, n>>] /\ x \in Call /\ c = SetReader(x, "serverInit")
    BY <2>1, <2>4, <2>6
  <2>. HIDE DEF x
  <2>12. x.wrote = <<m, n>> /\ x.session /\ x.sheet = conn.sheet /\ x.waiting = conn.waiting
         /\ x.visible = conn.visible /\ x.minor = conn.minor /\ x.ardPeerKey = conn.ardPeerKey
    BY <2>2, <2>7 DEF Call
  <2>8. /\ c \in Call /\ c.wrote = <<m, n>> /\ c.session /\ c.reader = "serverInit"
        /\ c.sheet = conn.sheet /\ c.waiting = conn.waiting /\ c.visible = conn.visible
        /\ c.minor = conn.minor /\ c.ardPeerKey = conn.ardPeerKey
    BY <2>7, <2>12 DEF SetReader, Call, Readers
  <2>9. toServer' \in Seq(Message) /\ Undisturbed' /\ (Quiet(toServer) => Next2(toServer', m, n))
    BY <1>1, <1>5, <2>0, <2>8, Says
  <2>10. conn'.reader = "serverInit" /\ conn'.minor = conn.minor /\ conn'.waiting = "no"
    BY <2>0, <2>8 DEF Becomes, Call
  <2>11. Active => Agree'
    BY <1>5, <2>9, <2>10 DEF Agree, Replied, m, n
  <2>. QED BY <1>2, <2>0, <2>8, <2>9, <2>11, NothingToRead, TalksInv
<1>. QED BY <1>2, <1>3, <1>4, <1>5

\* Credentials are sent if there are both, and asked for otherwise.
LEMMA ArdInv ==
    ASSUME IInv, UNCHANGED <<owner, server, open>>, toClient' = <<>>,
           conn \in Call, conn.wrote = <<>>, conn.session, conn.waiting = "no",
           conn.reader = "authArray", Becomes(ChooseArd(conn)),
           Active => open /\ server.phase = "choice" /\ Quiet(toServer)
    PROVE  IInv'
<1>. DEFINE apple == [conn EXCEPT !.apple = TRUE, !.resizable = FALSE]
            m == Msg("choice", <<ArdAuth>>)
            c == ChooseArd(conn)
<1>1. Becomes(c)
  OBVIOUS
<1>2. m \in Message /\ m.kind \notin WindowKinds /\ "ardGenerator" \in Readers
  BY Words DEF ArdAuth, Readers
<1>3. /\ apple \in Call /\ apple.wrote = <<>> /\ apple.session /\ apple.sheet = conn.sheet
      /\ apple.waiting = conn.waiting /\ apple.visible = conn.visible
      /\ apple.minor = conn.minor /\ apple.ardPeerKey = conn.ardPeerKey
      /\ apple.reader = "authArray"
  BY DEF Call
<1>4. c = IF conn.username /\ conn.password
          THEN SetReader(Write(apple, m), "ardGenerator")
          ELSE PromptForPassword([apple EXCEPT !.waiting = "ard"])
  BY DEF ChooseArd, StartArd
<1>. HIDE DEF apple, c, m
<1>5. CASE conn.username /\ conn.password
  <2>1. /\ Active /\ Next1(toServer', m)
        /\ conn'.reader = "ardGenerator" /\ conn'.minor = apple.minor
        /\ conn'.waiting = conn.waiting
        => Agree'
    BY DEF Agree, Replied, m
  <2>2. c = SetReader(Write(apple, m), "ardGenerator")
    BY <1>4, <1>5
  <2>. QED BY <1>1, <1>2, <1>3, <2>1, <2>2, AnswerInv
<1>6. CASE ~(conn.username /\ conn.password)
  <2>1. c = [apple EXCEPT !.sheet = TRUE, !.waiting = "ard"]
    BY <1>3, <1>4, <1>6 DEF PromptForPassword, Call
  <2>2. /\ Active /\ toServer' = toServer
        /\ conn'.waiting = "ard" /\ conn'.reader = apple.reader
        /\ conn'.ardPeerKey = apple.ardPeerKey
        => Agree'
    BY <1>3 DEF Agree, Asked
  <2>. QED BY <1>1, <1>3, <2>1, <2>2, AsksUser
<1>. QED BY <1>5, <1>6

LEMMA ReadVersionInv == ASSUME IInv, ReadVersion PROVE IInv'
<1>1. Arrived("version") /\ Consume /\ "version" \in Readers \ {"nil"}
  BY DEF ReadVersion, Readers
<1>2. PICK v \in Versions : toClient = <<Msg("version", v)>>
  BY <1>1, Reading DEF Remains
<1>3. /\ toClient' = <<>> /\ toClient' \in Seq(Message)
      /\ conn \in Call /\ conn.wrote = <<>> /\ conn.session /\ conn.reader = "version"
      /\ conn.waiting = "no"
      /\ UNCHANGED <<owner, server, open>> /\ Head(toClient) = Msg("version", v)
      /\ Active => open /\ Quiet(toServer) /\ server.phase = "version"
  BY <1>1, <1>2, LastRead DEF Answered, Running
<1>4. Becomes(SetServerVersion(conn, v))
  BY <1>3 DEF ReadVersion, Arg, Msg
<1>. DEFINE c == SetServerVersion(conn, v)
<1>5. CASE v = NotVNC
  <2>1. c = SessionTerminate(conn)
    BY <1>5 DEF SetServerVersion
  <2>2. Gone(c) /\ c.wrote = <<>>
    BY <1>3, <2>1, SessionTerminates
  <2>. HIDE DEF c
  <2>. QED BY <1>3, <1>4, <2>2, GivesUp DEF c
<1>6. CASE v # NotVNC
  <2>. DEFINE minor == ProtocolMinor(v)
              resizable == ~conn.apple /\ (v[1] > 3 \/ (v[1] = 3 /\ minor = 8))
              known == [conn EXCEPT !.minor = minor, !.handshaker = TRUE,
                                    !.resizable = resizable]
              m == Msg("version", <<minor>>)
              next == IF minor >= 7 THEN "authCount" ELSE "authType"
  <2>1. v[1] \in Nat /\ v[2] \in Nat
    BY <1>6, HandshakeAssumption
  <2>2. minor \in 0 .. 8
    BY <2>1 DEF ProtocolMinor, MinOf
  <2>3. resizable \in BOOLEAN /\ next \in Readers
    BY DEF Readers
  <2>4. c = SetReader(Write(known, m), next)
    BY <1>6 DEF SetServerVersion
  <2>5. m \in Message /\ m.kind \notin WindowKinds
    BY <2>2, Words
  <2>. HIDE DEF minor, resizable, c
  <2>6. /\ known \in Call /\ known.wrote = <<>> /\ known.session
        /\ known.sheet = conn.sheet /\ known.waiting = conn.waiting
        /\ known.visible = conn.visible /\ known.minor = minor
        /\ known.ardPeerKey = conn.ardPeerKey
    BY <1>3, <2>2, <2>3 DEF Call
  <2>. HIDE DEF known, m, next
  <2>7. Becomes(c)
    BY <1>4 DEF c
  <2>8. /\ Active /\ Next1(toServer', m) /\ conn'.reader = next /\ conn'.minor = minor
        /\ conn'.waiting = conn.waiting
        => Agree'
    BY <1>3 DEF Agree, Replied, m, next
  <2>. QED BY <1>3, <2>3, <2>4, <2>5, <2>6, <2>7, <2>8, AnswerInv
<1>. QED BY <1>5, <1>6

LEMMA ReadAuthArrayInv == ASSUME IInv, ReadAuthArray PROVE IInv'
<1>1. Arrived("authArray") /\ Consume /\ "authArray" \in Readers \ {"nil"}
  BY DEF ReadAuthArray, Readers
<1>2. PICK offer \in Offers : toClient = <<Msg("authArray", offer)>>
  BY <1>1, Reading DEF Remains
<1>3. /\ toClient' = <<>> /\ toClient' \in Seq(Message)
      /\ conn \in Call /\ conn.wrote = <<>> /\ conn.session /\ conn.reader = "authArray"
      /\ conn.waiting = "no"
      /\ UNCHANGED <<owner, server, open>> /\ Head(toClient) = Msg("authArray", offer)
      /\ Active => open /\ Quiet(toServer) /\ server.phase = "choice"
  BY <1>1, <1>2, LastRead DEF Answered, Running
<1>4. Becomes(SetAuthArray(conn, offer))
  BY <1>3 DEF ReadAuthArray, Arg, Msg
<1>5. offer \in Seq(1 .. 255)
  BY HandshakeAssumption
<1>6. CASE SetAuthArray(conn, offer) = Terminate(Write(conn, Msg("choice", <<Unusable>>)))
  <2>1. Becomes(Terminate(Write(conn, Msg("choice", <<Unusable>>))))
    BY <1>4, <1>6
  <2>. QED BY <1>3, <2>1, RefusesInv
<1>7. CASE SetAuthArray(conn, offer) = ChooseNoAuth(conn)
  BY <1>3, <1>4, <1>7, NoAuthInv
<1>8. CASE SetAuthArray(conn, offer)
              = SetReader(Write(conn, Msg("choice", <<VncAuth>>)), "challenge")
  <2>. DEFINE m == Msg("choice", <<VncAuth>>)
              c == SetReader(Write(conn, m), "challenge")
  <2>1. m \in Message /\ m.kind \notin WindowKinds /\ "challenge" \in Readers
    BY Words DEF VncAuth, Readers
  <2>2. Becomes(c)
    BY <1>4, <1>8
  <2>. HIDE DEF m
  <2>3. /\ Active /\ Next1(toServer', m)
        /\ conn'.reader = "challenge" /\ conn'.waiting = conn.waiting
        => Agree'
    BY <1>3 DEF Agree, Replied, m
  <2>4. c = SetReader(Write(conn, m), "challenge")
    OBVIOUS
  <2>. HIDE DEF c
  <2>. QED BY <1>3, <2>1, <2>2, <2>3, <2>4, AnswerInv
<1>9. CASE SetAuthArray(conn, offer) = ChooseArd(conn)
  BY <1>3, <1>4, <1>9, ArdInv
<1>. QED BY <1>5, <1>6, <1>7, <1>8, <1>9, FirstType

LEMMA ReadAuthTypeInv == ASSUME IInv, ReadAuthType PROVE IInv'
<1>1. Arrived("authType") /\ Consume /\ "authType" \in Readers \ {"nil"}
  BY DEF ReadAuthType, Readers
<1>2. /\ toClient # <<>> /\ Head(toClient) = toClient[1] /\ toClient' = Tail(toClient)
      /\ Remains("authType", conn.minor, toClient) /\ conn.waiting = "no"
      /\ UNCHANGED <<owner, server, open>> /\ conn.reader = "authType"
      /\ Active => open /\ Quiet(toServer) /\ Answered /\ server.phase # "running"
  BY <1>1, Reading DEF Running
<1>3. /\ Becomes(SetAuthType(conn, toClient[1].arg[1]))
      /\ {"reasonLength", "serverInit", "challenge"} \subseteq Readers
  BY <1>2 DEF ReadAuthType, Arg, Readers
<1>4. CASE toClient[1] = Msg("authType", <<0>>) /\ Refusal(Tail(toClient))
  <2>1. Becomes(SetReader(conn, "reasonLength"))
    BY <1>3, <1>4 DEF SetAuthType, Msg, NoAuth, VncAuth
  <2>2. conn'.reader = "reasonLength" /\ conn'.minor = conn.minor /\ conn'.waiting = "no"
    BY <1>2, <1>3, <2>1, AfterReader
  <2>3. Legible'
    BY <1>2, <1>4, <2>2 DEF Legible, Remains, Refusal
  <2>4. ~Active
    BY <1>2, <1>4, Tails DEF Answered, Msg, NoAuth, VncAuth
  <2>. QED BY <1>1, <1>3, <2>1, <2>3, <2>4, ReadsOn
<1>5. CASE toClient = <<Msg("authType", <<NoAuth>>)>>
  <2>. DEFINE m == Msg("clientInit", <<>>)
              c == SetReader(Write(conn, m), "serverInit")
  <2>1. /\ toClient' = <<>> /\ conn \in Call /\ conn.wrote = <<>> /\ conn.session
    BY <1>1, <1>5, LastRead
  <2>2. Becomes(c)
    BY <1>3, <1>5, Tails DEF SetAuthType, SendClientInit, Msg, NoAuth, VncAuth
  <2>3. m \in Message /\ m.kind \notin WindowKinds
    BY Words
  <2>4. Active => server.phase = "clientInit"
    BY <1>2, <1>5, Tails DEF Answered, Msg, NoAuth, VncAuth
  <2>5. /\ Active /\ Next1(toServer', m)
        /\ conn'.reader = "serverInit" /\ conn'.waiting = conn.waiting
        => Agree'
    BY <1>2, <2>1, <2>4 DEF Agree, Replied
  <2>. HIDE DEF m
  <2>6. c = SetReader(Write(conn, m), "serverInit")
    OBVIOUS
  <2>. HIDE DEF c
  <2>. QED BY <1>2, <1>3, <2>1, <2>2, <2>3, <2>4, <2>5, <2>6, AnswerInv
<1>6. CASE toClient = <<Msg("authType", <<VncAuth>>), Msg("challenge", <<>>)>>
  <2>1. toClient[1] = Msg("authType", <<VncAuth>>) /\ toClient' = <<Msg("challenge", <<>>)>>
    BY <1>2, <1>6, Tails
  <2>2. Becomes(SetReader(conn, "challenge"))
    BY <1>3, <2>1 DEF SetAuthType, Msg, NoAuth, VncAuth
  <2>3. /\ conn'.reader = "challenge" /\ conn'.minor = conn.minor /\ conn'.waiting = "no"
        /\ toServer' = toServer
    BY <1>2, <1>3, <2>2, AfterReader
  <2>4. Legible' /\ toClient' # <<>>
    BY <2>1, <2>3, Tails DEF Legible, Remains
  <2>5. Active => server.phase = "response"
    BY <1>2, <1>6, <2>1, Tails DEF Answered, Msg, NoAuth, VncAuth
  <2>6. Active => Agree'
    BY <1>2, <2>3, <2>4, <2>5 DEF Agree, Answered
  <2>. QED BY <1>1, <1>3, <2>2, <2>4, <2>6, ReadsOn
<1>. QED BY <1>2, <1>4, <1>5, <1>6 DEF Remains

LEMMA ReadChallengeInv == ASSUME IInv, ReadChallenge PROVE IInv'
<1>. DEFINE m == Msg("response", <<>>)
            c == Challenge(conn)
<1>1. Arrived("challenge") /\ Consume /\ "challenge" \in Readers \ {"nil"} /\ Becomes(c)
  BY DEF ReadChallenge, Readers
<1>2. toClient = <<Msg("challenge", <<>>)>>
  BY <1>1, Reading DEF Remains
<1>3. /\ toClient' = <<>> /\ toClient' \in Seq(Message)
      /\ conn \in Call /\ conn.wrote = <<>> /\ conn.session /\ conn.reader = "challenge"
      /\ conn.waiting = "no"
      /\ UNCHANGED <<owner, server, open>>
      /\ Active => open /\ Quiet(toServer) /\ server.phase = "response"
  BY <1>1, <1>2, LastRead DEF Answered, Running
<1>4. m \in Message /\ m.kind \notin WindowKinds /\ "authResult" \in Readers
  BY Words DEF Readers
<1>5. CASE conn.password
  <2>1. c = [SetReader(Write(conn, m), "authResult") EXCEPT !.triedPassword = TRUE]
    BY <1>5 DEF Challenge, SendCredentials
  <2>2. /\ Active /\ Next1(toServer', m)
        /\ conn'.reader = "authResult" /\ conn'.waiting = conn.waiting
        => Agree'
    BY <1>3 DEF Agree, Replied
  <2>. HIDE DEF m, c
  <2>. QED BY <1>1, <1>3, <1>4, <2>1, <2>2, AnswerInv
<1>6. CASE ~conn.password
  <2>1. c = [conn EXCEPT !.sheet = TRUE, !.waiting = "challenge"]
    BY <1>3, <1>6 DEF Challenge, PromptForPassword, Call
  <2>2. /\ Active /\ toServer' = toServer
        /\ conn'.waiting = "challenge" /\ conn'.reader = conn.reader
        => Agree'
    BY <1>3 DEF Agree, Asked
  <2>. HIDE DEF c
  <2>. QED BY <1>1, <1>3, <2>1, <2>2, AsksUser
<1>. QED BY <1>5, <1>6

\* The parameters of the key agreement are read one after the other.
LEMMA ReadArdInv ==
    ASSUME IInv, ReadArdGenerator \/ ReadArdKeySize \/ ReadArdPrime
    PROVE  IInv'
<1>1. ASSUME NEW r \in Readers \ {"nil"}, NEW next \in {"ardKeySize", "ardPrime", "ardPeerKey"},
             Arrived(r), Consume, Becomes(SetReader(conn, next)),
             r \in {"ardGenerator", "ardKeySize", "ardPrime"},
             Remains(r, conn.minor, toClient) =>
                 Tail(toClient) # <<>> /\ Remains(next, conn.minor, Tail(toClient))
      PROVE  IInv'
  <2>1. /\ toClient' = Tail(toClient) /\ UNCHANGED <<owner, server, open>>
        /\ Remains(r, conn.minor, toClient) /\ conn.waiting = "no" /\ conn.reader = r
        /\ Active => open /\ Quiet(toServer) /\ server.phase = "ardResponse"
    BY <1>1, Reading DEF Answered, Running
  <2>2. next \in Readers
    BY DEF Readers
  <2>3. /\ conn'.reader = next /\ conn'.minor = conn.minor /\ conn'.waiting = "no"
        /\ toServer' = toServer
    BY <1>1, <2>1, <2>2, AfterReader
  <2>4. Legible' /\ toClient' # <<>>
    BY <1>1, <2>1, <2>3 DEF Legible
  <2>5. Active => Agree'
    BY <2>1, <2>3, <2>4 DEF Agree, Answered
  <2>. QED BY <1>1, <2>2, <2>4, <2>5, ReadsOn
<1>2. CASE ReadArdGenerator
  <2>1. SUFFICES ASSUME NEW minor, Remains("ardGenerator", minor, toClient)
                 PROVE  Tail(toClient) # <<>> /\ Remains("ardKeySize", minor, Tail(toClient))
    BY <1>1, <1>2 DEF ReadArdGenerator, Readers
  <2>2. toClient = <<Msg("ardGenerator", <<>>), Msg("ardKeySize", <<>>),
                     Msg("ardPrime", <<>>), Msg("ardPeerKey", <<>>)>>
    BY <2>1 DEF Remains
  <2>3. Tail(toClient) = <<Msg("ardKeySize", <<>>),
                           Msg("ardPrime", <<>>), Msg("ardPeerKey", <<>>)>>
    BY <2>2, Tails
  <2>. QED BY <2>3, Tails DEF Remains
<1>3. CASE ReadArdKeySize
  <2>1. SUFFICES ASSUME NEW minor, Remains("ardKeySize", minor, toClient)
                 PROVE  Tail(toClient) # <<>> /\ Remains("ardPrime", minor, Tail(toClient))
    BY <1>1, <1>3 DEF ReadArdKeySize, Readers
  <2>2. toClient = <<Msg("ardKeySize", <<>>),
                     Msg("ardPrime", <<>>), Msg("ardPeerKey", <<>>)>>
    BY <2>1 DEF Remains
  <2>3. Tail(toClient) = <<Msg("ardPrime", <<>>), Msg("ardPeerKey", <<>>)>>
    BY <2>2, Tails
  <2>. QED BY <2>3, Tails DEF Remains
<1>4. CASE ReadArdPrime
  <2>1. SUFFICES ASSUME NEW minor, Remains("ardPrime", minor, toClient)
                 PROVE  Tail(toClient) # <<>> /\ Remains("ardPeerKey", minor, Tail(toClient))
    BY <1>1, <1>4 DEF ReadArdPrime, Readers
  <2>2. toClient = <<Msg("ardPrime", <<>>), Msg("ardPeerKey", <<>>)>>
    BY <2>1 DEF Remains
  <2>3. Tail(toClient) = <<Msg("ardPeerKey", <<>>)>>
    BY <2>2, Tails
  <2>. QED BY <2>3, Tails DEF Remains
<1>. QED BY <1>2, <1>3, <1>4

LEMMA ReadArdPeerKeyInv == ASSUME IInv, ReadArdPeerKey PROVE IInv'
<1>1. Arrived("ardPeerKey") /\ Consume /\ "ardPeerKey" \in Readers \ {"nil"}
  BY DEF ReadArdPeerKey, Readers
<1>. DEFINE b == [conn EXCEPT !.ardPeerKey = TRUE]
            m == Msg("ardResponse", <<>>)
<1>2. PICK helperOK \in BOOLEAN : Becomes(PerformArdAuth(b, helperOK))
  BY DEF ReadArdPeerKey
<1>. DEFINE c == PerformArdAuth(b, helperOK)
<1>3. toClient = <<Msg("ardPeerKey", <<>>)>>
  BY <1>1, Reading DEF Remains
<1>4. /\ toClient' = <<>> /\ toClient' \in Seq(Message)
      /\ conn \in Call /\ conn.wrote = <<>> /\ conn.session /\ conn.reader = "ardPeerKey"
      /\ conn.waiting = "no"
      /\ UNCHANGED <<owner, server, open>>
      /\ Active => open /\ Quiet(toServer) /\ server.phase = "ardResponse"
  BY <1>1, <1>3, LastRead DEF Answered, Running
<1>5. /\ b \in Call /\ b.wrote = <<>> /\ b.session /\ b.sheet = conn.sheet
      /\ b.waiting = conn.waiting /\ b.visible = conn.visible /\ b.minor = conn.minor
      /\ b.ardPeerKey /\ b.reader = "ardPeerKey"
  BY <1>4 DEF Call
<1>6. m \in Message /\ m.kind \notin WindowKinds /\ "authResult" \in Readers
  BY Words DEF Readers
<1>7. c = IF ~(b.username /\ b.password)
          THEN PromptForPassword([b EXCEPT !.waiting = "ard"])
          ELSE IF helperOK
               THEN [SetReader(Write(b, m), "authResult") EXCEPT !.triedPassword = TRUE]
               ELSE Terminate(b)
  BY DEF PerformArdAuth, SendCredentials
<1>8. Becomes(c)
  BY <1>2
<1>. HIDE DEF b, c
<1>9. CASE ~(b.username /\ b.password)
  <2>1. c = [b EXCEPT !.sheet = TRUE, !.waiting = "ard"]
    BY <1>5, <1>7, <1>9 DEF PromptForPassword, Call
  <2>2. /\ Active /\ toServer' = toServer
        /\ conn'.waiting = "ard" /\ conn'.reader = b.reader
        /\ conn'.ardPeerKey = b.ardPeerKey
        => Agree'
    BY <1>4, <1>5 DEF Agree, Asked
  <2>. QED BY <1>4, <1>5, <1>8, <2>1, <2>2, AsksUser
<1>10. CASE b.username /\ b.password /\ helperOK
  <2>1. c = [SetReader(Write(b, m), "authResult") EXCEPT !.triedPassword = TRUE]
    BY <1>7, <1>10
  <2>2. /\ Active /\ Next1(toServer', m)
        /\ conn'.reader = "authResult" /\ conn'.waiting = conn.waiting
        => Agree'
    BY <1>4 DEF Agree, Replied
  <2>. HIDE DEF m
  <2>. QED BY <1>4, <1>5, <1>6, <1>8, <2>1, <2>2, AnswerInv
<1>11. CASE b.username /\ b.password /\ ~helperOK
  <2>1. Gone(c) /\ c.wrote = <<>>
    BY <1>5, <1>7, <1>11, Terminates
  <2>. QED BY <1>4, <1>8, <2>1, GivesUp
<1>. QED BY <1>9, <1>10, <1>11

LEMMA ReadAuthResultInv == ASSUME IInv, ReadAuthResult PROVE IInv'
<1>1. Arrived("authResult") /\ Consume /\ "authResult" \in Readers \ {"nil"}
  BY DEF ReadAuthResult, Readers
<1>2. /\ toClient # <<>> /\ Head(toClient) = toClient[1] /\ toClient' = Tail(toClient)
      /\ Remains("authResult", conn.minor, toClient) /\ conn.waiting = "no"
      /\ UNCHANGED <<owner, server, open>> /\ conn.reader = "authResult"
      /\ Active => /\ open /\ Quiet(toServer) /\ server.phase = "clientInit"
                   /\ toClient = <<Msg("authResult", <<0>>)>>
  BY <1>1, Reading DEF Running, Answered
<1>3. /\ Becomes(SetAuthResult(conn, toClient[1].arg[1]))
      /\ {"reasonLength", "serverInit"} \subseteq Readers
  BY <1>2 DEF ReadAuthResult, Arg, Readers
<1>4. ASSUME NEW n, toClient = <<Msg("authResult", <<n>>)>>
      PROVE  /\ toClient' = <<>> /\ toClient' \in Seq(Message) /\ conn \in Call
             /\ conn.wrote = <<>> /\ conn.session
             /\ toClient[1] = Msg("authResult", <<n>>) /\ toClient[1].arg[1] = n
  BY <1>1, <1>4, LastRead, Tails DEF Msg
<1>5. CASE toClient = <<Msg("authResult", <<0>>)>>
  <2>. DEFINE m == Msg("clientInit", <<>>)
              c == SetReader(Write(conn, m), "serverInit")
  <2>1. /\ toClient' = <<>> /\ conn \in Call /\ conn.wrote = <<>> /\ conn.session
        /\ Becomes(c)
    BY <1>3, <1>4, <1>5 DEF SetAuthResult, SendClientInit
  <2>3. m \in Message /\ m.kind \notin WindowKinds
    BY Words
  <2>5. /\ Active /\ Next1(toServer', m)
        /\ conn'.reader = "serverInit" /\ conn'.waiting = conn.waiting
        => Agree'
    BY <1>2, <2>1 DEF Agree, Replied
  <2>. HIDE DEF m
  <2>6. c = SetReader(Write(conn, m), "serverInit")
    OBVIOUS
  <2>. HIDE DEF c
  <2>. QED BY <1>2, <1>3, <2>1, <2>3, <2>5, <2>6, AnswerInv
<1>6. CASE toClient = <<Msg("authResult", <<1>>)>> /\ conn.minor < 8
  <2>1. SetAuthResult(conn, 1) = Failed(conn)
    <3>1. conn.minor \in 0 .. 8
      BY <1>4, <1>6 DEF Call
    <3>. QED BY <1>6, <3>1 DEF SetAuthResult
  <2>2. Gone(Failed(conn)) /\ Failed(conn).wrote = <<>>
    BY <1>4, <1>6, Fails
  <2>3. Becomes(Failed(conn)) /\ ~Active
    BY <1>2, <1>3, <1>4, <1>6, <2>1 DEF Msg
  <2>. QED BY <1>2, <1>4, <1>6, <2>2, <2>3, GivesUp
<1>7. CASE toClient[1] = Msg("authResult", <<1>>) /\ Refusal(Tail(toClient)) /\ conn.minor >= 8
  <2>1. toClient[1].arg[1] = 1
    BY <1>7 DEF Msg
  <2>2. Becomes(SetReader(conn, "reasonLength"))
    <3>1. conn.minor \in 0 .. 8
      BY <1>1, Reading DEF Call
    <3>. QED BY <1>3, <1>7, <2>1, <3>1 DEF SetAuthResult
  <2>3. conn'.reader = "reasonLength" /\ conn'.minor = conn.minor /\ conn'.waiting = "no"
    BY <1>2, <1>3, <2>2, AfterReader
  <2>4. Legible'
    BY <1>2, <1>7, <2>3 DEF Legible, Remains
  <2>5. ~Active
    BY <1>2, <1>7, Tails DEF Msg
  <2>. QED BY <1>1, <1>3, <2>2, <2>4, <2>5, ReadsOn
<1>8. CASE toClient = <<Msg("authResult", <<2>>)>>
  <2>1. SetAuthResult(conn, 2) = Terminate(conn)
    BY DEF SetAuthResult
  <2>2. Gone(Terminate(conn)) /\ Terminate(conn).wrote = <<>>
    BY <1>4, <1>8, Terminates
  <2>3. Becomes(Terminate(conn)) /\ ~Active
    BY <1>2, <1>3, <1>4, <1>8, <2>1, Tails DEF Msg
  <2>. QED BY <1>2, <1>4, <1>8, <2>2, <2>3, GivesUp
<1>9. CASE toClient = <<Msg("authResult", <<3>>)>>
  <2>1. SetAuthResult(conn, 3) = Failed(conn)
    BY DEF SetAuthResult
  <2>2. Gone(Failed(conn)) /\ Failed(conn).wrote = <<>>
    BY <1>4, <1>9, Fails
  <2>3. Becomes(Failed(conn)) /\ ~Active
    BY <1>2, <1>3, <1>4, <1>9, <2>1 DEF Msg
  <2>. QED BY <1>2, <1>4, <1>9, <2>2, <2>3, GivesUp
<1>. QED BY <1>2, <1>5, <1>6, <1>7, <1>8, <1>9 DEF Remains

LEMMA ReadReasonInv == ASSUME IInv, ReadReasonLength \/ ReadReason PROVE IInv'
<1>1. ASSUME NEW r \in {"reasonLength", "reason"}, NEW m, Arrived(r), Consume,
             toClient = <<m>>, Becomes(Failed(conn))
      PROVE  IInv'
  <2>1. r \in Readers \ {"nil"}
    BY DEF Readers
  <2>2. /\ toClient' = <<>> /\ toClient' \in Seq(Message) /\ conn \in Call
        /\ conn.wrote = <<>> /\ conn.session /\ ~Active /\ UNCHANGED <<owner, server, open>>
    BY <1>1, <2>1, LastRead DEF Answered, Running
  <2>3. Gone(Failed(conn)) /\ Failed(conn).wrote = <<>>
    BY <2>2, Fails
  <2>. QED BY <1>1, <2>2, <2>3, GivesUp
<1>2. CASE ReadReasonLength
  <2>1. Arrived("reasonLength") /\ Consume /\ {"reasonLength", "reason"} \subseteq Readers \ {"nil"}
    BY <1>2 DEF ReadReasonLength, Readers
  <2>2. /\ toClient' = Tail(toClient) /\ Refusal(toClient) /\ conn.waiting = "no"
        /\ UNCHANGED <<owner, server, open>> /\ ~Active /\ Head(toClient) = toClient[1]
    BY <2>1, Reading DEF Remains, Answered, Running
  <2>3. CASE toClient = <<Msg("reasonLength", <<0>>)>>
    <3>1. Becomes(Failed(conn))
      BY <1>2, <2>3, Tails DEF ReadReasonLength, Arg, Msg
    <3>. QED BY <1>1, <2>1, <2>3, <3>1
  <2>4. CASE toClient = <<Msg("reasonLength", <<1>>), Msg("reason", <<>>)>>
    <3>1. toClient' = <<Msg("reason", <<>>)>> /\ toClient[1].arg[1] = 1
      BY <2>2, <2>4, Tails DEF Msg
    <3>2. Becomes(SetReader(conn, "reason"))
      BY <1>2, <2>2, <3>1 DEF ReadReasonLength, Arg
    <3>3. conn'.reader = "reason" /\ conn'.waiting = "no"
      BY <2>1, <2>2, <3>2, AfterReader
    <3>4. Legible'
      BY <3>1, <3>3 DEF Legible, Remains
    <3>. QED BY <2>1, <2>2, <3>2, <3>4, ReadsOn
  <2>. QED BY <2>2, <2>3, <2>4 DEF Refusal
<1>3. CASE ReadReason
  <2>1. Arrived("reason") /\ Consume /\ "reason" \in Readers \ {"nil"} /\ Becomes(Failed(conn))
    BY <1>3 DEF ReadReason, Readers
  <2>2. toClient = <<Msg("reason", <<>>)>>
    BY <2>1, Reading DEF Remains
  <2>. QED BY <1>1, <2>1, <2>2
<1>. QED BY <1>2, <1>3

\* The session starts: its window is on the screen, and writes from now on.
LEMMA StartInv ==
    ASSUME IInv, UNCHANGED <<owner, server, open>>, toClient' = <<>>,
           conn \in Call, conn.wrote = <<>>, conn.session, conn.waiting = "no",
           NEW apple \in BOOLEAN, Becomes(Start(conn, apple)),
           Active => open /\ server.phase = "running"
    PROVE  IInv'
<1>. DEFINE named == [conn EXCEPT !.apple = conn.apple \/ apple,
                                  !.resizable = conn.resizable /\ ~apple]
            b == SetReader([named EXCEPT !.visible = TRUE], "type")
            m == Msg("setup", <<>>)
            w == Write(b, m)
            c == [w EXCEPT !.handshaker = FALSE]
<1>1. c = Start(conn, apple)
  BY DEF Start
<1>2. Becomes(c)
  BY <1>1
<1>3. m \in Message /\ m.kind \in SessionMessages
  BY Words DEF SessionMessages
<1>4. toClient' \in Seq(Message)
  BY EmptySeq
<1>5. named \in Call /\ named.wrote = <<>> /\ named.session /\ named.sheet = conn.sheet
      /\ named.waiting = "no" /\ named.minor = conn.minor
      /\ named.ardPeerKey = conn.ardPeerKey
  BY DEF Call
<1>. HIDE DEF named
<1>6. b \in Call /\ b.wrote = <<>> /\ b.session /\ b.sheet = conn.sheet
      /\ b.waiting = "no" /\ b.minor = conn.minor /\ b.ardPeerKey = conn.ardPeerKey
      /\ b.reader = "type" /\ b.visible
  <2>1. b = [named EXCEPT !.visible = TRUE, !.reader = "type"]
    BY <1>5 DEF SetReader, Call
  <2>. HIDE DEF b
  <2>2. "type" \in Readers
    BY DEF Readers
  <2>3. b \in Call
    BY <1>5, <2>1, <2>2 DEF Call
  <2>4. /\ b.wrote = <<>> /\ b.session /\ b.sheet = conn.sheet
        /\ b.waiting = "no" /\ b.minor = conn.minor
        /\ b.ardPeerKey = conn.ardPeerKey /\ b.reader = "type" /\ b.visible
    BY <1>5, <2>1 DEF Call
  <2>. QED BY <2>3, <2>4
<1>. HIDE DEF b, m
<1>7. CASE ~open
  <2>1. Gone(w) /\ w.wrote = <<>>
    BY <1>6, <1>7, WriteFails
  <2>. HIDE DEF w
  <2>2. Gone(c) /\ c.wrote = <<>>
    BY <2>1 DEF Gone, Call
  <2>. HIDE DEF c
  <2>. QED BY <1>2, <1>4, <1>7, <2>2, GivesUp
<1>8. CASE open
  <2>1. w = [b EXCEPT !.wrote = <<m>>] /\ w \in Call
    BY <1>3, <1>6, <1>8, OneWritten
  <2>. HIDE DEF w
  <2>2. /\ c \in Call /\ c.wrote = <<m>> /\ c.session /\ c.reader = "type"
        /\ c.sheet = conn.sheet /\ c.waiting = conn.waiting /\ c.visible
        /\ c.minor = conn.minor /\ c.ardPeerKey = conn.ardPeerKey
    <3>1. /\ w.wrote = <<m>> /\ w.session /\ w.reader = "type"
          /\ w.sheet = conn.sheet /\ w.waiting = conn.waiting /\ w.visible
          /\ w.minor = conn.minor /\ w.ardPeerKey = conn.ardPeerKey
      BY <1>6, <2>1 DEF Call
    <3>. QED BY <2>1, <3>1 DEF Call
  <2>. HIDE DEF c
  <2>3. toServer \in Seq(Message) /\ toServer' = toServer \o <<m>>
    BY <1>2, <1>8, <2>2 DEF IInv, TypeOK, Message, Becomes
  <2>4. <<m>> \in Seq(Message) /\ Proper(<<m>>)
    BY <1>3 DEF Proper
  <2>5. toServer' \in Seq(Message) /\ (Proper(toServer) => Proper(toServer'))
    BY <2>3, <2>4, CleanTalk
  <2>6. Undisturbed'
    BY <2>5 DEF IInv, Undisturbed, Active
  <2>7. conn'.reader = "type" /\ conn'.waiting = "no"
    BY <1>2, <2>2 DEF Becomes, Call
  <2>8. Active => Agree'
    BY <2>7 DEF Agree, Running
  <2>9. CASE Active
    BY <1>2, <1>4, <2>2, <2>5, <2>6, <2>8, <2>9, NothingToRead, TalksInv
  <2>10. CASE ~Active
    <3>1. conn' = [c EXCEPT !.wrote = <<>>]
      BY <1>2 DEF Becomes
    <3>2. /\ conn' \in Connection /\ conn'.session /\ conn'.sheet = conn.sheet
          /\ conn'.waiting = conn.waiting
      BY <2>2, <3>1, CallEnds DEF Call
    <3>3. SheetHasPurpose'
      BY <3>2 DEF IInv, SheetHasPurpose
    <3>4. SameVersion' /\ Visible'
      BY <2>10 DEF SameVersion, Visible, Active
    <3>. QED BY <1>4, <1>8, <2>5, <2>6, <2>10, <3>2, <3>3, <3>4, NothingToRead, GoesOnInv
  <2>. QED BY <2>9, <2>10
<1>. QED BY <1>7, <1>8

LEMMA ReadServerInitInv == ASSUME IInv, ReadServerInit PROVE IInv'
<1>1. /\ Arrived("serverInit") /\ Consume /\ {"serverInit", "nameLength"} \subseteq Readers \ {"nil"}
      /\ Becomes(SetReader(conn, "nameLength"))
  BY DEF ReadServerInit, Readers
<1>2. /\ toClient' = Tail(toClient) /\ Remains("serverInit", conn.minor, toClient)
      /\ conn.waiting = "no" /\ conn.reader = "serverInit" /\ UNCHANGED <<owner, server, open>>
      /\ Active => Running
  BY <1>1, Reading DEF Answered
<1>3. conn'.reader = "nameLength" /\ conn'.waiting = "no"
  BY <1>1, <1>2, AfterReader
<1>4. \/ toClient = <<Msg("serverInit", <<>>), Msg("nameLength", <<0>>)>>
      \/ toClient = <<Msg("serverInit", <<>>), Msg("nameLength", <<1>>), Msg("name", <<>>)>>
  BY <1>2 DEF Remains
<1>5. \/ toClient' = <<Msg("nameLength", <<0>>)>>
      \/ toClient' = <<Msg("nameLength", <<1>>), Msg("name", <<>>)>>
  <2>1. CASE toClient = <<Msg("serverInit", <<>>), Msg("nameLength", <<0>>)>>
    BY <1>2, <2>1, Tails
  <2>2. CASE toClient = <<Msg("serverInit", <<>>), Msg("nameLength", <<1>>), Msg("name", <<>>)>>
    BY <1>2, <2>2, Tails
  <2>. QED BY <1>4, <2>1, <2>2
<1>6. toClient' # <<>> /\ Legible'
  BY <1>3, <1>5, Tails DEF Legible, Remains
<1>7. Active => Agree'
  BY <1>2, <1>3, <1>6 DEF Agree, Running
<1>. QED BY <1>1, <1>6, <1>7, ReadsOn

LEMMA ReadNameInv == ASSUME IInv, ReadNameLength \/ ReadName PROVE IInv'
<1>. DEFINE Names == {"nameLength", "name"}
<1>0. Names \subseteq Readers \ {"nil"}
  BY DEF Readers
<1>1. ASSUME NEW r \in Names, NEW m, Arrived(r), Consume, toClient = <<m>>,
             NEW apple \in BOOLEAN, Becomes(Start(conn, apple))
      PROVE  IInv'
  <2>1. /\ toClient' = <<>> /\ conn \in Call /\ conn.wrote = <<>> /\ conn.session
        /\ conn.waiting = "no" /\ UNCHANGED <<owner, server, open>>
        /\ Active => open /\ server.phase = "running"
    BY <1>0, <1>1, LastRead DEF Answered, Running
  <2>. QED BY <1>1, <2>1, StartInv
<1>2. CASE ReadNameLength
  <2>1. Arrived("nameLength") /\ Consume
    BY <1>2 DEF ReadNameLength
  <2>2. /\ toClient' = Tail(toClient) /\ Head(toClient) = toClient[1]
        /\ Remains("nameLength", conn.minor, toClient)
        /\ conn.waiting = "no" /\ conn.reader = "nameLength" /\ UNCHANGED <<owner, server, open>>
        /\ Active => Running
    BY <1>0, <2>1, Reading DEF Answered
  <2>5. Becomes(IF toClient[1].arg[1] = 0 THEN Start(conn, FALSE) ELSE SetReader(conn, "name"))
    BY <1>2, <2>2 DEF ReadNameLength, Arg
  <2>3. CASE toClient = <<Msg("nameLength", <<0>>)>>
    <3>1. Becomes(Start(conn, FALSE))
      BY <2>3, <2>5, Tails DEF Msg
    <3>. QED BY <1>1, <2>1, <2>3, <3>1
  <2>4. CASE toClient = <<Msg("nameLength", <<1>>), Msg("name", <<>>)>>
    <3>1. toClient' = <<Msg("name", <<>>)>> /\ toClient[1].arg[1] = 1
      BY <2>2, <2>4, Tails DEF Msg
    <3>2. Becomes(SetReader(conn, "name"))
      BY <2>5, <3>1
    <3>3. conn'.reader = "name" /\ conn'.waiting = "no"
      BY <1>0, <2>2, <3>2, AfterReader
    <3>4. Legible' /\ toClient' # <<>>
      BY <3>1, <3>3, Tails DEF Legible, Remains
    <3>5. Active => Agree'
      BY <2>2, <3>3, <3>4 DEF Agree, Running
    <3>. QED BY <1>0, <2>1, <2>2, <3>2, <3>4, <3>5, ReadsOn
  <2>. QED BY <2>2, <2>3, <2>4 DEF Remains
<1>3. CASE ReadName
  <2>1. Arrived("name") /\ Consume
    BY <1>3 DEF ReadName
  <2>2. PICK apple \in BOOLEAN : Becomes(Start(conn, apple))
    BY <1>3 DEF ReadName
  <2>3. toClient = <<Msg("name", <<>>)>>
    BY <1>0, <2>1, Reading DEF Remains
  <2>. QED BY <1>1, <2>1, <2>2, <2>3
<1>. QED BY <1>2, <1>3

-----------------------------------------------------------------------------
(* The other steps of the client.                                          *)

LEMMA HasTold == ASSUME IInv PROVE conn \in Call /\ conn.wrote = <<>> /\ (conn.session \/ Gone(conn))
<1>1. conn \in Call /\ conn.wrote = <<>>
  BY CallBegins DEF IInv, TypeOK
<1>. QED BY <1>1 DEF IInv, Told, Gone

LEMMA ReadEOFInv == ASSUME IInv, ReadEOF PROVE IInv'
<1>1. /\ Gone(Terminate(conn)) /\ Terminate(conn).wrote = <<>>
      /\ Terminate(conn).reader = "nil"
  BY HasTold, Terminates
<1>2. /\ Becomes(Terminate(conn)) /\ UNCHANGED <<owner, toClient, server, open>>
      /\ ~open /\ toClient' \in Seq(Message)
  BY DEF ReadEOF, IInv, TypeOK, Message
<1>3. ~Active
  BY <1>2 DEF IInv, Severed
<1>. QED BY <1>1, <1>2, <1>3, GivesUp

LEMMA DeallocateInv == ASSUME IInv, Deallocate PROVE IInv'
<1>. DEFINE c == SetReader(conn, "nil")
<1>1. ~conn.session /\ Gone(conn) /\ conn \in Call /\ conn.wrote = <<>>
  BY HasTold DEF Deallocate
<1>2. /\ conn' = c /\ UNCHANGED <<owner, toServer, toClient, server, open>>
      /\ toServer \in Seq(Message) /\ toClient \in Seq(Message)
  BY DEF Deallocate, IInv, TypeOK, Message
<1>3. Gone(c) /\ c.reader = "nil" /\ c.wrote = <<>> /\ c = [c EXCEPT !.wrote = <<>>]
  <2>1. Gone(c) /\ c.reader = "nil"
    BY <1>1, GoneReads DEF Readers
  <2>2. c.wrote = <<>>
    BY <1>1 DEF SetReader, Call
  <2>. HIDE DEF c
  <2>3. c = [c EXCEPT !.wrote = <<>>]
    BY <2>1, <2>2 DEF Gone, Call
  <2>. QED BY <2>1, <2>2, <2>3
<1>. HIDE DEF c
<1>4. Becomes(c)
  BY <1>2, <1>3, ConcatEmptySeq DEF Becomes
<1>5. Active => Idle'
  BY <1>1, <1>2 DEF IInv, InStep, Idle
<1>6. Undisturbed'
  BY <1>2 DEF IInv, Undisturbed, Active
<1>. QED BY <1>2, <1>3, <1>4, <1>5, <1>6, EndsInv

\* What the user may find on answering, when there is a connection.
LEMMA UserAsked ==
    ASSUME IInv, conn.session, conn.sheet
    PROVE  /\ conn.waiting \in {"challenge", "ard"} /\ toClient = <<>>
           /\ Active => /\ open /\ Quiet(toServer) /\ Asked
                        /\ conn.waiting = "challenge" => server.phase = "response"
                        /\ conn.waiting = "ard" =>
                               server.phase = IF conn.ardPeerKey THEN "ardResponse" ELSE "choice"
<1>1. conn.waiting \in {"no", "challenge", "ard"} /\ conn.ardPeerKey \in BOOLEAN
  BY DEF IInv, TypeOK, Connection
<1>2. conn.waiting # "no" /\ toClient = <<>>
  BY DEF IInv, SheetHasPurpose, Legible
<1>3. Active => open /\ Quiet(toServer) /\ Asked
  BY <1>2 DEF IInv, InStep, Severed, Agree, Running
<1>4. Active /\ server.phase = "choice" => ~conn.ardPeerKey
  BY DEF IInv, SameVersion
<1>. QED BY <1>1, <1>2, <1>3, <1>4 DEF Asked

\* The answer of the user goes out, and the sheet off the screen.
LEMMA UserAnswers ==
    ASSUME IInv, UNCHANGED <<owner, toClient, server, open>>, conn.session, conn.sheet,
           NEW b \in Call, b.wrote = <<>>, b.session, b.visible = conn.visible,
           b.minor = conn.minor, b.ardPeerKey = conn.ardPeerKey,
           NEW m \in Message, m.kind \notin WindowKinds, NEW next \in Readers, NEW a,
           \/ a = SetReader(Write(b, m), next)
           \/ a = [SetReader(Write(b, m), next) EXCEPT !.triedPassword = TRUE],
           NEW c, Becomes([c EXCEPT !.sheet = FALSE]),
           (c = a /\ b.waiting = "no") \/ c = [a EXCEPT !.waiting = "no"],
           /\ Active /\ Next1(toServer', m)
           /\ conn'.reader = next /\ conn'.minor = conn.minor /\ conn'.waiting = "no"
           => Agree'
    PROVE  IInv'
<1>. DEFINE d == [c EXCEPT !.sheet = FALSE]
<1>1. /\ toClient' = <<>> /\ toClient' \in Seq(Message)
      /\ Active => open /\ Quiet(toServer) /\ server.phase \notin {"hello", "running"}
  BY UserAsked, EmptySeq DEF Asked
<1>2. CASE ~open
  <2>1. Gone(a) /\ a.wrote = <<>>
    BY <1>2, Answers
  <2>2. Gone(c) /\ c.wrote = <<>>
    <3>1. CASE c = a
      BY <2>1, <3>1
    <3>2. CASE c = [a EXCEPT !.waiting = "no"]
      BY <2>1, <3>2 DEF Gone, Call
    <3>. QED BY <3>1, <3>2
  <2>3. Gone(d) /\ d.wrote = <<>>
    BY <2>2 DEF Gone, Call
  <2>4. Becomes(d)
    OBVIOUS
  <2>. HIDE DEF d
  <2>. QED BY <1>1, <1>2, <2>3, <2>4, GivesUp
<1>3. CASE open
  <2>1. /\ a \in Call /\ a.wrote = <<m>> /\ a.session /\ a.reader = next
        /\ a.waiting = b.waiting /\ a.visible = b.visible /\ a.minor = b.minor
        /\ a.ardPeerKey = b.ardPeerKey
    BY <1>3, Answers
  <2>2. /\ c \in Call /\ c.wrote = <<m>> /\ c.session /\ c.reader = next
        /\ c.waiting = "no" /\ c.visible = conn.visible /\ c.minor = conn.minor
        /\ c.ardPeerKey = conn.ardPeerKey
    <3>1. CASE c = a /\ b.waiting = "no"
      BY <2>1, <3>1
    <3>2. CASE c = [a EXCEPT !.waiting = "no"]
      BY <2>1, <3>2 DEF Call
    <3>. QED BY <3>1, <3>2
  <2>3. /\ d \in Call /\ d.wrote = <<m>> /\ d.session /\ d.reader = next /\ ~d.sheet
        /\ d.waiting = "no" /\ d.visible = conn.visible /\ d.minor = conn.minor
        /\ d.ardPeerKey = conn.ardPeerKey
    BY <2>2 DEF Call
  <2>4. Becomes(d)
    OBVIOUS
  <2>. HIDE DEF d
  <2>5. conn' = [d EXCEPT !.wrote = <<>>]
    BY <2>4 DEF Becomes
  <2>6. /\ conn' \in Connection /\ conn'.session /\ conn'.reader = next /\ ~conn'.sheet
        /\ conn'.waiting = "no" /\ conn'.visible = conn.visible /\ conn'.minor = conn.minor
        /\ conn'.ardPeerKey = conn.ardPeerKey
    BY <2>3, <2>5, CallEnds DEF Call
  <2>7. toServer' \in Seq(Message) /\ Undisturbed' /\ (Active => Next1(toServer', m))
    BY <1>1, <1>3, <2>3, <2>4, Says
  <2>8. SheetHasPurpose'
    BY <2>6 DEF SheetHasPurpose
  <2>9. SameVersion' /\ Visible'
    BY <2>6 DEF IInv, SameVersion, Visible, Active
  <2>10. Active => Agree'
    BY <2>6, <2>7
  <2>. QED BY <1>1, <1>3, <2>6, <2>7, <2>8, <2>9, <2>10, NothingToRead, GoesOnInv
<1>. QED BY <1>2, <1>3

\* A connection that is over stays as it is.
LEMMA LetsGoInv ==
    ASSUME IInv, UNCHANGED <<owner, toClient, server, open>>, ~conn.session,
           NEW c, Gone(c), c.wrote = <<>>, c.reader = conn.reader, Becomes(c)
    PROVE  IInv'
<1>1. toServer' = toServer /\ toServer' \in Seq(Message) /\ Undisturbed'
  BY SaysNothing
<1>2. Active => Idle'
  BY <1>1 DEF IInv, InStep, Idle
<1>3. toClient' \in Seq(Message) /\ (toClient' = <<>> \/ c.reader = "nil")
  BY DEF IInv, TypeOK, Message, Released
<1>. QED BY <1>1, <1>2, <1>3, EndsInv

LEMMA PasswordEnteredInv == ASSUME IInv, PasswordEntered PROVE IInv'
<1>1. /\ conn \in Call /\ conn.wrote = <<>> /\ (conn.session \/ Gone(conn)) /\ conn.sheet
      /\ UNCHANGED <<owner, toClient, server, open>>
      /\ toServer \in Seq(Message) /\ toClient \in Seq(Message)
  BY HasTold DEF PasswordEntered, IInv, TypeOK, Message
<1>2. CASE ~conn.session
  <2>. DEFINE told == [conn EXCEPT !.handled = TRUE]
              c == [told EXCEPT !.sheet = FALSE]
  <2>1. Becomes(c)
    BY <1>2 DEF PasswordEntered
  <2>2. c = [conn EXCEPT !.handled = TRUE, !.sheet = FALSE]
    BY <1>1 DEF Call
  <2>. HIDE DEF c
  <2>3. Gone(c) /\ c.wrote = <<>> /\ c.reader = conn.reader
    BY <1>1, <1>2, <2>2 DEF Gone, Call
  <2>. QED BY <1>1, <1>2, <2>1, <2>3, LetsGoInv
<1>3. CASE conn.session
  <2>. DEFINE p == [conn EXCEPT !.password = TRUE,
                                !.username = conn.username \/ conn.waiting = "ard"]
              c == GotPassword(p)
  <2>1. Becomes([c EXCEPT !.sheet = FALSE])
    BY <1>3 DEF PasswordEntered
  <2>2. /\ p \in Call /\ p.wrote = <<>> /\ p.session /\ p.password
        /\ p.username = (conn.username \/ conn.waiting = "ard")
        /\ p.waiting = conn.waiting
        /\ p.visible = conn.visible /\ p.minor = conn.minor /\ p.ardPeerKey = conn.ardPeerKey
    BY <1>1, <1>3 DEF Call
  <2>3. /\ conn.waiting \in {"challenge", "ard"} /\ toClient = <<>>
        /\ Active => /\ open /\ Quiet(toServer) /\ Asked
                     /\ conn.waiting = "challenge" => server.phase = "response"
                     /\ conn.waiting = "ard" =>
                            server.phase = IF conn.ardPeerKey THEN "ardResponse" ELSE "choice"
    BY <1>1, <1>3, UserAsked
  <2>4. {"authResult", "ardGenerator"} \subseteq Readers
    BY DEF Readers
  <2>. HIDE DEF p, c
  <2>5. CASE conn.waiting = "challenge"
    <3>. DEFINE m == Msg("response", <<>>)
                a == [SetReader(Write(p, m), "authResult") EXCEPT !.triedPassword = TRUE]
    <3>1. c = [a EXCEPT !.waiting = "no"]
      BY <2>2, <2>5 DEF c, GotPassword, Challenge, SendCredentials
    <3>2. m \in Message /\ m.kind \notin WindowKinds
      BY Words
    <3>3. /\ Active /\ Next1(toServer', m) /\ conn'.reader = "authResult"
          /\ conn'.waiting = "no"
          => Agree'
      BY <1>1, <2>3, <2>5 DEF Agree, Replied
    <3>. HIDE DEF m
    <3>4. a = [SetReader(Write(p, m), "authResult") EXCEPT !.triedPassword = TRUE]
      OBVIOUS
    <3>. HIDE DEF a
    <3>. QED BY <1>1, <1>3, <2>1, <2>2, <2>4, <3>1, <3>2, <3>3, <3>4, UserAnswers
  <2>6. CASE conn.waiting = "ard"
    <3>. DEFINE told == [p EXCEPT !.waiting = "no"]
    <3>1. c = IF told.ardPeerKey THEN PerformArdAuth(told, TRUE) ELSE StartArd(told)
      BY <2>2, <2>6 DEF c, GotPassword, Call
    <3>2. /\ told \in Call /\ told.wrote = <<>> /\ told.session /\ told.password /\ told.username
          /\ told.waiting = "no" /\ told.visible = conn.visible /\ told.minor = conn.minor
          /\ told.ardPeerKey = conn.ardPeerKey
      BY <2>2, <2>6 DEF Call
    <3>. HIDE DEF told
    <3>3. CASE conn.ardPeerKey
      <4>. DEFINE m == Msg("ardResponse", <<>>)
      <4>1. c = [SetReader(Write(told, m), "authResult") EXCEPT !.triedPassword = TRUE]
        BY <3>1, <3>2, <3>3 DEF PerformArdAuth, SendCredentials
      <4>2. m \in Message /\ m.kind \notin WindowKinds
        BY Words
      <4>3. /\ Active /\ Next1(toServer', m) /\ conn'.reader = "authResult"
            /\ conn'.waiting = "no"
            => Agree'
        BY <1>1, <2>3, <2>6, <3>3 DEF Agree, Replied
      <4>. HIDE DEF m
      <4>. QED BY <1>1, <1>3, <2>1, <2>4, <3>2, <4>1, <4>2, <4>3, UserAnswers
    <3>4. CASE ~conn.ardPeerKey
      <4>. DEFINE m == Msg("choice", <<ArdAuth>>)
      <4>1. c = SetReader(Write(told, m), "ardGenerator")
        BY <3>1, <3>2, <3>4 DEF StartArd
      <4>2. m \in Message /\ m.kind \notin WindowKinds
        BY Words DEF ArdAuth
      <4>3. /\ Active /\ Next1(toServer', m) /\ conn'.reader = "ardGenerator"
            /\ conn'.waiting = "no"
            => Agree'
        BY <1>1, <2>3, <2>6, <3>4 DEF Agree, Replied
      <4>. HIDE DEF m
      <4>. QED BY <1>1, <1>3, <2>1, <2>4, <3>2, <4>1, <4>2, <4>3, UserAnswers
    <3>. QED BY <3>2, <3>3, <3>4 DEF Call
  <2>. QED BY <2>3, <2>5, <2>6
<1>. QED BY <1>2, <1>3

LEMMA PasswordCancelledInv == ASSUME IInv, PasswordCancelled PROVE IInv'
<1>. DEFINE c == [ConnectionProblem(conn) EXCEPT !.sheet = FALSE, !.handled = TRUE]
<1>1. /\ conn \in Call /\ conn.wrote = <<>> /\ conn.sheet
      /\ UNCHANGED <<owner, toClient, server, open>> /\ Becomes(c)
      /\ toServer \in Seq(Message) /\ toClient \in Seq(Message)
  BY HasTold DEF PasswordCancelled, IInv, TypeOK, Message
<1>2. c = [conn EXCEPT !.session = FALSE, !.sheet = FALSE, !.handled = TRUE]
  BY <1>1 DEF ConnectionProblem, Call
<1>. HIDE DEF c
<1>3. Gone(c) /\ c.wrote = <<>> /\ c.reader = conn.reader
  BY <1>1, <1>2 DEF Gone, Call
<1>4. CASE conn.session
  BY <1>1, <1>3, <1>4, UserAsked, GivesUp DEF Asked
<1>5. CASE ~conn.session
  BY <1>1, <1>3, <1>5, LetsGoInv
<1>. QED BY <1>4, <1>5

LEMMA WindowEventInv ==
    ASSUME IInv, NEW k \in SessionMessages \ {"setup"}, WindowEvent(k)
    PROVE  IInv'
<1>. DEFINE m == Msg(k, <<>>)
            c == Write(conn, m)
<1>1. /\ conn \in Call /\ conn.wrote = <<>> /\ conn.session /\ conn.visible
      /\ UNCHANGED <<owner, toClient, server, open>> /\ Becomes(c)
      /\ toServer \in Seq(Message) /\ toClient \in Seq(Message)
  BY HasTold DEF WindowEvent, IInv, TypeOK, Message
<1>2. m \in Message /\ m.kind = k /\ k \in WindowKinds /\ k \in SessionMessages
  <2>1. <<>> \in Seq(Nat)
    BY EmptySeq
  <2>. QED BY <2>1 DEF Msg, Message, SessionMessages, WindowKinds
<1>. HIDE DEF m
<1>3. CASE ~open
  <2>1. Gone(c) /\ c.wrote = <<>> /\ c.reader = "nil"
    BY <1>1, <1>3, WriteFails
  <2>2. ~Active
    BY <1>3 DEF IInv, Severed
  <2>. HIDE DEF c
  <2>. QED BY <1>1, <2>1, <2>2, GivesUp
<1>4. CASE open
  <2>1. c = [conn EXCEPT !.wrote = <<m>>] /\ c \in Call
    BY <1>1, <1>2, <1>4, OneWritten
  <2>. HIDE DEF c
  <2>2. /\ c.wrote = <<m>> /\ c.session /\ c.sheet = conn.sheet /\ c.reader = conn.reader
        /\ c.waiting = conn.waiting /\ c.visible = conn.visible /\ c.minor = conn.minor
        /\ c.ardPeerKey = conn.ardPeerKey
    BY <1>1, <2>1 DEF Call
  <2>3. /\ conn'.reader = conn.reader /\ conn'.session /\ conn'.waiting = conn.waiting
        /\ conn'.minor = conn.minor /\ conn'.ardPeerKey = conn.ardPeerKey
    BY <1>1, <2>1, <2>2 DEF Becomes, Call
  <2>4. toServer' = toServer \o <<m>> /\ toServer' = Append(toServer, m)
    BY <1>1, <1>2, <1>4, <2>2, AppendIsConcat DEF Becomes
  <2>5. <<m>> \in Seq(Message) /\ Proper(<<m>>)
    BY <1>2 DEF Proper
  <2>6. toServer' \in Seq(Message) /\ (Proper(toServer) => Proper(toServer'))
    BY <1>1, <2>4, <2>5, CleanTalk
  <2>7. Undisturbed'
    BY <1>1, <2>6 DEF IInv, Undisturbed, Visible, Active
  <2>8. Legible'
    BY <1>1, <2>3 DEF IInv, Legible
  <2>9. /\ Quiet(toServer) => Quiet(toServer')
        /\ \A n : Next1(toServer, n) => Next1(toServer', n)
        /\ \A n, o : Next2(toServer, n, o) => Next2(toServer', n, o)
    BY <1>1, <1>2, <2>4, NoiseAppended
  <2>10. ASSUME toClient = <<>>, Replied(toServer), conn.waiting = "no" PROVE Agree'
    BY <1>1, <2>3, <2>9, <2>10 DEF Agree, Replied
  <2>11. /\ Answered => Answered'
         /\ Asked => Asked'
         /\ Running => Running'
    BY <1>1, <2>3 DEF Answered, Asked, Running
  <2>12. ASSUME Agree PROVE Agree'
    <3>. DEFINE Hello == /\ server.phase = "hello" /\ conn.reader = "version"
                         /\ toClient = <<>> /\ conn.waiting = "no" /\ Quiet(toServer)
    <3>1. CASE Hello
      BY <1>1, <2>3, <2>9, <3>1 DEF Agree
    <3>2. CASE toClient # <<>> /\ Quiet(toServer) /\ Answered /\ conn.waiting = "no"
      BY <1>1, <2>3, <2>9, <2>11, <3>2 DEF Agree
    <3>3. CASE toClient = <<>> /\ Quiet(toServer) /\ Asked
      BY <1>1, <2>3, <2>9, <2>11, <3>3 DEF Agree
    <3>4. CASE toClient = <<>> /\ Replied(toServer) /\ conn.waiting = "no"
      BY <2>10, <3>4
    <3>5. CASE Running
      BY <2>11, <3>5 DEF Agree
    <3>. QED BY <2>12, <3>1, <3>2, <3>3, <3>4, <3>5 DEF Agree
  <2>13. Active => Agree'
    BY <1>1, <2>12 DEF IInv, InStep
  <2>. QED BY <1>1, <2>1, <2>2, <2>6, <2>7, <2>8, <2>13, TalksInv
<1>. QED BY <1>3, <1>4

-----------------------------------------------------------------------------
(* The steps of the server.                                                *)

\* What the server reads of the handshake is what the client has written: if
\* there is a connection, the client waits for the answer; if there is none,
\* it has said that it can use no security type.
LEMMA Hears ==
    ASSUME IInv, NEW k,
           NEW p \in {"version", "choice", "response", "ardResponse", "clientInit"},
           Received(p, k), k \notin WindowKinds
    PROVE  /\ server.phase = p /\ open /\ Active
           /\ toServer \in Seq(Message) /\ toServer # <<>>
           /\ Head(toServer) = toServer[1] /\ toServer[1].kind = k
           /\ toServer' = Tail(toServer) /\ toServer' \in Seq(Message)
           /\ toClient \in Seq(Message)
           /\ UNCHANGED <<owner, conn, open>>
           /\ Clean(toServer) => Clean(toServer')
           /\ \A m : Next1(toServer, m) => toServer[1] = m /\ Quiet(toServer')
           /\ \A m, n : Next2(toServer, m, n) => toServer[1] = m /\ Next1(toServer', n)
           /\ conn.session => /\ toClient = <<>> /\ conn.waiting = "no"
                              /\ Replied(toServer) /\ SameVersion
           /\ ~conn.session => p = "choice" /\ toServer[1] = Msg("choice", <<Unusable>>)
<1>1. /\ server.phase = p /\ open /\ toServer # <<>> /\ toServer' = Tail(toServer)
      /\ UNCHANGED <<owner, conn, open>> /\ Head(toServer).kind = k
  BY DEF Received
<1>2. Active
  BY <1>1 DEF Active
<1>3. toServer \in Seq(Message) /\ toClient \in Seq(Message)
  BY DEF IInv, TypeOK, Message
<1>4. Head(toServer) = toServer[1] /\ toServer' \in Seq(Message)
  BY <1>1, <1>3, HeadTailProperties
<1>5. /\ ~Quiet(toServer)
      /\ \A m : Next1(toServer, m) => toServer[1] = m /\ Quiet(toServer')
      /\ \A m, n : Next2(toServer, m, n) => toServer[1] = m /\ Next1(toServer', n)
  BY <1>1, <1>3, <1>4, ReadNext
<1>6. Clean(toServer) => Clean(toServer')
  BY <1>1, <1>3, CleanTalk
<1>7. conn.session => toClient = <<>> /\ conn.waiting = "no" /\ Replied(toServer)
  BY <1>1, <1>2, <1>5 DEF IInv, InStep, Agree, Running
<1>8. ~conn.session => p = "choice" /\ toServer[1] = Msg("choice", <<Unusable>>)
  BY <1>1, <1>2, <1>5 DEF IInv, InStep, Idle
<1>9. SameVersion
  BY DEF IInv
<1>. QED BY <1>1, <1>2, <1>3, <1>4, <1>5, <1>6, <1>7, <1>8, <1>9

\* What is left to show of an answer of the server to a client that is there.
LEMMA PeerInv ==
    ASSUME IInv, UNCHANGED <<owner, conn, open>>, open, Active, server.phase # "running",
           toServer' \in Seq(Message), Clean(toServer) => Clean(toServer'),
           toClient' \in Seq(Message), ServerOK', server'.phase # "confused",
           conn.session, Legible', Active' => Agree', SameVersion',
           server'.phase = "running" => Proper(toServer') \/ owner.reconnecting
    PROVE  IInv'
<1>1. TypeOK'
  BY DEF IInv, TypeOK, Message, ServerOK
<1>2. SheetHasPurpose' /\ Told' /\ ServerUnderstands' /\ Released' /\ Severed'
  BY DEF IInv, SheetHasPurpose, Told, ServerUnderstands, Released, Severed
<1>3. InStep'
  BY DEF InStep, Active
<1>4. Visible' /\ Undisturbed'
  BY DEF IInv, Visible, Undisturbed
<1>. QED BY <1>1, <1>2, <1>3, <1>4 DEF IInv

\* What the server sends is messages.
LEMMA Sends ==
    /\ \A k \in Readers : \A n \in Nat : Msg(k, <<n>>) \in Message
    /\ \A k \in Readers : Msg(k, <<>>) \in Message
    /\ \A k \in Readers : \A offer \in Offers : Msg(k, offer) \in Message
    /\ \A k \in Readers : \A v \in Versions : Msg(k, v) \in Message
    /\ \A offer \in Offers : Len(offer) \in Nat \ {0}
<1>. DEFINE Kinds == Readers \cup {"choice", "response", "ardResponse", "clientInit"}
                     \cup SessionMessages
<1>1. (\A n \in Nat : <<n>> \in Seq(Nat)) /\ <<>> \in Seq(Nat)
  OBVIOUS
<1>2. \A offer \in Offers : offer \in Seq(Nat)
  <2>1. 1 .. 255 \subseteq Nat
    OBVIOUS
  <2>2. Seq(1 .. 255) \subseteq Seq(Nat)
    BY <2>1, SeqMonotonic
  <2>. QED BY <2>2, HandshakeAssumption
<1>3. \A v \in Versions : v \in Seq(Nat)
  <2>1. ASSUME NEW v \in Nat \X Nat PROVE v \in Seq(Nat)
    <3>1. PICK a \in Nat, b \in Nat : v = <<a, b>>
      OBVIOUS
    <3>2. <<a, b>> \in Seq(Nat)
      OBVIOUS
    <3>. QED BY <3>1, <3>2
  <2>. QED BY <1>1, <2>1, HandshakeAssumption DEF NotVNC
<1>4. \A k \in Kinds : \A a \in Seq(Nat) : Msg(k, a) \in Message
  BY DEF Msg, Message
<1>5. \A offer \in Offers : Len(offer) \in Nat \ {0}
  BY HandshakeAssumption, EmptySeq
<1>. HIDE DEF Message
<1>. QED BY <1>1, <1>2, <1>3, <1>4, <1>5

\* A refusal is sent after the message that announces it.
LEMMA Refusals ==
    ASSUME NEW reason \in Reasons, NEW m \in Message, toClient = <<>>, Send(<<m>> \o reason)
    PROVE  /\ toClient' \in Seq(Message) /\ toClient' # <<>> /\ toClient'[1] = m
           /\ Refusal(Tail(toClient'))
<1>1. {"reasonLength", "reason"} \subseteq Readers
  BY DEF Readers
<1>. DEFINE a == Msg("reasonLength", <<0>>)
            b == Msg("reasonLength", <<1>>)
            d == Msg("reason", <<>>)
<1>2. a \in Message /\ b \in Message /\ d \in Message
  BY <1>1, Sends
<1>3. reason = <<a>> \/ reason = <<b, d>>
  BY DEF Reasons
<1>4. Refusal(<<a>>) /\ Refusal(<<b, d>>)
  BY DEF Refusal
<1>. HIDE DEF a, b, d, Message
<1>5. <<a>> \in Seq(Message) /\ <<b, d>> \in Seq(Message)
  BY <1>2
<1>6. reason \in Seq(Message)
  BY <1>3, <1>5
<1>7. /\ <<m>> \o reason \in Seq(Message) /\ (<<m>> \o reason) # <<>>
      /\ (<<m>> \o reason)[1] = m /\ Tail(<<m>> \o reason) = reason
  BY <1>6, FirstWord
<1>8. toClient' = <<m>> \o reason
  BY <1>7, ConcatEmptySeq DEF Send
<1>. QED BY <1>3, <1>4, <1>7, <1>8

\* What is sent when all has been read is all there is to read.
LEMMA SendsAll ==
    ASSUME toClient = <<>>, NEW ms \in Seq(Message), Send(ms)
    PROVE  toClient' = ms /\ toClient' \in Seq(Message)
BY ConcatEmptySeq DEF Send

LEMMA ServerVersionInv == ASSUME IInv, NEW v \in Versions, ServerVersion(v) PROVE IInv'
<1>1. /\ server.phase = "hello" /\ open /\ UNCHANGED <<owner, conn, toServer, open>>
      /\ Send(<<Msg("version", v)>>)
      /\ server' = [server EXCEPT !.phase = "version", !.version = v]
      /\ toServer \in Seq(Message)
  BY DEF ServerVersion, IInv, TypeOK, Message
<1>2. Active
  BY <1>1 DEF Active
<1>3. conn.session
  BY <1>1, <1>2 DEF IInv, InStep, Idle
<1>4. conn.reader = "version" /\ toClient = <<>> /\ conn.waiting = "no" /\ Quiet(toServer)
  BY <1>1, <1>2, <1>3 DEF IInv, InStep, Agree, Answered, Asked, Replied, Running
<1>5. <<Msg("version", v)>> \in Seq(Message)
  <2>1. Msg("version", v) \in Message
    BY Sends DEF Readers
  <2>. HIDE DEF Message
  <2>. QED BY <2>1
<1>6. toClient' = <<Msg("version", v)>> /\ toClient' \in Seq(Message) /\ toClient' # <<>>
  <2>. DEFINE ms == <<Msg("version", v)>>
  <2>1. ms \in Seq(Message) /\ Send(ms) /\ ms # <<>>
    BY <1>1, <1>5, Tails
  <2>. HIDE DEF ms
  <2>2. toClient' = ms /\ toClient' \in Seq(Message) /\ toClient' # <<>>
    BY <1>4, <2>1, SendsAll
  <2>. QED BY <2>2 DEF ms
<1>7. /\ ServerOK' /\ server'.phase = "version" /\ server'.minor = server.minor
  BY <1>1 DEF IInv, ServerOK, ServerPhases
<1>8. Legible'
  BY <1>1, <1>4, <1>6 DEF Legible, Remains
<1>9. Agree'
  BY <1>1, <1>4, <1>6, <1>7 DEF Agree, Answered
<1>10. SameVersion'
  BY <1>1, <1>2, <1>3, <1>7 DEF IInv, SameVersion
<1>. QED BY <1>1, <1>2, <1>3, <1>6, <1>7, <1>8, <1>9, <1>10, PeerInv

\* What the server sends to make an offer, and its phase from then on.
Offer(p, ms) ==
    \/ /\ p = "choice" /\ conn.minor >= 7
       /\ conn.reader = "authCount" /\ ms[1] # Msg("authCount", <<0>>)
    \/ /\ p = "response"
       /\ conn.reader = "authType" /\ ms[1] = Msg("authType", <<VncAuth>>)
    \/ /\ p = "clientInit"
       /\ conn.reader = "authType" /\ ms = <<Msg("authType", <<NoAuth>>)>>

LEMMA ServerOffersInv == ASSUME IInv, ServerOffers PROVE IInv'
<1>1. Received("version", "version") /\ "version" \notin WindowKinds
  BY DEF ServerOffers, WindowKinds
<1>2. /\ server.phase = "version" /\ open /\ Active
      /\ toServer' \in Seq(Message) /\ Head(toServer) = toServer[1]
      /\ UNCHANGED <<owner, conn, open>> /\ (Clean(toServer) => Clean(toServer'))
      /\ conn.session /\ toClient = <<>> /\ conn.waiting = "no"
      /\ Next1(toServer, Msg("version", <<conn.minor>>))
      /\ conn.reader = IF conn.minor >= 7 THEN "authCount" ELSE "authType"
      /\ ~conn.ardPeerKey
  BY <1>1, Hears DEF Replied, SameVersion
<1>3. toServer[1] = Msg("version", <<conn.minor>>) /\ Quiet(toServer')
  BY <1>1, <1>2, Hears
<1>4. Head(toServer).arg[1] = conn.minor
  BY <1>2, <1>3 DEF Msg
<1>5. /\ conn.minor \in 0 .. 8
      /\ server \in [phase : ServerPhases, version : Versions \cup {NotVNC}, minor : 0 .. 8]
  BY DEF IInv, TypeOK, Connection, ServerOK
<1>6. {"authCount", "authArray", "authType", "challenge"} \subseteq Readers
  BY DEF Readers
<1>. DEFINE announce == IF conn.minor >= 7 THEN Msg("authCount", <<0>>) ELSE Msg("authType", <<0>>)
<1>7. \/ /\ \E reason \in Reasons : Send(<<announce>> \o reason)
         /\ server' = [server EXCEPT !.phase = "done"]
      \/ /\ conn.minor >= 7
         /\ \E offer \in Offers :
               Send(<<Msg("authCount", <<Len(offer)>>), Msg("authArray", offer)>>)
         /\ server' = [server EXCEPT !.phase = "choice", !.minor = conn.minor]
      \/ /\ conn.minor < 7
         /\ Send(<<Msg("authType", <<NoAuth>>)>>)
         /\ server' = [server EXCEPT !.phase = "clientInit", !.minor = conn.minor]
      \/ /\ conn.minor < 7
         /\ Send(<<Msg("authType", <<VncAuth>>), Msg("challenge", <<>>)>>)
         /\ server' = [server EXCEPT !.phase = "response", !.minor = conn.minor]
  BY <1>4 DEF ServerOffers, NextPhase
<1>8. CASE /\ \E reason \in Reasons : Send(<<announce>> \o reason)
           /\ server' = [server EXCEPT !.phase = "done"]
  <2>1. PICK reason \in Reasons : Send(<<announce>> \o reason)
    BY <1>8
  <2>2. announce \in Message
    BY <1>6, Sends
  <2>3. /\ toClient' \in Seq(Message) /\ toClient' # <<>> /\ toClient'[1] = announce
        /\ Refusal(Tail(toClient'))
    BY <1>2, <2>1, <2>2, Refusals
  <2>4. ServerOK' /\ server'.phase = "done"
    BY <1>5, <1>8 DEF ServerOK, ServerPhases
  <2>5. Legible'
    BY <1>2, <2>3 DEF Legible, Remains
  <2>6. ~Active' /\ SameVersion'
    BY <2>4 DEF Active, SameVersion
  <2>. QED BY <1>2, <2>3, <2>4, <2>5, <2>6, PeerInv
<1>9. ASSUME NEW p \in {"choice", "clientInit", "response"},
             server' = [server EXCEPT !.phase = p, !.minor = conn.minor],
             NEW ms \in Seq(Message), Send(ms), ms # <<>>,
             Remains(conn.reader, conn.minor, ms), Offer(p, ms)
      PROVE  IInv'
  <2>1. toClient' = ms
    BY <1>2, <1>9, SendsAll
  <2>2. ServerOK' /\ server'.phase = p /\ server'.minor = conn.minor
    BY <1>5, <1>9 DEF ServerOK, ServerPhases
  <2>3. Legible'
    BY <1>2, <1>9, <2>1 DEF Legible
  <2>4. Agree'
    BY <1>2, <1>3, <1>9, <2>1, <2>2 DEF Agree, Answered, Offer
  <2>5. SameVersion'
    BY <1>2, <2>2 DEF SameVersion
  <2>. QED BY <1>2, <1>9, <2>1, <2>2, <2>3, <2>4, <2>5, PeerInv
<1>10. CASE /\ conn.minor >= 7
            /\ \E offer \in Offers :
                  Send(<<Msg("authCount", <<Len(offer)>>), Msg("authArray", offer)>>)
            /\ server' = [server EXCEPT !.phase = "choice", !.minor = conn.minor]
  <2>1. PICK offer \in Offers :
                  Send(<<Msg("authCount", <<Len(offer)>>), Msg("authArray", offer)>>)
    BY <1>10
  <2>. DEFINE ms == <<Msg("authCount", <<Len(offer)>>), Msg("authArray", offer)>>
  <2>2. Len(offer) \in Nat \ {0}
    BY Sends
  <2>3. ms \in Seq(Message)
    <3>1. Msg("authCount", <<Len(offer)>>) \in Message /\ Msg("authArray", offer) \in Message
      BY <1>6, <2>2, Sends
    <3>. HIDE DEF Message
    <3>. QED BY <3>1
  <2>4. ms # <<>> /\ ms[1] # Msg("authCount", <<0>>)
    BY <2>2, Tails DEF Msg
  <2>5. conn.reader = "authCount" /\ Remains(conn.reader, conn.minor, ms)
    BY <1>2, <1>10 DEF Remains
  <2>6. Send(ms)
    BY <2>1
  <2>. HIDE DEF ms
  <2>. QED BY <1>9, <1>10, <2>3, <2>4, <2>5, <2>6 DEF Offer
<1>11. CASE /\ conn.minor < 7
            /\ Send(<<Msg("authType", <<NoAuth>>)>>)
            /\ server' = [server EXCEPT !.phase = "clientInit", !.minor = conn.minor]
  <2>. DEFINE ms == <<Msg("authType", <<NoAuth>>)>>
  <2>1. ms \in Seq(Message)
    <3>1. Msg("authType", <<NoAuth>>) \in Message
      BY <1>6, Sends DEF NoAuth
    <3>. HIDE DEF Message
    <3>. QED BY <3>1
  <2>2. ms # <<>> /\ Send(ms) /\ ms = <<Msg("authType", <<NoAuth>>)>>
    BY <1>11, Tails
  <2>. HIDE DEF ms
  <2>3. conn.reader = "authType"
    BY <1>2, <1>5, <1>11
  <2>4. Remains(conn.reader, conn.minor, ms)
    BY <2>2, <2>3 DEF Remains
  <2>. QED BY <1>9, <1>11, <2>1, <2>2, <2>3, <2>4 DEF Offer
<1>12. CASE /\ conn.minor < 7
            /\ Send(<<Msg("authType", <<VncAuth>>), Msg("challenge", <<>>)>>)
            /\ server' = [server EXCEPT !.phase = "response", !.minor = conn.minor]
  <2>. DEFINE ms == <<Msg("authType", <<VncAuth>>), Msg("challenge", <<>>)>>
  <2>1. ms \in Seq(Message)
    <3>1. Msg("authType", <<VncAuth>>) \in Message /\ Msg("challenge", <<>>) \in Message
      BY <1>6, Sends DEF VncAuth
    <3>. HIDE DEF Message
    <3>. QED BY <3>1
  <2>2. ms # <<>> /\ Send(ms) /\ ms[1] = Msg("authType", <<VncAuth>>)
    BY <1>12, Tails
  <2>3. conn.reader = "authType"
    BY <1>2, <1>5, <1>12
  <2>4. Remains(conn.reader, conn.minor, ms)
    BY <2>3 DEF Remains
  <2>. HIDE DEF ms
  <2>. QED BY <1>9, <1>12, <2>1, <2>2, <2>3, <2>4 DEF Offer
<1>. QED BY <1>7, <1>8, <1>10, <1>11, <1>12

\* What the server sends when it has read a choice, and its phase from then on.
GoesOn(p, ms) ==
    \/ /\ p = "clientInit" /\ ms = <<>>
       /\ conn.reader = "serverInit" /\ Next1(toServer', Msg("clientInit", <<>>))
    \/ /\ p = "clientInit" /\ ms = <<Msg("authResult", <<0>>)>>
       /\ conn.reader = "authResult"
    \/ p = "response" /\ ms # <<>> /\ conn.reader = "challenge"
    \/ p = "ardResponse" /\ ms # <<>> /\ conn.reader = "ardGenerator"

LEMMA ServerGetsChoiceInv == ASSUME IInv, ServerGetsChoice PROVE IInv'
<1>1. Received("choice", "choice") /\ "choice" \notin WindowKinds
  BY DEF ServerGetsChoice, WindowKinds
<1>2. /\ server.phase = "choice" /\ open /\ Active
      /\ toServer' \in Seq(Message) /\ Head(toServer) = toServer[1]
      /\ UNCHANGED <<owner, conn, open>> /\ (Clean(toServer) => Clean(toServer'))
      /\ toClient \in Seq(Message)
  BY <1>1, Hears
<1>3. /\ conn.session => /\ toClient = <<>> /\ conn.waiting = "no" /\ Replied(toServer)
                         /\ SameVersion
      /\ ~conn.session => toServer[1] = Msg("choice", <<Unusable>>)
  BY <1>1, Hears
<1>4. /\ \A m : Next1(toServer, m) => toServer[1] = m /\ Quiet(toServer')
      /\ \A m, n : Next2(toServer, m, n) => toServer[1] = m /\ Next1(toServer', n)
  BY <1>1, Hears
<1>5. /\ conn.minor \in 0 .. 8
      /\ server \in [phase : ServerPhases, version : Versions \cup {NotVNC}, minor : 0 .. 8]
  BY DEF IInv, TypeOK, Connection, ServerOK
<1>6. CASE ~conn.session
  <2>1. Head(toServer).arg[1] = Unusable
    BY <1>2, <1>3, <1>6 DEF Msg
  <2>2. toClient' = toClient /\ server' = [server EXCEPT !.phase = "done"]
    BY <2>1 DEF ServerGetsChoice, NextPhase, Unusable, NoAuth, VncAuth, ArdAuth
  <2>3. ServerOK' /\ server'.phase = "done"
    BY <1>5, <2>2 DEF ServerOK, ServerPhases
  <2>4. TypeOK'
    BY <1>2, <2>2, <2>3 DEF IInv, TypeOK, Message, ServerPhases
  <2>5. SheetHasPurpose' /\ Told' /\ ServerUnderstands' /\ Released' /\ Severed' /\ Legible'
    BY <1>2, <1>6, <2>2, <2>3
       DEF IInv, SheetHasPurpose, Told, ServerUnderstands, Released, Severed, Legible
  <2>6. InStep' /\ SameVersion' /\ Visible' /\ Undisturbed'
    BY <2>3 DEF InStep, SameVersion, Visible, Undisturbed, Active
  <2>. QED BY <2>3, <2>4, <2>5, <2>6 DEF IInv
<1>7. CASE conn.session
  <2>. DEFINE type == Head(toServer).arg[1]
  <2>1. server.minor = conn.minor /\ ~conn.ardPeerKey
    BY <1>2, <1>3, <1>7 DEF SameVersion
  <2>2. \/ /\ toServer[1] = Msg("choice", <<NoAuth>>) /\ Quiet(toServer')
           /\ conn.reader = "authResult" /\ conn.minor >= 8
        \/ /\ toServer[1] = Msg("choice", <<NoAuth>>) /\ Next1(toServer', Msg("clientInit", <<>>))
           /\ conn.reader = "serverInit" /\ conn.minor < 8
        \/ /\ toServer[1] = Msg("choice", <<VncAuth>>) /\ Quiet(toServer')
           /\ conn.reader = "challenge"
        \/ /\ toServer[1] = Msg("choice", <<ArdAuth>>) /\ Quiet(toServer')
           /\ conn.reader = "ardGenerator"
    BY <1>2, <1>3, <1>4, <1>7 DEF Replied
  <2>3. ASSUME NEW ms \in Seq(Message), Send(ms), NEW p \in {"clientInit", "response", "ardResponse"},
               NextPhase(p), ms # <<>> => Remains(conn.reader, conn.minor, ms) /\ Quiet(toServer'),
               GoesOn(p, ms)
        PROVE  IInv'
    <3>1. toClient' = ms
      BY <1>3, <1>7, <2>3, SendsAll
    <3>2. ServerOK' /\ server'.phase = p /\ server'.minor = conn.minor
      BY <1>5, <2>1, <2>3 DEF ServerOK, ServerPhases, NextPhase
    <3>3. Legible'
      BY <1>2, <1>3, <1>7, <2>3, <3>1 DEF Legible
    <3>4. Agree'
      <4>1. CASE ms = <<>>
        BY <1>2, <1>3, <1>7, <2>3, <3>1, <3>2, <4>1, Tails DEF Agree, Replied, GoesOn
      <4>2. CASE ms # <<>>
        BY <1>2, <1>3, <1>7, <2>3, <3>1, <3>2, <4>2 DEF Agree, Answered, GoesOn
      <4>. QED BY <4>1, <4>2
    <3>5. SameVersion'
      BY <1>2, <2>3, <3>2 DEF SameVersion
    <3>. QED BY <1>2, <1>7, <2>3, <3>1, <3>2, <3>3, <3>4, <3>5, PeerInv
  <2>4. {"authResult", "challenge", "ardGenerator", "ardKeySize", "ardPrime", "ardPeerKey"}
            \subseteq Readers
    BY DEF Readers
  <2>5. CASE /\ toServer[1] = Msg("choice", <<NoAuth>>) /\ Quiet(toServer')
             /\ conn.reader = "authResult" /\ conn.minor >= 8
    <3>. DEFINE ms == <<Msg("authResult", <<0>>)>>
    <3>1. ms \in Seq(Message)
      <4>1. Msg("authResult", <<0>>) \in Message
        BY <2>4, Sends
      <4>. HIDE DEF Message
      <4>. QED BY <4>1
    <3>2. type = NoAuth
      BY <1>2, <2>5 DEF Msg
    <3>3. Send(ms) /\ NextPhase("clientInit")
      BY <2>1, <2>5, <3>2 DEF ServerGetsChoice, NoAuth, VncAuth, ArdAuth, Unusable
    <3>4. Remains(conn.reader, conn.minor, ms)
      BY <2>5 DEF Remains
    <3>5. ms = <<Msg("authResult", <<0>>)>>
      OBVIOUS
    <3>. HIDE DEF ms
    <3>. QED BY <2>3, <2>5, <3>1, <3>3, <3>4, <3>5 DEF GoesOn
  <2>6. CASE /\ toServer[1] = Msg("choice", <<NoAuth>>)
             /\ Next1(toServer', Msg("clientInit", <<>>))
             /\ conn.reader = "serverInit" /\ conn.minor < 8
    <3>1. type = NoAuth
      BY <1>2, <2>6 DEF Msg
    <3>2. ~(server.minor >= 8)
      BY <1>5, <2>1, <2>6
    <3>3. Send(<<>>) /\ NextPhase("clientInit")
      BY <3>1, <3>2 DEF ServerGetsChoice, NoAuth, VncAuth, ArdAuth, Unusable
    <3>. QED BY <2>3, <2>6, <3>3, EmptySeq DEF GoesOn
  <2>7. CASE /\ toServer[1] = Msg("choice", <<VncAuth>>) /\ Quiet(toServer')
             /\ conn.reader = "challenge"
    <3>. DEFINE ms == <<Msg("challenge", <<>>)>>
    <3>1. ms \in Seq(Message) /\ ms # <<>>
      <4>1. Msg("challenge", <<>>) \in Message
        BY <2>4, Sends
      <4>. HIDE DEF Message
      <4>. QED BY <4>1, Tails
    <3>2. type = VncAuth
      BY <1>2, <2>7 DEF Msg
    <3>3. Send(ms) /\ NextPhase("response")
      BY <3>2 DEF ServerGetsChoice, NoAuth, VncAuth, ArdAuth, Unusable
    <3>4. Remains(conn.reader, conn.minor, ms)
      BY <2>7 DEF Remains
    <3>. HIDE DEF ms
    <3>. QED BY <2>3, <2>7, <3>1, <3>3, <3>4 DEF GoesOn
  <2>8. CASE /\ toServer[1] = Msg("choice", <<ArdAuth>>) /\ Quiet(toServer')
             /\ conn.reader = "ardGenerator"
    <3>. DEFINE ms == <<Msg("ardGenerator", <<>>), Msg("ardKeySize", <<>>),
                        Msg("ardPrime", <<>>), Msg("ardPeerKey", <<>>)>>
    <3>1. ms \in Seq(Message) /\ ms # <<>>
      <4>1. /\ Msg("ardGenerator", <<>>) \in Message /\ Msg("ardKeySize", <<>>) \in Message
            /\ Msg("ardPrime", <<>>) \in Message /\ Msg("ardPeerKey", <<>>) \in Message
        BY <2>4, Sends
      <4>. HIDE DEF Message
      <4>. QED BY <4>1, Tails
    <3>2. type = ArdAuth
      BY <1>2, <2>8 DEF Msg
    <3>3. Send(ms) /\ NextPhase("ardResponse")
      BY <3>2 DEF ServerGetsChoice, NoAuth, VncAuth, ArdAuth, Unusable
    <3>4. Remains(conn.reader, conn.minor, ms)
      BY <2>8 DEF Remains
    <3>. HIDE DEF ms
    <3>. QED BY <2>3, <2>8, <3>1, <3>3, <3>4 DEF GoesOn
  <2>. QED BY <2>2, <2>5, <2>6, <2>7, <2>8
<1>. QED BY <1>6, <1>7

LEMMA ServerJudgesInv == ASSUME IInv, ServerJudges PROVE IInv'
<1>1. PICK p \in {"response", "ardResponse"} : Received(p, p)
  BY DEF ServerJudges
<1>2. /\ server.phase = p /\ open /\ Active
      /\ toServer' \in Seq(Message)
      /\ UNCHANGED <<owner, conn, open>> /\ (Clean(toServer) => Clean(toServer'))
      /\ conn.session /\ toClient = <<>> /\ conn.waiting = "no"
      /\ Replied(toServer) /\ SameVersion
      /\ \A m : Next1(toServer, m) => Quiet(toServer')
  <2>1. p \notin WindowKinds
    BY DEF WindowKinds
  <2>. QED BY <1>1, <2>1, Hears
<1>3. conn.reader = "authResult" /\ Quiet(toServer')
  BY <1>2 DEF Replied
<1>4. server.minor = conn.minor
  BY <1>2 DEF SameVersion
<1>5. server \in [phase : ServerPhases, version : Versions \cup {NotVNC}, minor : 0 .. 8]
  BY DEF IInv, ServerOK
<1>6. \A n \in 0 .. 3 : Msg("authResult", <<n>>) \in Message /\ <<Msg("authResult", <<n>>)>> \in Seq(Message)
  <2>1. \A n \in 0 .. 3 : Msg("authResult", <<n>>) \in Message
    <3>1. 0 .. 3 \subseteq Nat /\ "authResult" \in Readers
      BY DEF Readers
    <3>. QED BY <3>1, Sends
  <2>. HIDE DEF Message
  <2>. QED BY <2>1
<1>7. CASE Send(<<Msg("authResult", <<0>>)>>) /\ NextPhase("clientInit")
  <2>. DEFINE ms == <<Msg("authResult", <<0>>)>>
  <2>1. ms \in Seq(Message) /\ Send(ms) /\ ms # <<>>
    BY <1>6, <1>7, Tails
  <2>2. Remains("authResult", conn.minor, ms) /\ ms = <<Msg("authResult", <<0>>)>>
    BY DEF Remains
  <2>. HIDE DEF ms
  <2>3. toClient' = ms /\ toClient' \in Seq(Message)
    BY <1>2, <2>1, SendsAll
  <2>4. ServerOK' /\ server'.phase = "clientInit" /\ server'.minor = conn.minor
    BY <1>4, <1>5, <1>7 DEF ServerOK, ServerPhases, NextPhase
  <2>5. Legible'
    BY <1>2, <1>3, <2>2, <2>3 DEF Legible
  <2>6. Agree'
    BY <1>2, <1>3, <2>1, <2>2, <2>3, <2>4 DEF Agree, Answered
  <2>7. SameVersion'
    BY <1>2, <2>4 DEF SameVersion
  <2>. QED BY <1>2, <2>3, <2>4, <2>5, <2>6, <2>7, PeerInv
<1>8. ASSUME NextPhase("done"), toClient' \in Seq(Message), Remains("authResult", conn.minor, toClient')
      PROVE  IInv'
  <2>1. ServerOK' /\ server'.phase = "done"
    BY <1>5, <1>8 DEF ServerOK, ServerPhases, NextPhase
  <2>2. Legible'
    BY <1>2, <1>3, <1>8 DEF Legible
  <2>3. ~Active' /\ SameVersion'
    BY <2>1 DEF Active, SameVersion
  <2>. QED BY <1>2, <1>8, <2>1, <2>2, <2>3, PeerInv
<1>9. CASE /\ \E reason \in Reasons :
                 Send(<<Msg("authResult", <<1>>)>>
                      \o (IF server.minor >= 8 THEN reason ELSE <<>>))
           /\ NextPhase("done")
  <2>1. PICK reason \in Reasons : Send(<<Msg("authResult", <<1>>)>>
                                       \o (IF server.minor >= 8 THEN reason ELSE <<>>))
    BY <1>9
  <2>. DEFINE m == Msg("authResult", <<1>>)
  <2>2. m \in Message /\ <<m>> \in Seq(Message)
    BY <1>6
  <2>3. CASE conn.minor >= 8
    <3>1. Send(<<m>> \o reason)
      BY <1>4, <2>1, <2>3
    <3>2. /\ toClient' \in Seq(Message) /\ toClient'[1] = m
          /\ Refusal(Tail(toClient'))
      BY <1>2, <2>2, <3>1, Refusals
    <3>3. Remains("authResult", conn.minor, toClient')
      BY <2>3, <3>2 DEF Remains
    <3>. QED BY <1>8, <1>9, <3>2, <3>3
  <2>4. CASE ~(conn.minor >= 8)
    <3>1. conn.minor < 8
      BY <2>4 DEF IInv, TypeOK, Connection
    <3>2. Send(<<m>> \o <<>>)
      BY <1>4, <2>1, <2>4
    <3>. DEFINE ms == <<m>>
    <3>3. ms \in Seq(Message) /\ ms = <<Msg("authResult", <<1>>)>> /\ Send(ms \o <<>>)
      BY <2>2, <3>2
    <3>. HIDE DEF ms
    <3>4. Send(ms)
      BY <3>3, ConcatEmptySeq
    <3>5. toClient' = ms /\ toClient' \in Seq(Message)
      BY <1>2, <3>3, <3>4, SendsAll
    <3>6. Remains("authResult", conn.minor, toClient')
      BY <3>1, <3>3, <3>5 DEF Remains
    <3>. QED BY <1>8, <1>9, <3>5, <3>6
  <2>. QED BY <2>3, <2>4
<1>10. ASSUME NEW other \in {2, 3}, Send(<<Msg("authResult", <<other>>)>>), NextPhase("done")
       PROVE  IInv'
  <2>. DEFINE ms == <<Msg("authResult", <<other>>)>>
  <2>1. ms \in Seq(Message) /\ Send(ms) /\ Remains("authResult", conn.minor, ms)
    BY <1>6, <1>10 DEF Remains
  <2>. HIDE DEF ms
  <2>2. toClient' = ms /\ toClient' \in Seq(Message)
    BY <1>2, <2>1, SendsAll
  <2>. QED BY <1>8, <1>10, <2>1, <2>2
<1>. QED BY <1>7, <1>9, <1>10 DEF ServerJudges

\* Between hearing that the client is ready and the start of the session, no
\* window has written unless one was on the screen from the beginning.
LEMMA ServerInitsInv == ASSUME IInv, ServerInits PROVE IInv'
<1>1. Received("clientInit", "clientInit") /\ "clientInit" \notin WindowKinds
  BY DEF ServerInits, WindowKinds
<1>2. /\ server.phase = "clientInit" /\ open /\ Active
      /\ toServer' \in Seq(Message)
      /\ UNCHANGED <<owner, conn, open>> /\ (Clean(toServer) => Clean(toServer'))
      /\ conn.session /\ toClient = <<>> /\ conn.waiting = "no"
      /\ Replied(toServer) /\ SameVersion
      /\ \A m : Next1(toServer, m) => Quiet(toServer')
  BY <1>1, Hears
<1>3. conn.reader = "serverInit" /\ Quiet(toServer')
  BY <1>2 DEF Replied
<1>. DEFINE a == Msg("serverInit", <<>>)
            b == Msg("nameLength", <<0>>)
            d == Msg("nameLength", <<1>>)
            e == Msg("name", <<>>)
<1>4. a \in Message /\ b \in Message /\ d \in Message /\ e \in Message
  BY Sends DEF Readers
<1>5. PICK name \in {<<b>>, <<d, e>>} : Send(<<a>> \o name)
  BY DEF ServerInits
<1>6. /\ Remains("serverInit", conn.minor, <<a, b>>)
      /\ Remains("serverInit", conn.minor, <<a, d, e>>)
  BY DEF Remains
<1>7. toClient' \in Seq(Message) /\ toClient' # <<>> /\ Remains("serverInit", conn.minor, toClient')
  <2>. HIDE DEF a, b, d, e, Message
  <2>1. <<a>> \o <<b>> = <<a, b>> /\ <<a, b>> \in Seq(Message) /\ <<a, b>> # <<>>
    <3>1. <<a>> \o <<b>> = <<a, b>>
      BY <1>4, ThreeWords
    <3>. QED BY <1>4, <3>1
  <2>2. <<a>> \o <<d, e>> = <<a, d, e>> /\ <<a, d, e>> \in Seq(Message) /\ <<a, d, e>> # <<>>
    <3>1. <<a>> \o <<d, e>> = <<a, d, e>>
      BY <1>4, ThreeWords
    <3>. QED BY <1>4, <3>1
  <2>3. \/ <<a>> \o name = <<a, b>>
        \/ <<a>> \o name = <<a, d, e>>
    BY <1>5, <2>1, <2>2
  <2>. DEFINE ms == <<a>> \o name
  <2>4. /\ Send(ms) /\ ms \in Seq(Message) /\ ms # <<>>
        /\ Remains("serverInit", conn.minor, ms)
    BY <1>5, <1>6, <2>1, <2>2, <2>3
  <2>. HIDE DEF ms
  <2>. QED BY <1>2, <2>4, SendsAll
<1>8. server' = [server EXCEPT !.phase = "running"]
  BY DEF ServerInits, NextPhase
<1>9. ServerOK' /\ server'.phase = "running" /\ server'.minor = server.minor
  BY <1>8 DEF IInv, ServerOK, ServerPhases
<1>10. Legible'
  BY <1>2, <1>3, <1>7 DEF Legible
<1>11. Agree'
  BY <1>2, <1>3, <1>7, <1>9 DEF Agree, Running
<1>12. SameVersion'
  BY <1>2, <1>9 DEF SameVersion
<1>13. Proper(toServer') \/ owner.reconnecting
  <2>. SUFFICES ASSUME ~owner.reconnecting PROVE Proper(toServer')
    OBVIOUS
  <2>1. Clean(toServer')
    BY <1>2 DEF IInv, Undisturbed
  <2>2. toServer' = <<>> \/ Len(toServer') \in Nat \ {0}
    BY <1>2, EmptySeq, LenProperties
  <2>3. toServer' = <<>>
    BY <1>3, <2>1, <2>2 DEF Quiet, Noisy, Clean
  <2>4. Len(toServer') = 0
    BY <2>3, EmptySeq
  <2>. QED BY <2>4 DEF Proper
<1>. QED BY <1>2, <1>7, <1>9, <1>10, <1>11, <1>12, <1>13, PeerInv

\* The server reads what a session writes.
LEMMA ServerRunsInv == ASSUME IInv, ServerRuns PROVE IInv'
<1>1. /\ server.phase = "running" /\ open /\ toServer # <<>> /\ toServer' = Tail(toServer)
      /\ UNCHANGED <<owner, conn, open, toClient, server>>
      /\ toServer \in Seq(Message) /\ toClient \in Seq(Message)
  BY DEF ServerRuns, Received, IInv, TypeOK, Message
<1>2. toServer' \in Seq(Message) /\ (Proper(toServer) => Proper(toServer'))
  BY <1>1, CleanTalk
<1>3. TypeOK' /\ ServerOK' /\ SheetHasPurpose' /\ ServerUnderstands' /\ Legible'
  BY <1>1, <1>2 DEF IInv, TypeOK, ServerOK, SheetHasPurpose, ServerUnderstands, Legible, Message
<1>4. SameVersion' /\ Severed' /\ Released' /\ Visible' /\ Told'
  BY <1>1 DEF IInv, SameVersion, Severed, Released, Visible, Told, Active
<1>5. Undisturbed'
  BY <1>1, <1>2 DEF IInv, Undisturbed, Active
<1>6. conn.session => Running
  BY <1>1 DEF IInv, InStep, Active, Agree, Answered, Asked, Replied
<1>7. conn'.session => Running'
  BY <1>1, <1>6 DEF Running
<1>8. InStep'
  BY <1>1, <1>7 DEF InStep, Agree, Idle
<1>. QED BY <1>3, <1>4, <1>5, <1>8 DEF IInv

\* Only what a window writes during the handshake is misread.
LEMMA ServerMisreadsInv == ASSUME IInv, ServerMisreads PROVE IInv'
<1>1. /\ open /\ toServer # <<>> /\ Active
      /\ Head(toServer).kind \notin Understood /\ toServer' = Tail(toServer)
      /\ server' = [server EXCEPT !.phase = "confused"]
      /\ UNCHANGED <<owner, conn, toClient, open>>
      /\ toServer \in Seq(Message) /\ toClient \in Seq(Message)
  BY DEF ServerMisreads, Active, NextPhase, IInv, TypeOK, Message
<1>2. toServer' \in Seq(Message) /\ Head(toServer) = toServer[1] /\ 1 \in 1 .. Len(toServer)
  BY <1>1, HeadTailProperties, EmptySeq
<1>3. ASSUME ~owner.reconnecting PROVE FALSE
  <2>1. server.phase # "running"
    <3>. SUFFICES ASSUME server.phase = "running" PROVE FALSE
      OBVIOUS
    <3>1. toServer[1].kind \in SessionMessages
      BY <1>1, <1>2, <1>3 DEF IInv, Undisturbed, Proper
    <3>. QED BY <1>1, <1>2, <3>1 DEF Understood
  <2>2. ~Noisy(toServer)
    BY <1>1, <1>2, <1>3, <2>1 DEF IInv, Undisturbed, Clean, Noisy
  <2>3. /\ ~Quiet(toServer)
        /\ \A m : Next1(toServer, m) => toServer[1] = m
        /\ \A m, n : Next2(toServer, m, n) => toServer[1] = m
    BY <1>1, <2>2 DEF Quiet, Next1, Next2
  <2>4. CASE conn.session
    <3>1. Replied(toServer)
      BY <1>1, <2>1, <2>3, <2>4 DEF IInv, InStep, Agree, Running
    <3>. QED BY <1>1, <1>2, <2>3, <3>1 DEF Replied, Understood, Msg
  <2>5. CASE ~conn.session
    <3>1. server.phase = "choice" /\ toServer[1] = Msg("choice", <<Unusable>>)
      BY <1>1, <2>1, <2>3, <2>5 DEF IInv, InStep, Idle
    <3>. QED BY <1>1, <1>2, <3>1 DEF Understood, Msg
  <2>. QED BY <2>4, <2>5
<1>4. ServerOK' /\ server'.phase = "confused"
  BY <1>1 DEF IInv, ServerOK, ServerPhases
<1>5. TypeOK'
  BY <1>1, <1>2, <1>4 DEF IInv, TypeOK, Message, ServerPhases
<1>6. SheetHasPurpose' /\ ServerUnderstands' /\ Legible' /\ Severed' /\ Released' /\ Told'
  BY <1>1, <1>3 DEF IInv, SheetHasPurpose, ServerUnderstands, Legible, Severed, Released, Told
<1>7. InStep' /\ SameVersion' /\ Visible' /\ Undisturbed'
  BY <1>4 DEF InStep, SameVersion, Visible, Undisturbed, Active
<1>. QED BY <1>4, <1>5, <1>6, <1>7 DEF IInv

LEMMA ServerClosesInv == ASSUME IInv, ServerCloses PROVE IInv'
<1>1. /\ ~open' /\ toServer' = <<>> /\ UNCHANGED <<owner, conn, toClient>>
      /\ server' = [server EXCEPT !.phase = IF server.phase = "confused" THEN "confused" ELSE "done"]
      /\ toClient \in Seq(Message) /\ open' \in BOOLEAN
  BY DEF ServerCloses, NextPhase, IInv, TypeOK, Message
<1>2. /\ ServerOK' /\ server'.phase \in {"done", "confused"}
      /\ server'.phase = "confused" => server.phase = "confused"
  BY <1>1 DEF IInv, ServerOK, ServerPhases
<1>3. toServer' \in Seq(Message)
  BY <1>1, EmptySeq
<1>4. TypeOK'
  BY <1>1, <1>2, <1>3 DEF IInv, TypeOK, Message, ServerPhases
<1>5. SheetHasPurpose' /\ ServerUnderstands' /\ Legible' /\ Released' /\ Told'
  BY <1>1, <1>2 DEF IInv, SheetHasPurpose, ServerUnderstands, Legible, Released, Told
<1>6. InStep' /\ SameVersion' /\ Visible' /\ Undisturbed' /\ Severed'
  BY <1>1, <1>2 DEF InStep, SameVersion, Visible, Undisturbed, Severed, Active
<1>. QED BY <1>2, <1>4, <1>5, <1>6 DEF IInv

LEMMA StutterInv == ASSUME IInv, UNCHANGED vars PROVE IInv'
<1>. USE DEF vars
<1>1. TypeOK' /\ ServerOK' /\ SheetHasPurpose' /\ ServerUnderstands' /\ Legible'
  BY DEF IInv, TypeOK, ServerOK, SheetHasPurpose, ServerUnderstands, Legible, Message
<1>2. SameVersion' /\ Severed' /\ Released' /\ Visible' /\ Told' /\ Undisturbed'
  BY DEF IInv, SameVersion, Severed, Released, Visible, Told, Undisturbed, Active
<1>3. /\ Answered => Answered'
      /\ Asked => Asked'
      /\ Running => Running'
  BY DEF Answered, Asked, Running
<1>4. Agree => Agree'
  BY <1>3 DEF Agree, Replied
<1>5. InStep'
  BY <1>4 DEF IInv, InStep, Idle, Active
<1>. QED BY <1>1, <1>2, <1>5 DEF IInv

LEMMA NextInv == IInv /\ [Next]_vars => IInv'
<1>. SUFFICES ASSUME IInv, [Next]_vars PROVE IInv'
  OBVIOUS
<1>1. CASE ReadHandshake
  BY <1>1, ReadVersionInv, ReadAuthCountInv, ReadAuthArrayInv, ReadAuthTypeInv,
     ReadChallengeInv, ReadArdInv, ReadArdPeerKeyInv, ReadAuthResultInv, ReadReasonInv,
     ReadServerInitInv, ReadNameInv, ReadEOFInv
     DEF ReadHandshake
<1>2. CASE Deallocate
  BY <1>2, DeallocateInv
<1>3. CASE PasswordEntered \/ PasswordCancelled
  BY <1>3, PasswordEnteredInv, PasswordCancelledInv
<1>4. CASE \E k \in SessionMessages \ {"setup"} : WindowEvent(k)
  BY <1>4, WindowEventInv
<1>5. CASE ServerAnswers
  BY <1>5, ServerVersionInv, ServerOffersInv, ServerGetsChoiceInv, ServerJudgesInv,
     ServerInitsInv, ServerRunsInv, ServerMisreadsInv
     DEF ServerAnswers
<1>6. CASE ServerCloses
  BY <1>6, ServerClosesInv
<1>7. CASE UNCHANGED vars
  BY <1>7, StutterInv
<1>. QED BY <1>1, <1>2, <1>3, <1>4, <1>5, <1>6, <1>7 DEF Next

LEMMA Inductive == Spec => []IInv
BY InitInv, NextInv, PTL DEF Spec

-----------------------------------------------------------------------------
(* The theorems.                                                           *)

\* The fields of RFBConnection and RFBHandshaker have their types, whatever
\* the server announces and offers.
THEOREM TypeCorrect == Spec => []TypeOK
<1>1. IInv => TypeOK
  BY DEF IInv
<1>. QED BY <1>1, Inductive, PTL

\* The server is never sent what it does not expect at that point of the
\* handshake, unless a window that is on the screen from before has written:
\* for every version of the protocol, every list of security types (of any
\* length), with and without credentials.
THEOREM ServerIsUnderstood == Spec => []ServerUnderstands
<1>1. IInv => ServerUnderstands
  BY DEF IInv
<1>. QED BY <1>1, Inductive, PTL

\* The reader that the handshaker sets is the one for what the server sends.
THEOREM ReaderIsRight == Spec => []ReaderMatches
<1>1. IInv => ReaderMatches
  <2>. SUFFICES ASSUME IInv, conn.session, toClient # <<>> PROVE ReaderMatches
    BY DEF ReaderMatches
  <2>1. Remains(conn.reader, conn.minor, toClient) /\ conn.waiting = "no"
    BY DEF IInv, Legible
  <2>2. Head(toClient) = toClient[1]
    BY HeadTailProperties DEF IInv, TypeOK, Message
  <2>3. conn.reader = toClient[1].kind
    BY <2>1, Tails DEF Remains, Refusal, Msg
  <2>. QED BY <2>1, <2>2, <2>3 DEF ReaderMatches
<1>. QED BY <1>1, Inductive, PTL

\* The password sheet is on the screen exactly when its answer is waited for.
THEOREM SheetIsRight == Spec => []SheetHasPurpose
<1>1. IInv => SheetHasPurpose
  BY DEF IInv
<1>. QED BY <1>1, Inductive, PTL

\* A session that cannot connect again is told of the end of its connection,
\* in whatever state the handshake was.
THEOREM IncomingIsTold == Spec => []IncomingNeverStranded
<1>1. IInv => IncomingNeverStranded
  BY DEF IInv, Told, IncomingNeverStranded, NeverStranded
<1>. QED BY <1>1, Inductive, PTL

\* Every step of readData but the end of the file has a reader and its data.
LEMMA DataIsRead ==
    ASSUME ReadHandshake, ~ReadEOF
    PROVE  \E r \in Readers \ {"nil"} : Arrived(r) /\ Consume
<1>1. {"version", "authCount", "authArray", "authType", "challenge", "ardGenerator",
       "ardKeySize", "ardPrime", "ardPeerKey", "authResult", "reasonLength", "reason",
       "serverInit", "nameLength", "name"} \subseteq Readers \ {"nil"}
  BY DEF Readers
<1>2. CASE ReadVersion \/ ReadAuthCount \/ ReadAuthArray \/ ReadAuthType \/ ReadChallenge
  BY <1>1, <1>2 DEF ReadVersion, ReadAuthCount, ReadAuthArray, ReadAuthType, ReadChallenge
<1>3. CASE ReadArdGenerator \/ ReadArdKeySize \/ ReadArdPrime \/ ReadArdPeerKey
  BY <1>1, <1>3 DEF ReadArdGenerator, ReadArdKeySize, ReadArdPrime, ReadArdPeerKey
<1>4. CASE ReadAuthResult \/ ReadReasonLength \/ ReadReason
  BY <1>1, <1>4 DEF ReadAuthResult, ReadReasonLength, ReadReason
<1>5. CASE ReadServerInit \/ ReadNameLength \/ ReadName
  BY <1>1, <1>5 DEF ReadServerInit, ReadNameLength, ReadName
<1>. QED BY <1>2, <1>3, <1>4, <1>5 DEF ReadHandshake

\* Once the session has let go of the connection, no step writes to the server
\* or sets the reader of a running session.
LEMMA NothingFollows ==
    ASSUME IInv, Next, ~conn.session
    PROVE  /\ Len(toServer') <= Len(toServer)
           /\ conn'.reader = "type" => conn.reader = "type"
<1>1. /\ conn \in Call /\ conn.wrote = <<>> /\ Gone(conn)
      /\ toServer \in Seq(Message) /\ Len(toServer) \in Nat
  BY HasTold, LenProperties DEF IInv, TypeOK, Message
<1>2. ASSUME NEW c, c.wrote = <<>>, Becomes(c) PROVE toServer' = toServer
  BY <1>1, <1>2, ConcatEmptySeq DEF Becomes
<1>3. CASE ReadHandshake
  <2>1. ReadEOF
    BY <1>3, DataIsRead, Reading
  <2>2. Terminate(conn).wrote = <<>> /\ Terminate(conn).reader = "nil" /\ Gone(Terminate(conn))
    BY <1>1, Terminates
  <2>3. Becomes(Terminate(conn))
    BY <2>1 DEF ReadEOF
  <2>. DEFINE c == Terminate(conn)
  <2>. HIDE DEF c
  <2>4. c.wrote = <<>> /\ c.reader = "nil" /\ c \in Call /\ Becomes(c)
    BY <2>2, <2>3 DEF c, Gone
  <2>5. conn'.reader = "nil" /\ toServer' = toServer
    BY <1>2, <2>4 DEF Becomes, Call
  <2>. QED BY <1>1, <2>5
<1>4. CASE Deallocate
  BY <1>1, <1>4 DEF Deallocate, SetReader, Call
<1>5. CASE PasswordEntered
  <2>. DEFINE c == [[conn EXCEPT !.handled = TRUE] EXCEPT !.sheet = FALSE]
  <2>1. Becomes(c)
    BY <1>5 DEF PasswordEntered
  <2>2. c.wrote = <<>> /\ c.reader = conn.reader /\ c \in Call
    BY <1>1 DEF Call
  <2>. HIDE DEF c
  <2>3. conn'.reader = conn.reader /\ toServer' = toServer
    BY <1>2, <2>1, <2>2 DEF Becomes, Call
  <2>. QED BY <1>1, <2>3
<1>6. CASE PasswordCancelled
  <2>. DEFINE c == [ConnectionProblem(conn) EXCEPT !.sheet = FALSE, !.handled = TRUE]
  <2>1. Becomes(c)
    BY <1>6 DEF PasswordCancelled
  <2>2. c.wrote = <<>> /\ c.reader = conn.reader /\ c \in Call
    BY <1>1 DEF ConnectionProblem, Call
  <2>. HIDE DEF c
  <2>3. conn'.reader = conn.reader /\ toServer' = toServer
    BY <1>2, <2>1, <2>2 DEF Becomes, Call
  <2>. QED BY <1>1, <2>3
<1>7. CASE \E k \in SessionMessages \ {"setup"} : WindowEvent(k)
  BY <1>7 DEF WindowEvent
<1>8. CASE ServerAnswers
  <2>1. /\ conn' = conn
        /\ toServer' = toServer \/ (toServer # <<>> /\ toServer' = Tail(toServer))
    BY <1>8 DEF ServerAnswers, ServerVersion, ServerOffers, ServerGetsChoice, ServerJudges,
                ServerInits, ServerRuns, ServerMisreads, Received
  <2>2. toServer # <<>> => Len(Tail(toServer)) = Len(toServer) - 1
    BY <1>1, HeadTailProperties
  <2>. QED BY <1>1, <2>1, <2>2
<1>9. CASE ServerCloses
  <2>1. conn' = conn /\ Len(toServer') = 0
    BY <1>9, EmptySeq DEF ServerCloses
  <2>. QED BY <1>1, <2>1
<1>. QED BY <1>3, <1>4, <1>5, <1>6, <1>7, <1>8, <1>9 DEF Next

\* A connection that the session has let go of stays silent, although the rest
\* of what was read may be handed to a reader that was set after the end.
THEOREM SilentAfterTheEnd == Spec => NothingAfterTheEnd
<1>. DEFINE A == ~conn.session => /\ Len(toServer') <= Len(toServer)
                                  /\ conn'.reader = "type" => conn.reader = "type"
<1>1. IInv /\ [Next]_vars => [A]_vars
  BY NothingFollows
<1>2. Spec => [][A]_vars
  BY <1>1, Inductive, PTL DEF Spec
<1>. QED BY <1>2 DEF NothingAfterTheEnd

=============================================================================
