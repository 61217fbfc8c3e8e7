------------------------------ MODULE Listener ------------------------------
(***************************************************************************)
(* ListenerController: servers that connect to the client.  The listener   *)
(* waits for the first byte of a connection before it takes it for a       *)
(* server; it stops when it has one, and the connections that have said    *)
(* nothing until then linger for a second.                                 *)
(*                                                                         *)
(* Connections are accepted and watched in the background; the             *)
(* notifications about both are handlers of the main thread, as are the    *)
(* button of the panel and the two timers.  Both listening sockets (IPv4   *)
(* and IPv6) are opened and closed by the same handlers: they are one.     *)
(***************************************************************************)
EXTENDS FiniteSets

CONSTANTS
    Peers,      \* connections to the listener
    Profiles,   \* profiles the panel offers
    NoProfile   \* nil

ASSUME ListenerAssumption == NoProfile \notin Profiles

VARIABLES
    listening,         \* listeningSockets are not nil
    listeningProfile,
    fileHandles,       \* connections that have not said anything yet
    closeTimer,        \* is running
    resetErrorTimer,   \* is running
    status,            \* what the panel says
    sessions,          \* sessions of the manager: their profile, by peer
    socket,            \* by peer: see PeerSockets
    says               \* by peer: what it has done at its end

listenerVars == <<listening, listeningProfile, fileHandles, closeTimer,
                  resetErrorTimer, status, sessions, socket, says>>

\* Not accepted yet; accepted, but connectionReceived: has not been called
\* about it; open at our end; closed.
PeerSockets == {"none", "accepted", "open", "closed"}

Says == {"nothing", "data", "hangup"}

ListenerInit ==
    /\ listening = FALSE /\ listeningProfile = NoProfile
    /\ fileHandles = {}
    /\ closeTimer = FALSE /\ resetErrorTimer = FALSE
    /\ status = "listenStopped"
    /\ sessions = <<>>
    /\ socket = [p \in Peers |-> "none"]
    /\ says = [p \in Peers |-> "nothing"]

-----------------------------------------------------------------------------
(* Parts of the handlers.                                                  *)

\* Any message replaces the message of an error.
SetStatus(s) == status' = s /\ resetErrorTimer' = FALSE

\* What is accepted but not yet reported is released with its notification,
\* which has no observer any more, and so closed.
StopListening(sockets) ==
    [p \in Peers |-> IF sockets[p] = "accepted" THEN "closed" ELSE sockets[p]]

CloseAll(sockets, set) ==
    [p \in Peers |-> IF p \in set THEN "closed" ELSE sockets[p]]

\* stopListener
StopListener ==
    /\ listening' = FALSE /\ listeningProfile' = NoProfile
    /\ SetStatus("listenStopped")

\* closeLingering:
CloseLingering ==
    /\ fileHandles' = {}
    /\ closeTimer' = FALSE

-----------------------------------------------------------------------------
(* The panel.                                                              *)

\* actionPressed: while it does not listen.  If one of the two addresses
\* cannot be bound nothing is listened at, and the panel says why, unless its
\* window has not been loaded or there is no socket at all.
Start(profile, bound) ==
    /\ ~listening
    /\ CloseLingering
    /\ socket' = CloseAll(socket, fileHandles)
    /\ IF bound
       THEN /\ listening' = TRUE /\ listeningProfile' = profile
            /\ SetStatus("listenRunning")
       ELSE /\ SetStatus("error") \/ UNCHANGED <<status, resetErrorTimer>>
            /\ UNCHANGED <<listening, listeningProfile>>
    /\ UNCHANGED <<sessions, says>>

\* actionPressed: while it listens.
Stop ==
    /\ listening
    /\ CloseLingering
    /\ StopListener
    /\ socket' = StopListening(CloseAll(socket, fileHandles))
    /\ UNCHANGED <<sessions, says>>

-----------------------------------------------------------------------------
(* The notifications.  closeLingering: leaves the observer of the handles  *)
(* it closes; a notification that is late for one finds no descriptor and  *)
(* raises an exception before anything is done, so it is no step.          *)

\* The background accept of a listening socket.
Accept(p) ==
    /\ listening /\ socket[p] = "none"
    /\ socket' = [socket EXCEPT ![p] = "accepted"]
    /\ UNCHANGED <<listening, listeningProfile, fileHandles, closeTimer,
                   resetErrorTimer, status, sessions, says>>

ConnectionReceived(p) ==
    /\ socket[p] = "accepted"
    /\ socket' = [socket EXCEPT ![p] = "open"]
    /\ fileHandles' = fileHandles \cup {p}
    /\ SetStatus("listenConnected")
    /\ UNCHANGED <<listening, listeningProfile, closeTimer, sessions, says>>

\* dataReceived: poll says that the server has closed the connection; the
\* handle is released, which closes it.
HungUp(p) ==
    /\ p \in fileHandles /\ says[p] = "hangup"
    /\ fileHandles' = fileHandles \ {p}
    /\ socket' = [socket EXCEPT ![p] = "closed"]
    /\ status' = "listenClosed" /\ resetErrorTimer' = TRUE
    /\ UNCHANGED <<listening, listeningProfile, closeTimer, sessions, says>>

\* The handle stays in the array.
DataReceived_Wrong(p) ==
    /\ p \in fileHandles /\ says[p] = "data"
    /\ sessions' = [q \in DOMAIN sessions \cup {p} |->
                       IF q = p THEN listeningProfile ELSE sessions[q]]
    /\ StopListener
    /\ socket' = StopListening(socket)
    /\ closeTimer' = TRUE
    /\ UNCHANGED <<fileHandles, says>>

\* One too few is counted: a single handle that is left is overlooked.
DataReceived_Miscounts(p) ==
    /\ p \in fileHandles /\ says[p] = "data"
    /\ fileHandles' = fileHandles \ {p}
    /\ sessions' = [q \in DOMAIN sessions \cup {p} |->
                       IF q = p THEN listeningProfile ELSE sessions[q]]
    /\ StopListener
    /\ socket' = StopListening(socket)
    /\ closeTimer' = (closeTimer \/ \E q, r \in fileHandles' : q # r)
    /\ UNCHANGED says

\* dataReceived: the connection is a server's; the listener stops.
DataReceived(p) ==
    /\ p \in fileHandles /\ says[p] = "data"
    /\ fileHandles' = fileHandles \ {p}
    /\ sessions' = [q \in DOMAIN sessions \cup {p} |->
                       IF q = p THEN listeningProfile ELSE sessions[q]]
    /\ StopListener
    /\ socket' = StopListening(socket)
    /\ closeTimer' = (closeTimer \/ fileHandles' # {})
    /\ UNCHANGED says

\* closeLingering: by its timer.
Linger ==
    /\ closeTimer
    /\ CloseLingering
    /\ socket' = CloseAll(socket, fileHandles)
    /\ UNCHANGED <<listening, listeningProfile, resetErrorTimer, status,
                   sessions, says>>

\* clearError: by its timer.
ClearError ==
    /\ resetErrorTimer
    /\ SetStatus(IF fileHandles # {} THEN "listenConnected"
                                     ELSE "listenRunning")
    /\ UNCHANGED <<listening, listeningProfile, fileHandles, closeTimer,
                   sessions, socket, says>>

-----------------------------------------------------------------------------
(* The servers, and the sessions.                                          *)

\* A server sends its first bytes or closes the connection; it may close it
\* after it has sent something, and then poll reports that.
PeerActs(p, what) ==
    /\ socket[p] # "none" /\ says[p] \in {"nothing", "data"}
    /\ what \in {"data", "hangup"} \ {says[p]}
    /\ says' = [says EXCEPT ![p] = what]
    /\ UNCHANGED <<listening, listeningProfile, fileHandles, closeTimer,
                   resetErrorTimer, status, sessions, socket>>

\* removeConnection: the session ends and closes its socket.
SessionEnds(p) ==
    /\ p \in DOMAIN sessions
    /\ sessions' = [q \in DOMAIN sessions \ {p} |-> sessions[q]]
    /\ socket' = [socket EXCEPT ![p] = "closed"]
    /\ UNCHANGED <<listening, listeningProfile, fileHandles, closeTimer,
                   resetErrorTimer, status, says>>

ListenerNext ==
    \/ \E profile \in Profiles, bound \in BOOLEAN : Start(profile, bound)
    \/ Stop \/ Linger \/ ClearError
    \/ \E p \in Peers :
          \/ Accept(p) \/ ConnectionReceived(p) \/ HungUp(p) \/ DataReceived(p)
          \/ SessionEnds(p)
          \/ \E what \in Says : PeerActs(p, what)

ListenerSpec == ListenerInit /\ [][ListenerNext]_listenerVars

\* The run loop serves timers and notifications.
ListenerFairness ==
    /\ WF_listenerVars(Linger)
    /\ \A p \in Peers : WF_listenerVars(ConnectionReceived(p))

ListenerFairSpec == ListenerSpec /\ ListenerFairness

-----------------------------------------------------------------------------
(* Properties.                                                             *)

\* The fields of ListenerController have their types.
ListenerTypeOK ==
    /\ listening \in BOOLEAN /\ closeTimer \in BOOLEAN
    /\ resetErrorTimer \in BOOLEAN
    /\ listeningProfile \in Profiles \cup {NoProfile}
    /\ fileHandles \subseteq Peers
    /\ status \in {"listenStopped", "listenRunning", "listenConnected",
                   "listenClosed", "error"}
    /\ DOMAIN sessions \subseteq Peers
    /\ \A p \in DOMAIN sessions : sessions[p] \in Profiles \cup {NoProfile}
    /\ socket \in [Peers -> PeerSockets] /\ says \in [Peers -> Says]

\* Every open connection has one owner, the listener or a session: the sweep
\* of the lingering connections never closes the socket of a session, and no
\* order of stopping, starting, first bytes and hang-ups leaves a connection
\* that nobody will close.
OneOwner ==
    /\ fileHandles \cap DOMAIN sessions = {}
    /\ {p \in Peers : socket[p] = "open"} = fileHandles \cup DOMAIN sessions

\* "We close any extra connections which aren't sending data": once the
\* listener has stopped, none waits for ever (unless it listens again).
LingeringEnds == ~listening ~> (listening \/ fileHandles = {})
=============================================================================
