----------------------------- MODULE UpdateFlow -----------------------------
(***************************************************************************)
(* How the screen of the server reaches the window: the requests for       *)
(* updates (RFBConnection), when they are made (the timer, the window, the *)
(* preferences), and the reading of an update (RFBProtocol and             *)
(* FrameBufferUpdateReader), up to its last rectangle.                     *)
(*                                                                         *)
(* The RFB server answers requests as servers do: it joins those it has    *)
(* not answered yet, answers a full one at once, and an incremental one    *)
(* when the screen differs from what it has sent.                          *)
(*                                                                         *)
(* The contents of the screen are a number, its version; the reading of a  *)
(* rectangle, header and contents, is one step.  Other events happen       *)
(* between any two steps.                                                  *)
(***************************************************************************)
EXTENDS Integers, Sequences

CONSTANTS
    Sizes,        \* sizes the screen of the server can have
    MaxVersion,   \* bound of the model: changes of the screen
    MaxQueue,     \* bound of the model: requests the user may pile up
    MaxPreferences \* bound of the model: changes of the preferences

Blank == -1     \* nothing has been drawn
Nowhere == "nowhere"
Many == 65535   \* numberOfRects of an update that ends with LastRect

ASSUME UpdateFlowAssumption ==
    /\ Sizes # {}
    /\ Nowhere \notin Sizes
    /\ {MaxVersion, MaxQueue, MaxPreferences} \subseteq Nat

VARIABLES
    conn,       \* the client: see Connection
    window,     \* [visible, key]
    front,      \* preferences: intervals for the key window,
    other,      \* and for the other windows
    edits,      \* how often the preferences have been changed
    toServer,   \* requests on their way to the server
    toClient,   \* messages on their way to the client
    server      \* see Server

vars == <<conn, window, front, other, edits, toServer, toClient, server>>

\* 0 seconds, less than the maximum, and the maximum: only when asked to.
Intervals == {"none", "some", "manual"}

Screen == [size : Sizes, version : 0 .. MaxVersion]

Rects == [kind : {"content"}, screen : Screen]
         \cup [kind : {"resize"}, size : Sizes]
         \cup [kind : {"pseudo", "last"}]

Update == [kind : {"update"}, count : 0 .. 2 \cup {Many}, rects : Seq(Rects)]
Other == [kind : {"other"}]

Connection ==
    [started : BOOLEAN,              \* RFBConnection start: has run
     reader : {"type", "header", "rectHeader"},
     unread : Seq(Rects),            \* what is left of the message
     count : 0 .. 2 \cup {Many},     \* of its header, once it is known
     left : 0 .. Many,               \* numberOfRects
     resize : Sizes \cup {Nowhere},  \* shouldResize, and to which size
     invalid : BOOLEAN,              \* invalidRects is not empty
     isReceivingUpdate : BOOLEAN,
     frameBuffer : [size : Sizes, version : Blank .. MaxVersion],
     shown : Blank .. MaxVersion,    \* what the view has last drawn
     interval : Intervals,           \* _frameBufferUpdateSeconds
     timer : BOOLEAN]                \* _frameUpdateTimer

Server ==
    [screen : Screen,
     asked : {"nothing", "incremental", "full"},
     sent : Screen]                  \* what the client has been sent

Init ==
    /\ \E size \in Sizes :
          /\ conn = [started |-> FALSE, reader |-> "type", unread |-> <<>>,
                     count |-> 0, left |-> 0, resize |-> Nowhere,
                     invalid |-> FALSE, isReceivingUpdate |-> FALSE,
                     frameBuffer |-> [size |-> size, version |-> Blank],
                     shown |-> Blank, interval |-> "none", timer |-> FALSE]
          /\ server = [screen |-> [size |-> size, version |-> 0],
                       asked |-> "nothing",
                       sent |-> [size |-> size, version |-> 0]]
    /\ window \in [visible : BOOLEAN, key : BOOLEAN]
    /\ front = "none" /\ other = "some"      \* the preferences to begin with
    /\ edits = 0
    /\ toServer = <<>> /\ toClient = <<>>

-----------------------------------------------------------------------------
(* Requests.  An operator that makes requests is a relation between the    *)
(* connection before, c, the connection after and the requests written.    *)

Result(c, requests) == [conn |-> c, requests |-> requests]

RequestFrameBufferUpdate(c) ==
    Result([c EXCEPT !.timer = FALSE], <<"incremental">>)

ForceFrameBufferUpdate(c) == Result(c, <<"full">>)

QueueUpdateRequest_Wrong(c) ==
    IF c.interval # "none" THEN Result(c, <<>>)
                           ELSE RequestFrameBufferUpdate(c)

QueueUpdateRequest(c) ==
    IF c.interval # "none" THEN Result([c EXCEPT !.timer = TRUE], <<>>)
                           ELSE RequestFrameBufferUpdate(c)

SetFrameBufferUpdateSeconds_Wrong(c, interval) ==
    Result([c EXCEPT !.interval = interval], <<>>)

SetFrameBufferUpdateSeconds(c, interval) ==
    LET d == [c EXCEPT !.interval = interval]
    IN  IF c.interval = "manual" /\ interval # "manual"
        THEN RequestFrameBufferUpdate(d)
        ELSE Result(d, <<>>)

\* The connection becomes r.conn, and the requests are written.
Become(r) ==
    /\ conn' = r.conn
    /\ toServer' = toServer \o r.requests

-----------------------------------------------------------------------------
(* The reading of the messages of the server.                              *)

\* Drawn rectangles are invalidated and displayed.
Display(c) ==
    [c EXCEPT !.shown = IF c.invalid THEN c.frameBuffer.version ELSE @,
              !.invalid = FALSE,
              !.isReceivingUpdate = FALSE,
              !.reader = "type"]

\* sizeDisplay:withPixelFormat: makes a new frame buffer.  What has been
\* drawn of this update is gone; invalidRects stays as it is.
Resize(c) ==
    [c EXCEPT !.frameBuffer = [size |-> c.resize, version |-> Blank],
              !.shown = Blank,
              !.resize = Nowhere,
              !.isReceivingUpdate = FALSE,
              !.reader = "type"]

UpdateComplete_Wrong(c) ==
    CASE c.resize # Nowhere -> RequestFrameBufferUpdate(Resize(c))
      [] c.resize = Nowhere /\ c.interval = "manual" -> Result(Display(c), <<>>)
      [] c.resize = Nowhere /\ c.interval # "manual" ->
            QueueUpdateRequest(Display(c))

UpdateComplete(c) ==
    CASE c.resize # Nowhere -> Result(Resize(c), <<"full">>)
      [] c.resize = Nowhere /\ c.interval = "manual" -> Result(Display(c), <<>>)
      [] c.resize = Nowhere /\ c.interval # "manual" ->
            QueueUpdateRequest(Display(c))

DidRect(c) ==
    LET d == [c EXCEPT !.left = @ - 1]
    IN  IF d.left > 0 THEN Result([d EXCEPT !.reader = "rectHeader"], <<>>)
                      ELSE UpdateComplete(d)

\* A rectangle is drawn into the frame buffer there is.
Draw(c, screen) ==
    [c EXCEPT !.frameBuffer.version = screen.version, !.invalid = TRUE]

SetRect(c, rect) ==
    CASE rect.kind = "content" -> DidRect(Draw(c, rect.screen))
      [] rect.kind = "resize" -> DidRect([c EXCEPT !.resize = rect.size])
      [] rect.kind = "pseudo" -> DidRect(c)
      [] rect.kind = "last" -> UpdateComplete(c)

ReceiveUpdate ==
    /\ conn.started /\ conn.reader = "type"
    /\ toClient # <<>> /\ Head(toClient).kind = "update"
    /\ conn' = [conn EXCEPT !.reader = "header",
                            !.isReceivingUpdate = TRUE,
                            !.unread = Head(toClient).rects,
                            !.count = Head(toClient).count]
    /\ toClient' = Tail(toClient)
    /\ UNCHANGED <<window, front, other, edits, toServer, server>>

\* The bell, the clipboard and the colour map leave the updates alone.
ReceiveOther ==
    /\ conn.started /\ conn.reader = "type"
    /\ toClient # <<>> /\ Head(toClient).kind = "other"
    /\ toClient' = Tail(toClient)
    /\ UNCHANGED <<conn, window, front, other, edits, toServer, server>>

SetHeader ==
    /\ conn.reader = "header"
    /\ LET c == [conn EXCEPT !.left = conn.count, !.count = 0]
       IN  Become(IF c.left > 0
                  THEN Result([c EXCEPT !.reader = "rectHeader"], <<>>)
                  ELSE UpdateComplete(c))
    /\ UNCHANGED <<window, front, other, edits, toClient, server>>

ReadRect ==
    /\ conn.reader = "rectHeader" /\ conn.unread # <<>>
    /\ Become(SetRect([conn EXCEPT !.unread = Tail(@)], Head(conn.unread)))
    /\ UNCHANGED <<window, front, other, edits, toClient, server>>

UpdateTimer ==
    /\ conn.timer
    /\ Become(RequestFrameBufferUpdate(conn))
    /\ UNCHANGED <<window, front, other, edits, toClient, server>>

-----------------------------------------------------------------------------
(* The window, the menus and the preferences.                              *)

IntervalOf(w) == IF w.key THEN front ELSE other

\* RFBConnection start: shows the window and makes it the key window, which on
\* a reconnection it may be already.
Start ==
    /\ ~conn.started
    /\ LET c == [conn EXCEPT !.started = TRUE]
           r == IF window.visible /\ ~window.key
                THEN SetFrameBufferUpdateSeconds(c, front) ELSE Result(c, <<>>)
       IN  Become(Result(r.conn, r.requests \o <<"full">>))
    /\ window' = [window EXCEPT !.key = TRUE]
    /\ UNCHANGED <<front, other, edits, toClient, server>>

\* Session windowDidChangeOcclusionState:
WindowAppears ==
    /\ conn.started /\ ~window.visible /\ Len(toServer) < MaxQueue
    /\ window' = [window EXCEPT !.visible = TRUE]
    /\ LET r == SetFrameBufferUpdateSeconds(conn, IntervalOf(window))
       IN  Become(Result(r.conn,
                         r.requests \o ForceFrameBufferUpdate(r.conn).requests))
    /\ UNCHANGED <<front, other, edits, toClient, server>>

WindowHides ==
    /\ conn.started /\ window.visible
    /\ window' = [window EXCEPT !.visible = FALSE]
    /\ Become(SetFrameBufferUpdateSeconds(conn, "manual"))
    /\ UNCHANGED <<front, other, edits, toClient, server>>

\* Session windowDidBecomeKey:, windowDidResignKey:
WindowKey ==
    /\ conn.started /\ Len(toServer) < MaxQueue
    /\ window' = [window EXCEPT !.key = ~@]
    /\ Become(IF window.visible
              THEN SetFrameBufferUpdateSeconds(conn, IntervalOf(window'))
              ELSE Result(conn, <<>>))
    /\ UNCHANGED <<front, other, edits, toClient, server>>

\* The menu item for an update.
RequestedByUser ==
    /\ conn.started /\ Len(toServer) < MaxQueue
    /\ Become(RequestFrameBufferUpdate(conn))
    /\ UNCHANGED <<window, front, other, edits, toClient, server>>

\* The sliders of the preferences.
FrontSlider(interval) ==
    /\ conn.started /\ edits < MaxPreferences
    /\ edits' = edits + 1
    /\ front' = interval
    /\ Become(IF window.key THEN SetFrameBufferUpdateSeconds(conn, interval)
                            ELSE Result(conn, <<>>))
    /\ UNCHANGED <<window, other, toClient, server>>

OtherSlider(interval) ==
    /\ conn.started /\ edits < MaxPreferences
    /\ edits' = edits + 1
    /\ other' = interval
    /\ Become(IF ~window.key THEN SetFrameBufferUpdateSeconds(conn, interval)
                             ELSE Result(conn, <<>>))
    /\ UNCHANGED <<window, front, toClient, server>>

-----------------------------------------------------------------------------
(* The server.                                                             *)

ServerReads ==
    /\ toServer # <<>>
    /\ server' = [server EXCEPT !.asked = IF @ = "full" THEN @
                                          ELSE Head(toServer)]
    /\ toServer' = Tail(toServer)
    /\ UNCHANGED <<conn, window, front, other, edits, toClient>>

ScreenChanges ==
    /\ server.screen.version < MaxVersion
    /\ \E size \in Sizes :
          server' = [server EXCEPT !.screen =
                        [size |-> size, version |-> @.version + 1]]
    /\ UNCHANGED <<conn, window, front, other, edits, toServer, toClient>>

Counted(rects) == [kind |-> "update", count |-> Len(rects), rects |-> rects]
Ended(rects) == [kind |-> "update", count |-> Many,
                 rects |-> Append(rects, [kind |-> "last"])]

\* A change of size ends an update: what comes before is drawn into the old
\* frame buffer, and the contents go with the next full update.
ServerAnswers ==
    /\ \/ server.asked = "full"
       \/ server.asked = "incremental" /\ server.screen # server.sent
    /\ Len(toClient) < MaxQueue
    /\ LET content == [kind |-> "content", screen |-> server.screen]
           resize == [kind |-> "resize", size |-> server.screen.size]
           pseudo == [kind |-> "pseudo"]
       IN  \E rects \in IF server.screen.size # server.sent.size
                        THEN {<<resize>>, <<content, resize>>}
                        ELSE {<<content>>, <<pseudo, content>>} :
              \E update \in {Counted(rects), Ended(rects)} :
                  toClient' = Append(toClient, update)
    /\ server' = [server EXCEPT !.sent = server.screen, !.asked = "nothing"]
    /\ UNCHANGED <<conn, window, front, other, edits, toServer>>

\* Some servers answer with updates of no rectangles.
ServerAnswersNothing ==
    /\ server.asked = "incremental" /\ server.screen = server.sent
    /\ server.screen.version < MaxVersion /\ Len(toClient) < MaxQueue
    /\ toClient' = Append(toClient, Counted(<<>>))
    /\ server' = [server EXCEPT !.asked = "nothing"]
    /\ UNCHANGED <<conn, window, front, other, edits, toServer>>

ServerSendsOther ==
    /\ Len(toClient) < MaxQueue /\ server.screen.version < MaxVersion
    /\ toClient' = Append(toClient, [kind |-> "other"])
    /\ UNCHANGED <<conn, window, front, other, edits, toServer, server>>

-----------------------------------------------------------------------------

ClientReads == ReceiveUpdate \/ ReceiveOther \/ SetHeader \/ ReadRect

Next ==
    \/ Start \/ ReceiveUpdate \/ ReceiveOther \/ SetHeader \/ ReadRect
    \/ UpdateTimer
    \/ WindowAppears \/ WindowHides \/ WindowKey \/ RequestedByUser
    \/ \E i \in Intervals : FrontSlider(i) \/ OtherSlider(i)
    \/ ServerReads \/ ScreenChanges \/ ServerAnswers \/ ServerAnswersNothing
    \/ ServerSendsOther

Spec == Init /\ [][Next]_vars

\* The run loop serves data and timers; the server answers what it can.
Fairness ==
    /\ WF_vars(Start) /\ WF_vars(ClientReads) /\ WF_vars(UpdateTimer)
    /\ WF_vars(ServerReads) /\ WF_vars(ServerAnswers)

FairSpec == Spec /\ Fairness

-----------------------------------------------------------------------------
(* Properties.                                                             *)

\* The fields of RFBConnection and FrameBufferUpdateReader have their types.
TypeOK ==
    /\ conn \in Connection
    /\ window \in [visible : BOOLEAN, key : BOOLEAN]
    /\ front \in Intervals /\ other \in Intervals
    /\ edits \in 0 .. MaxPreferences
    /\ toServer \in Seq({"incremental", "full"})
    /\ toClient \in Seq(Update \cup Other)
    /\ server \in Server

Automatic == conn.started /\ conn.interval # "manual"

\* As long as updates are automatic, one is being received, is on its way, has
\* been requested or will be when the timer fires: no order of resizes,
\* intervals, windows and empty updates ends the flow of updates.
NeverStarved ==
    Automatic =>
        \/ conn.timer
        \/ conn.reader # "type"
        \/ \E i \in 1 .. Len(toClient) : toClient[i].kind = "update"
        \/ server.asked # "nothing"
        \/ toServer # <<>>

\* When nothing is under way, what the server believes to have sent is what
\* the window shows, through changes of size too.
WindowShowsScreen ==
    (/\ conn.started /\ conn.reader = "type"
     /\ toServer = <<>> /\ server.asked # "full"
     /\ \A i \in 1 .. Len(toClient) : toClient[i].kind = "other")
        => /\ conn.frameBuffer.size = server.sent.size
           /\ conn.shown = server.sent.version

\* Whatever else happens, the last change of the screen is shown at last,
\* unless updates stop being automatic.
LastChangeIsShown ==
    <>[](Automatic /\ server.screen.version = MaxVersion)
        => <>[](conn.shown = server.screen.version)
=============================================================================
