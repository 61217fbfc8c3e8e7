--------------------------- MODULE RDPConnection ---------------------------
(***************************************************************************)
(* RDPConnection: a worker thread runs the FreeRDP client; the main thread *)
(* shows its frame buffer, sends input and sizes through it under a lock,  *)
(* and closes it.  Two queues lead to the main thread: blocks, dispatched  *)
(* by the worker and by the thread of the clipboard channel, which waits   *)
(* for its own, and what the worker has asked to be performed last.        *)
(*                                                                         *)
(* FreeRDP is external: it owns the memory of the frame buffer (gdi), and  *)
(* the threads of its channels, which freerdp_disconnect joins.  The       *)
(* blocks that only mark a part of the view as dirty, or set a cursor, are *)
(* left out: they do nothing once the view is gone.                        *)
(***************************************************************************)
EXTENDS Integers, Sequences

CONSTANTS
    Sizes,      \* of windows and desktops
    NoSize,
    Unasked,    \* sizes the server may choose of its own accord
    MaxChoices, \* bound of the model: sizes the user chooses
    MaxResizes  \* bound of the model: resizes of the desktop

ASSUME RDPConnectionAssumption ==
    /\ Sizes # {}
    /\ NoSize \notin Sizes
    /\ Unasked \subseteq Sizes
    /\ {MaxChoices, MaxResizes} \subseteq Nat

VARIABLES
    conn,       \* the fields of RDPConnection: see Connection
    main,       \* what the main thread is at: see Main
    worker,     \* what the worker thread is at
    lock,       \* who holds inputLock
    gdi,        \* [buffer, size] of the frame buffer FreeRDP draws into
    channel,    \* the thread of the clipboard channel
    blocks,     \* the queue of dispatch_get_main_queue()
    performed,  \* notifyDisconnected: waits to be performed
    window,     \* [size, choices]: the size the user has chosen last
    asked       \* the size the server has been asked for last

vars == <<conn, main, worker, lock, gdi, channel, blocks, performed, window,
          asked>>

\* Buffers are numbered as they are allocated.  There is a gdi between
\* rdp_PostConnect and rdp_PostDisconnect, which may lose its buffer.
NoGdi == -2
NULL == -1
Own == 0        \* that of RDPFrameBuffer itself
Buffers == Nat \ {0}

Connection ==
    [session : BOOLEAN,             \* and rfbView: set and nilled together
     context : BOOLEAN,             \* freerdpContext, freerdpInstance
     workerThread : BOOLEAN,
     isConnected : BOOLEAN,
     shouldStop : BOOLEAN,          \* and stopEvent
     disp : {"none", "open", "ready", "closed"},    \* dispContext, dispReady
     cliprdr : {"none", "open", "ready"},   \* cliprdrContext, cliprdrReady
     frameBuffer : [buffer : {NULL, Own} \cup Buffers, size : Sizes],
     currentDesktopSize : Sizes,
     pendingDesktopSize : Sizes,
     delayed : BOOLEAN]             \* performDelayedDesktopSize is due

\* "closing": in the wait of closeConnection for the worker.
Main ==
    [at : {"free", "locking", "sending", "closing"},
     what : {"input", "layout", "formats"}]

Workers == {"none", "starting", "connecting", "connected", "loop", "tested",
            "checking", "resized", "disconnecting", "disconnected", "over"}

Blocks == [kind : {"connected", "clipboard"}]
          \cup [kind : {"resize"}, size : Sizes]

Init ==
    /\ \E size \in Sizes :
          conn = [session |-> FALSE, context |-> FALSE, workerThread |-> FALSE,
                  isConnected |-> FALSE, shouldStop |-> FALSE,
                  disp |-> "none", cliprdr |-> "none",
                  frameBuffer |-> [buffer |-> Own, size |-> size],
                  currentDesktopSize |-> size, pendingDesktopSize |-> size,
                  delayed |-> FALSE]
    /\ main = [at |-> "free", what |-> "input"]
    /\ worker = "none"
    /\ lock = "free"
    /\ \E size \in Sizes : gdi = [buffer |-> NoGdi, size |-> size]
    /\ channel = "none"
    /\ blocks = <<>>
    /\ performed = FALSE
    /\ window = [size |-> NoSize, choices |-> 0]
    /\ asked = NoSize

-----------------------------------------------------------------------------
(* The main thread: the life of the connection.                            *)

Free == main.at = "free"

CloseConnection_Wrong ==
    /\ conn' = [conn EXCEPT
                   !.session = FALSE, !.delayed = FALSE,
                   !.disp = IF @ = "ready" THEN "open" ELSE @,
                   !.cliprdr = IF @ = "ready" THEN "open" ELSE @,
                   !.frameBuffer.buffer = NULL]
    /\ main' = [main EXCEPT !.at = "closing"]

CloseConnection_Frees ==
    /\ conn' = [conn EXCEPT
                   !.session = FALSE, !.delayed = FALSE, !.shouldStop = TRUE,
                   !.disp = IF @ = "ready" THEN "open" ELSE @,
                   !.cliprdr = IF @ = "ready" THEN "open" ELSE @,
                   !.context = FALSE,
                   !.frameBuffer.buffer = NULL]
    /\ main' = [main EXCEPT !.at = "closing"]

\* closeConnection up to its wait for the worker.  What it aborts is only the
\* sooner over.
CloseConnection ==
    /\ conn' = [conn EXCEPT
                   !.session = FALSE, !.delayed = FALSE, !.shouldStop = TRUE,
                   !.disp = IF @ = "ready" THEN "open" ELSE @,
                   !.cliprdr = IF @ = "ready" THEN "open" ELSE @,
                   !.frameBuffer.buffer = NULL]
    /\ main' = [main EXCEPT !.at = "closing"]

\* The end of that wait, and of closeConnection.
CloseEnds ==
    /\ main.at = "closing"
    /\ worker \in {"none", "over"}
    /\ conn' = [conn EXCEPT !.workerThread = FALSE, !.context = FALSE]
    /\ main' = [main EXCEPT !.at = "free"]
    /\ UNCHANGED <<worker, lock, gdi, channel, blocks, performed, window,
                   asked>>

\* setSession:, setRfbView: and startFreeRDP, whose client context may fail:
\* the session is told at once, and closes the connection.
Start ==
    /\ Free /\ worker = "none" /\ ~conn.shouldStop
    /\ \/ /\ conn' = [conn EXCEPT !.session = TRUE, !.context = TRUE,
                                  !.workerThread = TRUE]
          /\ worker' = "starting"
          /\ UNCHANGED main
       \/ CloseConnection /\ UNCHANGED worker
    /\ UNCHANGED <<lock, gdi, channel, blocks, performed, window, asked>>

\* The user closes the window, reconnects, or quits; the session is over.
SessionCloses ==
    /\ Free /\ conn.session
    /\ CloseConnection
    /\ UNCHANGED <<worker, lock, gdi, channel, blocks, performed, window,
                   asked>>

\* The session that is told closes the connection.
NotifyDisconnected ==
    /\ Free /\ performed
    /\ performed' = FALSE
    /\ IF conn.session THEN CloseConnection ELSE UNCHANGED <<conn, main>>
    /\ UNCHANGED <<worker, lock, gdi, channel, blocks, window, asked>>

-----------------------------------------------------------------------------
(* The main thread: blocks.                                                *)

HasGdi == conn.context /\ gdi.buffer # NoGdi

\* The block of notifyConnected: the gdi is that of the time it runs.
NotifyConnected ==
    IF HasGdi
    THEN [conn EXCEPT !.currentDesktopSize = gdi.size, !.frameBuffer = gdi]
    ELSE conn

NotifyDesktopResize_Wrong(size) ==
    [conn EXCEPT !.currentDesktopSize = size, !.frameBuffer.size = size]

\* The block of notifyDesktopResize: the size is that of the resize, the
\* buffer that of the time the block runs.
NotifyDesktopResize(size) ==
    [conn EXCEPT !.currentDesktopSize = size,
                 !.frameBuffer =
                    [buffer |-> IF HasGdi THEN gdi.buffer ELSE @.buffer,
                     size |-> size]]

MainBlock ==
    /\ Free /\ blocks # <<>>
    /\ blocks' = Tail(blocks)
    /\ LET block == Head(blocks)
       IN  /\ conn' = CASE block.kind = "connected" -> NotifyConnected
                        [] block.kind = "resize" ->
                              NotifyDesktopResize(block.size)
                        [] block.kind = "clipboard" -> conn
           /\ channel' = IF block.kind = "clipboard" THEN "runs" ELSE channel
    /\ UNCHANGED <<main, worker, lock, gdi, performed, window, asked>>

-----------------------------------------------------------------------------
(* The main thread: what it sends.                                         *)

Locking(what) == main' = [at |-> "locking", what |-> what]

\* Keys, buttons and movements: the first look at isConnected.
Input ==
    /\ Free /\ conn.session /\ conn.context /\ conn.isConnected
    /\ Locking("input")
    /\ UNCHANGED <<conn, worker, lock, gdi, channel, blocks, performed, window,
                   asked>>

\* sendPasteboardToServer:, which looks under the lock only.
SendPasteboard ==
    /\ Free /\ conn.session
    /\ Locking("formats")
    /\ UNCHANGED <<conn, worker, lock, gdi, channel, blocks, performed, window,
                   asked>>

\* The user ends the resizing of the window, which notifyConnected has set up:
\* writeSetDesktopSize:
Choose(size) ==
    /\ Free /\ conn.session /\ conn.disp = "ready"
    /\ conn.frameBuffer.buffer # Own
    /\ window.choices < MaxChoices
    /\ window' = [size |-> size, choices |-> window.choices + 1]
    /\ conn' = IF size = conn.currentDesktopSize THEN conn
               ELSE [conn EXCEPT !.pendingDesktopSize = size, !.delayed = TRUE]
    /\ UNCHANGED <<main, worker, lock, gdi, channel, blocks, performed, asked>>

PerformDelayedDesktopSize ==
    /\ Free /\ conn.delayed
    /\ conn' = [conn EXCEPT !.delayed = FALSE]
    /\ IF /\ conn.disp = "ready" /\ conn.isConnected
          /\ conn.pendingDesktopSize # conn.currentDesktopSize
       THEN Locking("layout")
       ELSE UNCHANGED main
    /\ UNCHANGED <<worker, lock, gdi, channel, blocks, performed, window,
                   asked>>

MaySend_Wrong ==
    CASE main.what = "input" -> conn.context /\ conn.isConnected
      [] main.what = "layout" -> TRUE
      [] main.what = "formats" -> conn.cliprdr = "ready" /\ conn.isConnected

\* What is looked at under the lock: not dispReady, nor isConnected for a
\* layout.
MaySend ==
    CASE main.what = "input" -> conn.context /\ conn.isConnected
      [] main.what = "layout" -> conn.disp \in {"open", "ready"}
      [] main.what = "formats" -> conn.cliprdr = "ready" /\ conn.isConnected

LockInput ==
    /\ main.at = "locking" /\ lock = "free"
    /\ IF MaySend
       THEN main' = [main EXCEPT !.at = "sending"] /\ lock' = "main"
       ELSE main' = [main EXCEPT !.at = "free"] /\ UNCHANGED lock
    /\ UNCHANGED <<conn, worker, gdi, channel, blocks, performed, window,
                   asked>>

Send ==
    /\ main.at = "sending"
    /\ main' = [main EXCEPT !.at = "free"]
    /\ lock' = "free"
    /\ asked' = IF main.what = "layout" THEN conn.pendingDesktopSize ELSE asked
    /\ UNCHANGED <<conn, worker, gdi, channel, blocks, performed, window>>

-----------------------------------------------------------------------------
(* The worker thread.                                                      *)

WorkerOnly == UNCHANGED <<main, window, asked>>

BeginConnect ==
    /\ worker = "starting"
    /\ worker' = "connecting"
    /\ WorkerOnly
    /\ UNCHANGED <<conn, lock, gdi, channel, blocks, performed>>

ConnectFails_Wrong ==
    /\ worker = "connecting"
    /\ worker' = "over"
    /\ WorkerOnly
    /\ UNCHANGED <<conn, lock, gdi, channel, blocks, performed>>

\* At any time, and after freerdp_abort_connect_context.
ConnectFails ==
    /\ worker = "connecting"
    /\ worker' = "over"
    /\ performed' = TRUE
    /\ WorkerOnly
    /\ UNCHANGED <<conn, lock, gdi, channel, blocks>>

\* rdp_PostConnect, and the clipboard channel, which freerdp_connect opens.
PostConnect ==
    /\ worker = "connecting"
    /\ worker' = "connected"
    /\ \E size \in Sizes : gdi' = [buffer |-> 1, size |-> size]
    /\ blocks' = Append(blocks, [kind |-> "connected"])
    /\ channel' = "runs"
    /\ conn' = [conn EXCEPT !.cliprdr = "open"]
    /\ WorkerOnly
    /\ UNCHANGED <<lock, performed>>

Connected ==
    /\ worker = "connected"
    /\ worker' = "loop"
    /\ conn' = [conn EXCEPT !.isConnected = TRUE]
    /\ WorkerOnly
    /\ UNCHANGED <<lock, gdi, channel, blocks, performed>>

\* The head of the loop, up to the second look at shouldStop.
TestLoop ==
    /\ worker = "loop"
    /\ worker' = IF conn.shouldStop THEN "disconnecting" ELSE "tested"
    /\ WorkerOnly
    /\ UNCHANGED <<conn, lock, gdi, channel, blocks, performed>>

\* freerdp_check_event_handles, under the lock.
CheckBegins ==
    /\ worker = "tested" /\ lock = "free"
    /\ worker' = "checking"
    /\ lock' = "worker"
    /\ WorkerOnly
    /\ UNCHANGED <<conn, gdi, channel, blocks, performed>>

\* The server changes the size, to one it has been asked for or another: first
\* gdi_resize frees the buffer.  It allocates a new one, or fails, in which case
\* nobody is notified, and FreeRDP resizes nothing any more.  A resize to the
\* present size changes nothing and its notice tells nothing new.
GdiResize ==
    /\ worker = "checking" /\ gdi.buffer \in 1 .. MaxResizes
    /\ \E size \in (Unasked \cup {asked}) \ {NoSize, gdi.size} :
          \/ /\ gdi' = [buffer |-> gdi.buffer + 1, size |-> size]
             /\ worker' = "resized"
          \/ /\ gdi' = [buffer |-> NULL, size |-> size]
             /\ UNCHANGED worker
    /\ WorkerOnly
    /\ UNCHANGED <<conn, lock, channel, blocks, performed>>

\* and the main thread is notified.
DesktopResize ==
    /\ worker = "resized"
    /\ worker' = "checking"
    /\ blocks' = Append(blocks, [kind |-> "resize", size |-> gdi.size])
    /\ WorkerOnly
    /\ UNCHANGED <<conn, lock, gdi, channel, performed>>

\* The display channel opens, brings its capabilities, and may close.
DispChannel ==
    /\ worker = "checking"
    /\ \E to \in {"open", "ready", "closed"} :
          /\ <<conn.disp, to>> \in {<<"none", "open">>, <<"open", "ready">>,
                                    <<"open", "closed">>, <<"ready", "closed">>}
          /\ conn' = [conn EXCEPT !.disp = to]
    /\ WorkerOnly
    /\ UNCHANGED <<worker, lock, gdi, channel, blocks, performed>>

CheckEnds ==
    /\ worker = "checking"
    /\ worker' \in {"loop", "disconnecting"}
    /\ lock' = "free"
    /\ WorkerOnly
    /\ UNCHANGED <<conn, gdi, channel, blocks, performed>>

\* freerdp_disconnect, without the lock: channels are disconnected, their
\* threads joined, and rdp_PostDisconnect frees the gdi.
Disconnect ==
    /\ worker = "disconnecting" /\ channel # "asks"
    /\ worker' = "disconnected"
    /\ channel' = "none"
    /\ conn' = [conn EXCEPT !.disp = "closed", !.cliprdr = "none"]
    /\ gdi' = [gdi EXCEPT !.buffer = NoGdi]
    /\ WorkerOnly
    /\ UNCHANGED <<lock, blocks, performed>>

Disconnected ==
    /\ worker = "disconnected"
    /\ worker' = "over"
    /\ conn' = [conn EXCEPT !.isConnected = FALSE]
    /\ performed' = TRUE
    /\ WorkerOnly
    /\ UNCHANGED <<lock, gdi, channel, blocks>>

WorkerStep ==
    BeginConnect \/ ConnectFails \/ PostConnect \/ Connected \/ TestLoop
    \/ CheckBegins \/ DesktopResize \/ CheckEnds \/ Disconnect \/ Disconnected

-----------------------------------------------------------------------------
(* The thread of the clipboard channel.                                    *)

MonitorReady ==
    /\ channel = "runs" /\ conn.cliprdr = "open"
    /\ conn' = [conn EXCEPT !.cliprdr = "ready"]
    /\ UNCHANGED <<main, worker, lock, gdi, channel, blocks, performed, window,
                   asked>>

\* clipboardData: the thread waits for its block (dispatch_sync).
ClipboardData ==
    /\ channel = "runs" /\ conn.cliprdr # "none"
    /\ channel' = "asks"
    /\ blocks' = Append(blocks, [kind |-> "clipboard"])
    /\ UNCHANGED <<conn, main, worker, lock, gdi, performed, window, asked>>

-----------------------------------------------------------------------------

Next ==
    \/ Start \/ SessionCloses \/ NotifyDisconnected \/ CloseEnds \/ MainBlock
    \/ Input \/ SendPasteboard \/ PerformDelayedDesktopSize \/ LockInput
    \/ Send \/ \E size \in Sizes : Choose(size)
    \/ BeginConnect \/ ConnectFails \/ PostConnect \/ Connected \/ TestLoop
    \/ CheckBegins \/ GdiResize \/ DesktopResize \/ DispChannel \/ CheckEnds
    \/ Disconnect \/ Disconnected
    \/ MonitorReady \/ ClipboardData

Spec == Init /\ [][Next]_vars

\* The worker goes on (freerdp_connect and every check of the handles end),
\* and the run loop of the main thread serves its queues between the events of
\* the user; what the server sends, and what the user does, need not happen.
Fairness ==
    /\ WF_vars(WorkerStep)
    /\ WF_vars(CloseEnds) /\ SF_vars(NotifyDisconnected) /\ SF_vars(MainBlock)
    /\ WF_vars(LockInput) /\ WF_vars(Send)

FairSpec == Spec /\ Fairness

-----------------------------------------------------------------------------
(* Properties.                                                             *)

\* The fields of RDPConnection and the states of the threads have their types.
TypeOK ==
    /\ conn \in Connection
    /\ main \in Main
    /\ worker \in Workers
    /\ lock \in {"free", "main", "worker"}
    /\ gdi \in [buffer : {NoGdi, NULL} \cup Buffers, size : Sizes]
    /\ channel \in {"none", "runs", "asks"}
    /\ blocks \in Seq(Blocks)
    /\ performed \in BOOLEAN
    /\ window \in [size : Sizes \cup {NoSize}, choices : 0 .. MaxChoices]
    /\ asked \in Sizes \cup {NoSize}

\* The client context lives as long as anything uses it: the worker, the thread
\* of the channel, and the main thread while it sends.
ContextOutlivesUse ==
    \/ worker \notin {"none", "over"} \/ channel # "none" \/ main.at = "sending"
    => conn.context

\* Of two that use the transport, one waits: the main thread sends nothing while
\* the worker checks its handles, and sends a layout on a channel that is still
\* open.  (Only while the worker disconnects, there is no such promise.)
SendsAreSynchronized ==
    main.at = "sending" =>
        /\ worker \notin {"checking", "resized"}
        /\ main.what = "layout" =>
              \/ conn.disp \in {"open", "ready"}
              \/ worker \in {"disconnected", "over"}

\* What the view draws from is what FreeRDP draws into, in buffer and size,
\* unless the notice of a resize or of the end is on its way, and after
\* closeConnection it is nothing.  After a resize that fails it is a buffer
\* that has been freed (RDPConnection.m:1251), and so it is while a notice is
\* on its way: in these cases nothing is said of what is drawn.
FrameBufferFollows ==
    conn.frameBuffer.buffer \notin {NULL, Own} =>
        /\ conn.session
        /\ \/ conn.frameBuffer = gdi
           \/ \E i \in 1 .. Len(blocks) : blocks[i].kind = "resize"
           \/ gdi.buffer = NULL
           \/ worker \in {"resized", "disconnected"}
           \/ worker = "over" /\ performed

\* closeConnection, which stops the main thread until the worker has ended,
\* returns, unless the thread of the clipboard waits for the main thread.
CloseReturns ==
    main.at = "closing" ~> (main.at # "closing" \/ channel = "asks")

\* However the worker ends, the session has closed the connection or learns of
\* the end and closes it.
EndIsTold == worker = "over" ~> ~conn.session

\* When the resizing of the window is over, and the server has done what it was
\* asked for, its desktop has the size of the window.
DesktopMatchesWindow ==
    (/\ conn.session /\ conn.disp = "ready" /\ worker = "loop"
     /\ Free /\ ~conn.delayed /\ blocks = <<>> /\ gdi.buffer # NULL
     /\ asked \in {NoSize, gdi.size})
        => window.size \in {NoSize, gdi.size}
=============================================================================
