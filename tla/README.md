# A verification project for Chicken

Chicken is a VNC (RFB) and RDP client for macOS, written in Objective-C. This
directory models its core in TLA+, checks the models with TLC on small
instances, and proves the central invariants with TLAPS for every value of the
constants. Paths are relative to the repository; files without a directory are
in `cotvnc/Source/`.

- [The system](#the-system): its parts, their state, what is hard about them
- [Modules](#modules): what models what, and how it corresponds to the code
- [Runs](#runs): what each checks, bounds, fairness
- [Findings](#findings)
- [Proofs](#proofs)
- [What is not modelled](#what-is-not-modelled), and [what is left](#what-is-left)

## The system

A session window is fed by one connection to a server. With an RFB server
everything runs on the main thread: the run loop calls `readData` when the
socket has bytes, event handlers when the user acts, and timers. So no handler
is interrupted, but the handlers come in any order, each may end the
connection by a write that fails, and each leaves state behind that the next
one finds. Threads appear in four places: connecting to a host
(`ConnectionWaiter`), waiting for data through a tunnel (`SshWaiter`), listening
(the notification centre's background reads), and RDP, whose library runs on a
worker thread and on threads of its channels.

| part | state | operations | talks to | hard about it |
|---|---|---|---|---|
| output stream (`RFBConnection.m`, write side) | `writeBuffer`, `bufferLen`, `lastBufferedIsMouseMovement`, `lastMouseX/Y`, `isReceivingUpdate` | `writeBytes`, `writeBufferedBytes`, `writeBuffer`, `mouseAt`, `mouseClickedAt`, keys, clipboard, encodings | socket; called by everything below | overflow, coalescing that takes bytes back, messages written in parts, failure of a write |
| handshake (`RFBHandshaker.m`, readers, `RFBConnection setReader/readData`) | the current reader, version, credentials, `vncAuthChallenge`, `waitingForArdCredentials`, `triedPassword` | one handler per message of the server, `gotPassword` | session (prompt, failure), server | both ends must agree for every version and security type; a prompt is answered late; a handler goes on after its write has ended the connection |
| event filter (`EventFilter.m`, `MyApp.m`) | pending events, pressed and queued modifiers, keys, buttons, emulation state, two timers | mouse, key and flag events, three emulation scenarios, paste, loss of focus | output stream, profile | events held back, replaced, lifted and synthesized; focus lost at any moment |
| updates (`RFBProtocol.m`, `FrameBufferUpdateReader.m`, `RFBConnection.m`) | current reader, rectangles left, resize, invalid rectangles, interval, timer | reading messages and rectangles, requests | server, window, preferences | each update asks for the next; a resize within an update; intervals changed at any moment |
| session (`Session.m`) | connection, password sheet, reconnection waiter and timer, tunnel | terminate, authentication failed, sheets, reconnect, window events | all of the above, manager | ends that come in any order with sheets and timers |
| connecting (`ConnectionWaiter.m`) | socket, delegate, lock | resolve, connect, wait for data, cancel, error | session or manager | a thread that blocks in `connect` and `poll` while the main thread cancels |
| SSH tunnel (`SshTunnel.m`, `SshWaiter.m`) | state (five), ports, FIFO, ssh process; sheets, timer | output lines of ssh, close, prompts, errors | connecting, session | process, output streams and socket report in any order |
| RDP (`RDPConnection.m`) | worker thread, instance, input lock, frame buffer, pending resize | connect, events, resize, close | session, FreeRDP | two threads that wait for each other; buffers replaced under the drawer |
| listener (`ListenerController.m`) | listening socket, accepted sockets, lingering timers | start, stop, accept, first data | manager | accepted sockets that say nothing; stop in between |
| manager (`RFBConnectionManager.m`) | list of sessions | open, remove, intervals, quit | sessions | sessions removed while iterated over |
| clipboard (`ServerCutTextReader.m`) | capabilities, pending formats | cut text, caps, notify, request, provide | output stream, pasteboard | capabilities and requests in any order |
| encodings (12 readers) | position within a rectangle | one reader per encoding | frame buffer | compact lengths, tiles, carried-over colours |
| frame buffers | pixels | fill, copy, put | view | clipping |
| servers, profiles, preferences, key equivalents | dictionaries | edit, save | all | little |

What makes each modelled part correct:

- **Output stream.** The server receives whole messages, in the order in which
  they were submitted; only a movement of the mouse that a later one
  supersedes is left out; nothing waits for an unrelated event.
- **Handshake.** What a handler reads next is what the server sends next, for
  every version and security type; the handshake ends; whatever ends it, the
  user sees something he can answer; nothing is done on behalf of a connection
  that is over.
- **Event filter.** When nothing is held down here, nothing is held down
  there; what is held back is sent or replaced in the end; a window that loses
  the keyboard leaves nothing behind.
- **Updates.** Automatic updates never stop by themselves; the reader ends each
  update exactly at its end; the window shows what the server has sent; the
  last change of the screen is shown.
- **Attempts to connect.** The delegate hears of one outcome at most, and of
  none after `cancel`; every socket ends up with the connection or is closed,
  by one of the two threads; an attempt comes to an outcome.
- **Session.** One that has lost its connection is always on its way to another
  one, to a question for the user, or to its end; the sheet "reconnecting" and
  its timer end with the attempt; the waiter never calls a session that is gone.
- **SSH tunnel.** ssh never waits for an answer nobody has been asked for; an
  attempt that fails takes ssh, its port and its fifo along.
- **RDP.** Memory of the library is used while it lives, by one thread at a
  time; the view draws from the library's present buffer; closing returns.
- **Rectangles.** The client takes exactly what a rectangle consists of, and its
  pixels become the server's.
- **Listener.** Every accepted connection belongs to the listener or to one
  session, and those that say nothing are closed.

The hazards, each with its line and the properties that watch it, are listed
in `PROJECT.json`.

## Modules

| module | models |
|---|---|
| `OutputStream` | what the write side promises (abstract) |
| `RFBWriter` | the write side of `RFBConnection`; implements `OutputStream` |
| `Handshake` | handshake, password sheet, end of a connection; an RFB server |
| `EventFilter` | events of mouse and keyboard up to the connection |
| `UpdateFlow` | requests for updates, reading of updates, windows and intervals; an RFB server |
| `FrameBuffer` | how rectangles, runs and copies are drawn into memory |
| `Rectangles` | the encodings Raw, CopyRect, RRE, Hextile, ZRLE; extends `FrameBuffer`; an RFB server |
| `ConnectionAttempt` | what an attempt promises its delegate (abstract) |
| `ConnectionWaiter` | the connecting thread and `cancel`; implements `ConnectionAttempt` |
| `SessionLife` | a session over several connections; composed with `ConnectionWaiter` |
| `SshWaiter` | the tunnel and its waiter; an ssh process |
| `RDPConnection` | worker, main thread and channel of an RDP connection; FreeRDP |
| `Listener` | the listener, its connections and timers; servers that connect |
| `...Proofs` | the theorems about a module; `SessionLifeProofs` has those about `ConnectionWaiter` and `Listener` too, `RectanglesProofs` those about `FrameBuffer` |
| `MC...` | the constants of the runs |

In every module an action is a whole handler of the run loop, or what a thread
does between two points where another may interfere. A handler runs to its
end before the next one, so what it calls are operators on a record of state,
composed in the order of the calls. A call that takes the state to another is
an operator `Op(c, ...)` named after the method. Definitions whose names end in
`_Wrong` (or `_Late`, `_Frees`, `_Miscounts`) are not used by the model: they are
plausible mistakes in the definition below them, and replacing that definition
by one of them makes a property fail, which shows that the property is not
true of anything one could write.

### RFBWriter

`out` holds the buffer, the flag `lastBufferedIsMouseMovement`, all bytes the
socket has accepted, and whether `terminateConnection` has been called. Bytes
are pairs of a message and an index, so that a torn or spliced message shows.
`reallyWriteBytes` loops until everything is written: one step, on a peer that
is open or has gone. An input handler of the event filter writes several key
and button messages and then flushes (`writeBuffer`): `BeginInput`,
`MouseClickedAt`/`SendKey`, `EndInput`. Messages written in two parts
(encodings: header and list, buffered; desktop size: two direct writes) are
modelled in two parts. `SendNow` stands for all requests and clipboard
messages, which are one call of `writeBytes`; the clipboard of the middle
button goes between a buffered prefix and the click, within one handler.

### Handshake

`conn.reader` is `currentReader`; each `Read...` action is `readData` giving a
complete message to that reader. The rest of `conn` are the fields of
`RFBConnection` and `RFBHandshaker`, and what `Session` keeps: whether it still
has the connection, whether its password sheet is visible, whether the user has
been told of the end (`handled`, which includes an automatic reconnection).
The server is written from what the handshaker expects: it announces a version,
offers or dictates a security type, judges, and may refuse with a reason or
close at any moment. A server that reads a message it does not expect at that
point is `confused`.

Choices worth knowing:

- `Write` on a socket that the server has closed calls `terminateConnection`
  and *returns to the handler*, which goes on: most of the interesting
  behaviours start here.
- `GotPassword`, called with the sheet still visible, may release the
  connection within its own call (use after free). The model goes on with the
  old contents, the most benign outcome.
- A new session (`~owner.reconnecting`) has its window off the screen, so no
  window event writes; on a reconnection the window is visible and its events
  may write at any point of the handshake, and confuse the server: the
  properties about the agreement of the two ends are about new sessions, those
  about the end of a connection about all.
- The server sends nothing while the client waits for its user.

### EventFilter

`f` is the state of the filter together with what it has made the server
believe (`f.server`) and the messages of the last handler (`f.out`). `phys` is
what is really held down; while the window is not the key window, `phys` may
change without an event, as on a Mac. Each scenario handler looks at the whole
queue (`Handle...`) and answers how many events to hold back;
`sendAnyValidEventsToServerNow` asks the handlers of buttons 2 and 3 in turn and
takes the longer delay. Timers are flags whose action may come at any time.
`late` marks a tap that took longer than the profile allows. A key types a
sequence of characters, none for a dead key, several for some; which ones
depends on the flags, on whether the key is composed, and on
`interpretModifiersLocally` (`locally`), so that what is released may differ
from what was pressed. The moving of the characters of the numeric pad
(`EventFilter.m:400`), a function of key and flags like the others, is left out.
`lost` is history: buttons that were let go while another one was emulated, and
that the server still takes for pressed. Key equivalents
come before the filter (`MyApp sendEvent:`); that `keyDown:` finds one too is
left out, since it looks with device-dependent bits which no entry has. Tablet
events are left out, and the locations of the mouse.

### UpdateFlow

`conn` holds the reader of the current message and what is left of that
message, the count of rectangles as the code counts it, the pending resize,
the frame buffer and what the view has drawn (versions of the screen), the
interval class (`none`, `some`, `manual`) and the timer. The server joins the
requests it has not answered, answers a full one at once and an incremental one
when its screen differs from what it has sent; it counts its rectangles or ends
with LastRect, ends an update with a change of size, and may send empty updates
or other messages. The header and contents of one rectangle are one step. Events
of a window before `start` are left to `Handshake`, which shows what they do.

### ConnectionWaiter and SessionLife

A step of the connecting thread is what it does under the lock, or one call of
the kernel. Descriptors are those of the whole process: `owner` says whose each
is, a closed one may be given to anybody, and `strayClose` remembers that one
was closed that was not the attempt's. `mainQueue` is what
`performSelectorOnMainThread` has queued. Where the source comments say that
the delegate is told once, that is `ConnectionAttempt`; `wanted`, `reporting`
and `told` are mapped to `delegate`, `alert` and `told`.

`SessionLife` extends that module: its session begins attempts (`Begin`),
cancels them, and hears of them (`Hears`). Who owns a session is modelled (the
manager's list, the timer, the blocks of its sheets), since the waiter does not
retain it: `Dealloc` comes before any other event of the main thread as soon as
nobody owns it. `freed` and `late` record what a call would have met. A timer
fires, an alert is answered, a sheet ends, a connection is lost or a password
rejected in any order.

### SshWaiter

One module for both classes, since they call each other in both directions:
handlers are operators on the record of waiter, tunnel and ssh. ssh writes lines
of five kinds (those the code tells apart): the prompts for a password, for the
key of a host and for a passphrase, a failure, and a refused channel. One read
may bring several of them, and looks at the state once. The two pipes, the
notice of ssh's end, the waiting thread and the timer come in any order.
A tunnel may be new, that of a session which reconnects, or not to be had: there
is no free port (`NoPort`), or its fifo cannot be made (`NoFifo`), by which time
the port is reserved.

### RDPConnection

`main.at` says whether the main thread is free, waits for `inputLock`, sends, or
waits in `closeConnection`; `worker` where the worker is between the calls that
matter. `blocks` are blocks dispatched to the main queue, `performed` what the
worker has queued last. Buffers are numbered as FreeRDP allocates them, so that
a view that draws from one that has been freed shows. The desktop is resized
to the size the client has asked for or to one of the server's own choosing
(`Unasked`), and `gdi_resize` may fail, after which there is no buffer (`NULL`)
and no notice; a resize to the same size is left out. A conditional that is read
without the lock and acted on under it is two steps.

### FrameBuffer and Rectangles

Memory is a function from addresses to colours, and every operation walks a
pointer through it with the strides of the code. The wire is a sequence of
numbers, so that a reader that takes one too many or too few takes the next for
something else. The server paints its own screen by definitions on points and
sends rectangles in every way the encoding allows, except that ZRLE data are no
larger than `maximumUncompressedSize` has room for (what `ZlibStreamReader` does
with more is between it and zlib); where the model stops being
about bits it is bytes: the indices of a palette are packed and the lengths of
runs are counted in bytes as the code does. The readers are those of the client,
one operator per method. The tile sides 16 and 64 (`HextileSide`, `ZRLESide`) and
the largest byte 255 (`Full`) are constants, as are the subrectangles a server
may send in a rectangle (`SubLists`). The module is written to be proved about:
a loop is `Walk`, a recursive function on the number of its steps; loops that end
when something is full take as many steps as could be needed and do nothing in
the rest (`UntilFull`); the runs of a tile are those between two places where the
colour changes (`RunEnds`, `RunLength`), and the bytes of the length of a run are
added up in one expression (`RunZRLE`).

### Listener

`fileHandles`, the timers and the status as in the class, and for each peer
where its socket is. `Accept` is the background accept, which may have happened
before the handler is told. The model includes that timers are not reset where
the code does not. `closeLingering:` leaves the observer of a handle it closes: a
notification that is late for it raises an exception at `fileDescriptor`, before
anything has been done, and is no step.

## Runs

| run | checks | size |
|---|---|---|
| `rfb_writer` | framing, coalescing, refinement of `OutputStream`, no waiting messages, nothing forgotten | a buffer of 6 bytes, messages of 2 to 7, 8 bytes submitted |
| `handshake` | the two ends agree, prompts and answers match, nothing after the end, every handshake ends, the user learns of it | all versions the client tells apart, offers that lead to each choice, sessions that connect, reconnect, or cannot reconnect |
| `event_filter` | nothing stays pressed, whatever is held back, replaced or synthesized; focus lost at any moment | five uses of the filter: taps (two keys, two modifiers, 24 pairs of scenarios), holding (a key, three flags with Fn, two profiles, view only, pasting), composed characters (a key, three flags with Caps Lock, two profiles), keys of two and no characters with and without `interpretModifiersLocally`, and three buttons (two profiles, no keys) |
| `updates` | the flow of updates with resizes, empty updates, LastRect, hidden windows, edited preferences, and that the last change is shown | two sizes, one change of the screen, one of the preferences |
| `sessions` | attempts against cancel, the session against its attempts, timers, sheets and user; refinement of `ConnectionAttempt`; owners of the listener's connections, and lingering ones | three attempts, two addresses, three descriptors, both protocols; three peers |
| `ssh` | prompts, errors and ends of ssh against the waiter | two prompts, two lines of failure |
| `rdp` | threads, buffers and queues of an RDP connection | two sizes, two choices of the user, two resizes, by the server too, any of which may fail |
| `rectangles` | five encodings from screen to pixels | a screen of 3 by 3 points, tiles of 2, two colours, palettes of 2, 3 and 5, one rectangle with up to two subrectangles, also in each tile |
| `stranded`, `ssh_left_running`, `rdp_window_size`, `event_filter_buttons` | a statement of the sources that the code contradicts | see [Findings](#findings) |

**Why the bounds are enough.** *RFBWriter*: 6 bytes hold two to three messages,
so that a message meets an empty buffer, one with room, one without, and is
larger than the buffer (`bigCutText`); `MaxStream` lets an overflow follow a
coalesced movement and be followed by more. The proofs remove the bounds.
*Handshake*: the state is bounded by the protocol, `MaxQueue` only bounds what
events of the window add. *EventFilter*: `MaxPending` lets a full sequence of
taps wait (twice a count of two) with one more event; a queue grows longer only
by repeated releases of a key. Emulation only starts from button 1, but ends with
the release of any button, so one use has all three of them, and no keys; the
others have one button. Taps are paired with each scenario of the other button,
with the same and with another modifier. *UpdateFlow*: a change of
the screen comes before, during or after an update; the queues of
messages are one request or update from events beyond what the protocol itself
has outstanding. *SessionLife*: a second address makes a failed socket and a
new one of the same number, three descriptors leave one to the rest of the
program, and three attempts let one begin from each way in which another ends;
the proofs remove these bounds. *SshWaiter*: a second prompt or line meets the
tunnel in the state the first has left it in; the states do not count. *RDP*: a
second choice meets the first delayed, sent or answered, and a second resize
(`MaxResizes`) the notice of the first; the proofs remove these bounds.
`rdp_window_size` needs no resizes of the server's own. *Rectangles*: 3 by 3
points with tiles of 2 have whole tiles and tiles cut in either direction, all
pairs of overlapping copies, lines of indices that are shorter and longer than a byte, runs that cross lines and lengths of more
than one byte (`Full` is 2); each encoding starts from pixels and screen that
are equal, so that one rectangle after another adds only the colours that
Hextile keeps, which within a rectangle pass from tile to tile. Of two
subrectangles the first is the whole rectangle or tile, so that the second lies
on top of another; the proofs remove these bounds. *Listener*: one
connection becomes a session, one lingers, one arrives between the two. The run
`sessions` takes the session and the listener one at a time: they share no
state, so that what holds of each of them when the other has not begun holds in
every interleaving.

**Deadlock.** All configurations say `CHECK_DEADLOCK FALSE`: a connection ends,
a bounded stream is used up, a window with nothing held and no event to come is
at rest. That nothing hangs is stated by properties instead (`HandshakeEnds`,
`NothingWaits`, `NeverStarved`, `TapsTimeOut`, `AttemptEnds`, `CloseReturns`,
`LingeringEnds`, `InStep`).

**Fairness.** `RFBWriter!FairSpec`: an input handler that has begun ends (it is
straight-line code), and a server that has begun an update sends its rest or
closes. `Handshake!FairSpec`: the run loop serves a readable socket, the server
does its part or closes, and the user answers or cancels a sheet that is up; no
fairness is assumed of events of the window or of the closing of the socket.
`UpdateFlow!FairSpec`: the run loop serves the socket and the timer that is
set, the server reads requests and answers those it can; nothing is assumed of
windows, preferences or the screen. `SessionSpec`: the connecting thread runs
(its poll has a timeout of 10 s, `connect` and `getaddrinfo` return), the main
thread serves its queue, its timers and its autorelease pool; the user answers
nothing. `SshWaiter!FairSpec`: pipes, notifications and timers are served, ssh
ends when it is terminated and does not try for ever, sheets are answered.
`RDPConnection!FairSpec`: the worker goes on, the main thread finishes what it
does and serves its queues between the user's events (strong fairness, since an
event of the user may keep it busy whenever it looks). `ListenerFairSpec`: the
closing timer fires and notifications are delivered; peers may say nothing for
ever.

## Findings

Each is a run that must end with a violation of one property, which states what
a comment of the repository says. Details and lines are in `PROJECT.json`.

1. `stranded`: a password entered after the server has closed the connection is
   used up; no connection, sheet, message or reconnection is left, although the
   log says "Will reconnect to server when password entered".
2. `ssh_left_running`: an error of ssh puts the tunnel into the state "in
   process of shutting down" without telling ssh to end, and `close`, which
   would, does nothing in that state. After a mistyped password ssh goes on
   asking, with its port, its fifo and the retain of the tunnel, for ever.
3. `rdp_window_size`: "send final size to server" is skipped when the final size
   is that of the desktop, although another size is on its way.
4. `event_filter_buttons`: the release of any button, not only of button 1, is
   mapped to that of the emulated button (`EventFilter.m:323`). With button 3
   held and button 1 emulating button 2, letting go of 3 releases 2; and 3 stays
   pressed at the server. `NoStuckButtons` says that this is the only way in which a
   button stays pressed.

Dangers that properties state the exact limits of:

- **RDP deadlock** (`CloseReturns`). `closeConnection` stops the main thread
  until the worker has ended; the worker's `freerdp_disconnect` joins the thread
  of the clipboard channel; and that thread may be in `clipboardData`, which
  waits for a block on the main thread (`RDPConnection.m:528`). If the server
  asks for the clipboard when the user closes the window, nothing moves any
  more. The property says that this is the only way in which closing does not
  return.
- **Silence of ssh** (`AttemptEnds` in `SshWaiter`). `sshTerminated` sets the
  state to closing before the end of the error stream, and says that "we wait
  to see if we get an explanation on sshErr before we tell the delegate"
  (`SshTunnel.m:473-475`); but in that state `readFromSsh` does not read (294).
  When the notice of the end comes first, the attempt says nothing until the
  user cancels it. The same holds when there is no free port or fifo
  (`SshTunnel.m:115-124`).
- **Taps without a time limit** (`TapsTimeOut`). Both handlers of taps share a
  timer, which that of button 3 stops before it looks (`EventFilter.m:819`). When
  taps of different modifiers emulate the two buttons, a tap for button 2 waits
  until the next event, although a tap is one "within the time limit"
  (`EventFilter.h:44`). The property says that all other taps time out.
- **A port that is kept** (`TunnelEnds`). `findPortForTunnel` reserves a port
  (`SshTunnel.m:260`); when `mkfifo` fails after that, the tunnel is given up
  without giving it back (121-124), and the port stays reserved as long as the
  program runs.
- **A freed frame buffer** (`FrameBufferFollows`). `gdi_resize` frees the buffer
  from which the view draws, before the main thread hears of the new one; until
  then it draws from freed memory. When `gdi_resize` fails
  (`RDPConnection.m:1251-1254`) no notice follows, and the view keeps the freed
  buffer until the session closes the connection.

Smaller observations, which the models show or which came up on the way, and no
run states:

- *Handshake*: on a reconnection the pasteboard may be sent before the version
  of the server has been read, since the guard (`RFBConnection.m:936`) looks at
  a handshaker that does not exist yet (`release-notes/2026.9.md:28`); after a
  rejected password of a connection that cannot be made again, the message and
  the password sheet both come up (`Session.m:350`); a handler whose write fails
  sets the next reader after `terminateConnection` has set none.
- *Event filter*: the modifiers to be restored after a paste are sampled before
  the events that wait, which may change them, are sent (`EventFilter.m:483`); the shifts
  around pasted capitals are never sent (500); emulated clicks and pasted
  strings go past the test for a session that is only viewed (847); the wheel
  ends a tap-and-click but not its cursor (`EventFilter.h:57`).
- *Updates*: the slider for other windows makes a hidden window update again.
- *Connecting*: for RDP the thread closes its socket and forgets it without the
  lock (`ConnectionWaiter.m:169-173`), so that `cancel` in between closes the
  number again; `NeverClosesOthers` is about RFB therefore. `serverClosed`
  leaves the socket to `cancel`, which `ServerDataViewController` does not call
  after a failure.
- *Session*: a session whose window was closed before the timer fired has the
  timer as its last owner, and is freed within `connectionSucceeded:` or
  `connectionPrepareForSheet` (`Session.m:935-963`): the exception in
  `NoLateCalls`. Force Reconnect is enabled under the password sheet and leaves
  that sheet behind. An RDP session that reconnects gets its new password only
  after its connection has been started (`Session.m:968-972`).
- *RDP*: an abort that comes before `freerdp_connect` has begun has no effect, so
  that closing waits for the whole connect; `isConnected` is still set during
  `freerdp_disconnect`, which runs without the lock.
- *Rectangles*: a Hextile tile whose list of subrectangles is empty needs a
  reader of no bytes, which `readData` takes for an error of the protocol
  (`RFBConnection.m:446`), although `rfbproto.h:484-485` allows any count: the
  connection ends (`InStep` says so). ZRLE does not check the indices of palette
  runs against the palette, nor count them as read (`ZRLEEncodingReader.m:155`).
- *Listener*: a lingering connection that says something after all gets a session
  without the profile; one that hangs up after the listener has stopped starts
  the timer that makes the panel say "Listening is on" three minutes later.

## Proofs

Each `...Proofs` module is about all values of the constants: any number of
buttons, keys, positions, sizes, descriptors, peers, attempts, of messages under
way and events waiting, every profile, every list of security types. The bounds
of the runs are guards of the specification, and no proof relies on them. The
assumptions are those named in the modules (`...Assumption`): types and
disjointness of constants, which every run evaluates. In each module the
invariant of the theorems is `IInv`, with one lemma per function that changes
state, following the calls of the code, and one step per action that composes
them.

**RFBWriterProofs** proves `TypeCorrect` (types, and the buffer never exceeds
`BUFFER_SIZE`), `FramedAlways` (whole messages on the wire and in the buffer),
`OnlyMovesAreDropped` (what `mouseAt` takes back is one movement made with the
buttons still held), `NothingWaitsAlways` (between handlers nothing is buffered
but one movement, during an update), `PointerAlwaysKnown` (what new events are
compared with is what the server was told last) and `Refinement` (the writer
implements `OutputStream`). `SizeAssumption` says that
sizes are positive, movements and clicks have the same size (they are the same
struct), a pointer message fits into the buffer, and messages written in two
parts have at least two bytes.

*The argument.* The conjunction of the first four is inductive, none of them is
alone: that bytes taken back leave whole messages (`Framed`) needs that they
are those of a movement at the end (`MoveLastIsMove`), that this survives a
write needs that a flush empties the buffer and clears the flag, and that a
message written in two parts is not separated needs that the buffer is empty or
holds one movement when the handler starts (`NothingWaits`), so that the first
part either fits or flushes. `PointerKnown` comes on top: as long as the
connection stands, every function that moves bytes only adds to the stream,
except `mouseAt`, and what that removes is a movement which the new one makes
up for.

The refinement maps a sequence of bytes to the messages whose last byte it holds
(`Messages`), a recursive function. That `Messages` of two sequences put
together is what it is of the one followed by what it is of the other is proved
by induction over a set of numbers (`InductionTo`, from the well-foundedness of
`<`), and so is that the recursive definition has a value at all. A handler then
`Submits`: the stream gets longer by some bytes until a write fails, and the
socket takes bytes only while the peer is there. That is `Extend`, `Break` or,
for a connection that has been terminated, whose peer has gone (`NoPeerLeft`),
`Discard`; a `mouseAt` that takes the buffered movement back finds nothing else
in the buffer, which makes it `CoalesceMove`.

**HandshakeProofs** proves types, `ServerIsUnderstood`, `ReaderIsRight`,
`SheetIsRight`, `IncomingIsTold` and `SilentAfterTheEnd`, for every version of
the server, offers of any length, and windows that write any number of messages.

*The argument.* That the server meets only what it expects is not inductive: it
depends on what is still under way in both directions. `Legible` says for every
reader what can be left of an answer of the server when this reader comes next
(`Remains`), to the end of that answer; `Agree` says for each phase of the
server where the client can be and what it can have written: the server has
answered and the client reads, or waits for its user (`Asked`), or has replied
and the server has not read it (`Replied`). Windows of a session that reconnects
write between all of these. They need no states of their own, since the first
message of a window that the server meets confuses it: `Next1(q, m)` is that `m`
comes next, unless such a message does. `Undisturbed` and `Visible` say that
new sessions have no such windows. For the end of a connection: a server that
has closed has nothing left to be read (`Severed`), a connection that its
session has released has no reader or nothing to read (`Released`), and the
session has told the user unless it can connect again (`Told`).

**EventFilterProofs** proves types, `NothingIsLeftBehind`, `NoModifierSticks`,
`NoKeySticks`, `NoButtonSticks` and `TapsAlwaysTimeOut`, for every profile,
keyboard, mouse, string that is pasted and length of the queue. None has a
hypothesis: what the code gets wrong is in the properties
themselves, as the buttons that are `lost` and the taps that are `Unheeded`.

*The argument.* The first three are about what has been sent, but the filter holds
events back, so the invariant is about `StillHeld`: what the server would have
pressed if all that waits were sent now. `Sound` says what a queue between two
handlers can hold: only modifiers and releases wait (`Quiet`), a modifier that
waits is a tap and not yet pressed (`Fresh`), no number of taps that makes a
click is complete (`NotFired`), and the server has been told what the filter has
pressed (`Mirrors`), of which a session that is only viewed presses nothing
(`ViewsOnly`). Whatever the scenarios are, `sendAnyValidEventsToServerNow` ends
in one of four ways (`SendAnyValidDoes`): all that waits is sent; it goes on
waiting as taps; taps are taken for a click or called off; or the last press is
replaced by that of another button. In each of them the events that vanish
are a tap with its release or a press and nothing else (`QueueDoes`): no release
vanishes without its press. So an event that is queued leaves held what was
held, and itself. `queueModifiers` compares seven masks one after another; after
`i` of them the difference of the old and new flags is half made up (`Partly`).
The invariant `Good` is then: the modifiers held are among those queued
(`Steady`), which are among those of the keyboard, and each key held is typed
by a key of the keyboard under its present flags (`Follows`); when the window
is not the key window nothing is held or waits (`Neutral`). `Follows` has a
clause for key equivalents, after which the filter holds no key until the next
one is pressed, because the release that `MyApp` takes for that of the
equivalent does not reach the filter. For the buttons it has `Clicks`: what is
held for the server of them, once all that waits is sent, is held here, emulated
or lost, and while one is emulated one is held here. What is lost is accounted
for with every step (`Accounted`): a release that is taken for the emulated
button's leaves its own button pressed, and a later press and release of that
button makes up for it. For the timers `Sound` has `Timed`: a queue that ends in
the release of a tap has a timer, unless the tap is `Unheeded`. It survives a
look at the queue by both handlers because what one of them leaves to wait is
not what the other calls its taps, unless both wait for the same modifier, and
then for the same number of events (`Rests`); of the taps that are `Unheeded`,
which lose their timer to the look for those of button 3, it says nothing.

The loops of the filter are recursive functions on the numbers of a queue
(`Sent`, `compared`, `typed`). What they compute is shown by an induction in
the form of a set of numbers that has 0 and, with each number, the next one
(`InductionTo`), and from `WellFoundedInduction`, that such a function exists.

**UpdateFlowProofs** proves types, `NeverStarvedAlways` and `WindowAlwaysShows`.
The first is inductive with `Counting`: rectangles are read only while the count
says that one is left. Every handler that leaves the reader between two messages
has made a request or set the timer (`Fed`), which is shown once for each
function and passed up. The other says something only when nothing is under
way; its invariant (`InStep`) says what the window will show once everything
under way has been read. No replay of the queue is needed: the size is that
of the last change of size, the contents are those of the last rectangle drawn.
The contents count only while no change of size is to be read and no full
update has been asked for, since the one ends in the other, and the answer
brings the contents anew. The headers and rectangles under way belong together
(`Shaped`), so that the count ends where the rectangles do. The
assumption says that no size is the one the code takes for "no resize".

**SessionLifeProofs**, in its first part, is about `ConnectionWaiter` alone, and
proves types, `SocketsReturned`, `NeverClosesOthers`
and the refinement of `ConnectionAttempt`. The invariant says, for each step of
the thread, who owns the socket it holds and whether it is also `cancel`'s:
published and wanted, it is both's; once `cancel` has been, it is nobody's
responsibility of the thread any more. For RDP, where the thread does not take
the lock, only the weaker half holds. The second part bounds what may be under
way: at most one message or alert, and only of a thread that is over, from which
"one outcome at most" and "an error before a failure" follow. The refinement is
then one lemma per action: each maps to a step of the attempt or a stutter.

It then shows that every behaviour of the composition is one of
`ConnectionWaiter` (`SessionWaits`), so that the three results hold of a session
that reconnects, and `NeverCallsTheDead`: a session with an attempt under way
has the attempt's waiter, and gives it up only with `cancel`. That needs the
invariant that a session on its way to another connection has its waiter and
lives, through every method that calls another (`Heard`). Its last part proves
`NeverAbandoned`, `WaitsOnlyForAttempts` and `NoLateCalls` from a second
invariant, `Orderly`: a session either waits for an attempt or rests, and for
each of the two it says which of the sheets, the timer, the place in the list
and the connection go together. The sheets of the window come in five ways only
(`Queues`), of which two sheets at once need a server that cannot reconnect; an
error of the attempt is on the screen only after the sheet and the timer are
gone, which is why the failure that follows it may drop the session from the
list. Each event is a lemma that says where it leads: it begins an attempt
(`BeginsTo`), leaves the session resting (`RestsAs`) or waiting (`WaitsAs`); the
waiter's calls end the wait (`WaiterSays`, `WaitIsOverIs`).

**SshWaiterProofs** proves types, `PromptIsAsked` and `SilentAfterCancel`, for
every number of prompts and of lines of ssh (`MaxPrompts`, `MaxLines`, which the
assumption takes to be natural numbers). The invariant adds to types and
`PromptIsAsked` what both rest on, `Heeded`: while the tunnel acts on what ssh
says, its delegate is the waiter, which has that tunnel and has not been
cancelled. A tunnel that is closing may keep the waiter as its delegate through
`cancel`, and says nothing any more. Since waiter and tunnel call each other, the
lemmas are about the operators on their common record: each says that the record
it returns `Follows` its argument, that is, keeps the invariant and is silent
when the waiter was. A read that brings several lines is `ProcessLines`, and that
it follows is an induction over how many of them have been processed
(`LinesKeep`). An action is then one use of these lemmas.

**RDPConnectionProofs** proves types, `ContextOutlivesUse`,
`SendsAreSynchronized` and `FrameBufferFollows`. The invariant couples the place
of each thread with the fields it may rely on: a worker that runs has a context;
the lock is held exactly by whom the states say; when the view has a buffer of
the library and no notice is queued, it is the present one, since both are set
by steps that queue one, unless the last resize has failed.

The last part of `SessionLifeProofs` is about `Listener`, the other source of sessions,
and proves types, `OneOwner` and `TimerForLingering`, the safety part of
`LingeringEnds`: a stopped listener with connections has its timer running.

**RectanglesProofs** proves `ShowsScreen` and `InStep` for screens and rectangles of
any size, any sides of tiles (Hextile's up to 16, which is what four bits hold),
any palettes of 2 to 127 colours, any lists of subrectangles that lie in their
rectangle or tile, and any number of rectangles in the five encodings.
`RectanglesAssumption` says that, and that what the server sends lies on its
screen.

*The argument.* The invariant `Keeps` has three cases: the connection has ended
after a tile with an empty list of subrectangles; the client has read such a tile
and waits for nothing (`Starved`); or it will wait again, with the server's
screen in its frame buffer, once it has read all that is on the wire (`After4`: at
most four readers take part in a rectangle or a tile of it). To wait again means
for the header of a rectangle when the server has nothing left to send, and
otherwise for the next tile, which is then the one the server sends next, with
the colours the server takes for known (`ForRectangle`, `ForTile`). The server
sends only on an empty wire, so that a reading client comes one reader closer to
that, and a sending server is where the work is: each encoding must be shown to
come out again, whatever is sent. The second invariant, `ServerInv`, says that
what is on the wire are numbers and that tiles still to be sent are no larger
than 16.

1. *Drawing.* A walk of a pointer that never meets an address twice leaves at each
   what was drawn there last, and nothing else changes (`Draws`, `Drawn`); since
   `Place` and `PixelOf` are inverse to each other, fills and puts do to memory
   what the server does to its screen. A copy that starts at the right corner
   (`Turned`) never reads what it has overwritten. A run of a tile is a put of a
   part of its pixels (`Run`).
2. *Sequences.* `FlattenSeq` is a recursive definition of the community modules;
   that it has a value at all, where each item of it begins (`Offsets`) and that
   it is the only sequence with these items there (`Flat`) is shown by induction.
   Induction is in the form of a set of numbers that has 0 and with each number the
   next one (`InductionTo`), from the well-foundedness of `<`, since the
   library's theorems on induction take an operator.
3. *Tiles.* Those of the server, numbered, and those of the client, which moves
   from one to its neighbour or to the next line, are the same (`Tiles`, `NextAt`),
   and each lies in the rectangle.
4. *Hextile.* A mask that is the sum of flags gives them back (`Mask`, `HasBits`);
   the header of a tile has the fields which the mask announces, in their order
   (`TileHead`, `HeadRead`); the two bytes of a subrectangle give back its place
   and size.
5. *ZRLE.* Indices that are packed into a byte are what shifting it gives back
   (`Packs`, `Field`), line by line; the bytes of a length add up to it. Runs:
   before each step of the loop either all runs so far have been drawn and the
   next one begins where the reader is, or the tile is full (`InRuns`). Tiles
   decode to their part of the pixels however they were written (`ItemDecodes`),
   after `k` of them the first `k` tiles are on the screen (`Mosaic`, `AtItem`),
   and all of them are the rectangle.

*Only model-checked.* Every invariant, every action property and both refinements
of the passing runs are proved. What stays with TLC is liveness, since the prover
has no rules for `ENABLED`: `EventuallyWritten`, `HandshakeEnds`, `EndIsTold`,
`LastChangeIsShown`, `AttemptEnds`, `TunnelEnds`, `CloseReturns` and
`LingeringEnds`.

## What is not modelled

- The bytes of a message: readers that have received a part of their message
  change nothing but themselves, so a message arrives whole. Protocol errors of
  a server that lies about its own protocol end the connection in the code
  (`readerFailed`) and are left out; a result of the authentication that the
  client does not know is not.
- Unknown types of messages, which end the connection as well.
- Formats of pixels and colour maps, the encodings Tight, Zlib and ZlibHex (the
  latter two are Raw and Hextile behind zlib), cryptography, the key chain.
- The contents of the extended clipboard. Its messages are whole writes of
  `RFBWriter`; what they say depends on the pasteboard.
- Opening files and windows, panels and menus, except where they call into the
  parts above.
- A socket that takes only a part of a message: the write loops on the main
  thread (`RFBConnection.m:1032`) until the server reads.

`PROJECT.json` lists every part with what is missing from it.

## What is left

In this order:

1. The capabilities, requests and answers of the extended clipboard, against a
   server that has or has not the same formats.
2. The stream of Tight: its compact lengths, filters and the four zlib streams a
   server may reset.
3. Opening and quitting in the connection manager, with the sessions and
   attempts that are under way.
4. The SSH waiter as the attempts of `SessionLife`, for sessions that reconnect
   through a tunnel.
