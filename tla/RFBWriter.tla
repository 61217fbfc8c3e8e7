----------------------------- MODULE RFBWriter -----------------------------
(***************************************************************************)
(* The write side of RFBConnection: the 2 kB write buffer, the coalescing  *)
(* of mouse movements while a framebuffer update is being received, and    *)
(* the writes that bypass the buffer.                                      *)
(*                                                                         *)
(* Everything here runs on the main thread, so a call made by the code is  *)
(* one step.  What interleaves are the handlers of the run loop: an input  *)
(* event (which may submit several messages before it flushes), a mouse    *)
(* movement, the beginning and the end of a framebuffer update, a timer or *)
(* menu that requests an update, a settings change.                        *)
(*                                                                         *)
(* The socket and the buffer hold bytes.  A byte is written                *)
(* [msg |-> m, at |-> i]: the i-th byte of message m.                      *)
(***************************************************************************)
EXTENDS Integers, Sequences

CONSTANTS
    BUFFER_SIZE,   \* capacity of writeBuffer, in bytes
    MsgSize,       \* number of bytes of a message of each kind
    Positions,     \* pointer positions
    NoPos,         \* the initial value of lastMouseX, lastMouseY
    Masks,         \* sets of pressed mouse buttons, as sent in a pointer event
    NoButtons,     \* no button pressed
    MiddleMasks,   \* the masks that contain rfbButton2Mask
    KeyEvents,     \* a key or a modifier going down or up
    MaxStream      \* bound of the model: bytes submitted

Kinds == {"move", "click", "key", "request", "encodings", "desktopSize",
          "cutText", "bigCutText"}

ASSUME SizeAssumption ==
    /\ BUFFER_SIZE \in Nat
    /\ MsgSize \in [Kinds -> Nat \ {0}]
    /\ MsgSize["move"] = MsgSize["click"]
    /\ MsgSize["move"] <= BUFFER_SIZE
    /\ MsgSize["encodings"] > 1
    /\ MsgSize["desktopSize"] > 1
    /\ NoPos \notin Positions
    /\ NoButtons \in Masks
    /\ MiddleMasks \subseteq Masks
    /\ MaxStream \in Nat

Args == Masks \cup KeyEvents \cup {"none"}

Message == [kind : Kinds, pos : Positions \cup {NoPos}, arg : Args]

Byte == [msg : Message, at : Nat]

Size(m) == MsgSize[m.kind]

\* Bytes first to last of a message, as one write passes them.
Slice(m, first, last) ==
    [i \in 1 .. last - first + 1 |-> [msg |-> m, at |-> first + i - 1]]

Bytes(m) == Slice(m, 1, Size(m))

Pointer(k, p, mask) == [kind |-> k, pos |-> p, arg |-> mask]
Plain(k)            == [kind |-> k, pos |-> NoPos, arg |-> "none"]
Key(k)              == [kind |-> "key", pos |-> NoPos, arg |-> k]

VARIABLES
    out,                \* the write state: see Output
    isReceivingUpdate,
    lastMouse,          \* lastMouseX and lastMouseY
    buttons,            \* _pressedButtons of the event filter
    handler,            \* "input" while an input handler runs, else "idle"
    peerOpen            \* the socket still accepts bytes

vars == <<out, isReceivingUpdate, lastMouse, buttons, handler, peerOpen>>

\* buffer is writeBuffer[0 .. bufferLen-1]; moveLast is
\* lastBufferedIsMouseMovement; wire is every byte the socket has accepted;
\* terminated says that terminateConnection has been called.
Output == [buffer : Seq(Byte), moveLast : BOOLEAN, wire : Seq(Byte),
           terminated : BOOLEAN]
-----------------------------------------------------------------------------
(***************************************************************************)
(* The functions of RFBConnection that move bytes, on the write state.     *)
(***************************************************************************)

(* The operators whose names end in _Wrong are plausible mistakes in the   *)
(* definition that follows them.  They are not part of the model: each can *)
(* be put in the place of that definition to see a property catch it.      *)

\* A short write is not followed by another for the rest.
ReallyWriteBytes_Wrong(o, bytes) ==
    IF peerOpen THEN [o EXCEPT !.wire = @ \o SubSeq(bytes, 1, 1)]
                ELSE [o EXCEPT !.terminated = TRUE]

\* Loops until the socket has taken every byte; an error terminates.
ReallyWriteBytes(o, bytes) ==
    IF peerOpen THEN [o EXCEPT !.wire = @ \o bytes]
                ELSE [o EXCEPT !.terminated = TRUE]

\* lastBufferedIsMouseMovement is not reset.
WriteBuffer_Wrong(o) ==
    IF o.buffer = <<>>
    THEN o
    ELSE [ReallyWriteBytes(o, o.buffer) EXCEPT !.buffer = <<>>]

WriteBuffer(o) ==
    IF o.buffer = <<>>
    THEN o
    ELSE [ReallyWriteBytes(o, o.buffer) EXCEPT !.buffer = <<>>,
                                               !.moveLast = FALSE]

WriteBufferedBytes(o, bytes) ==
    LET room == IF Len(o.buffer) + Len(bytes) > BUFFER_SIZE
                THEN WriteBuffer(o) ELSE o
    IN  IF Len(bytes) > BUFFER_SIZE
        THEN ReallyWriteBytes(room, bytes)
        ELSE [room EXCEPT !.buffer = @ \o bytes, !.moveLast = FALSE]

\* Overtakes what is in the buffer.
WriteBytes_Wrong(o, bytes) == ReallyWriteBytes(o, bytes)

WriteBytes(o, bytes) ==
    IF o.buffer # <<>>
    THEN WriteBuffer(WriteBufferedBytes(o, bytes))
    ELSE ReallyWriteBytes(o, bytes)

\* bufferLen -= sizeof(msg)
DropLastMove(o) ==
    IF o.moveLast
    THEN [o EXCEPT !.buffer = SubSeq(@, 1, Len(@) - MsgSize["move"])]
    ELSE o
-----------------------------------------------------------------------------
Init ==
    /\ out = [buffer |-> <<>>, moveLast |-> FALSE, wire |-> <<>>,
              terminated |-> FALSE]
    /\ isReceivingUpdate = FALSE
    /\ lastMouse = NoPos
    /\ buttons = NoButtons
    /\ handler = "idle"
    /\ peerOpen = TRUE

\* Bounds the model: nothing new is submitted once MaxStream bytes have been.
Room == Len(out.wire) + Len(out.buffer) < MaxStream

MouseAt(p) ==
    /\ handler = "idle" /\ Room
    /\ p # lastMouse
    /\ LET bytes == Bytes(Pointer("move", p, buttons))
           rest  == DropLastMove(out)
       IN  out' = IF isReceivingUpdate
                  THEN [WriteBufferedBytes(rest, bytes) EXCEPT !.moveLast = TRUE]
                  ELSE [WriteBytes(rest, bytes) EXCEPT !.moveLast = FALSE]
    /\ lastMouse' = p
    /\ UNCHANGED <<isReceivingUpdate, buttons, handler, peerOpen>>

\* An event handler that submits key and button events starts: see
\* EventFilter, which calls writeBuffer as the last thing it does.
BeginInput ==
    /\ handler = "idle" /\ Room
    /\ handler' = "input"
    /\ UNCHANGED <<out, isReceivingUpdate, lastMouse, buttons, peerOpen>>

\* Forgets where the click was.
MouseClickedAt_Wrong(p, mask, paste) ==
    /\ handler = "input" /\ Room
    /\ mask # buttons
    /\ paste # "none" => mask \in MiddleMasks
    /\ LET before == IF paste = "none" THEN out
                     ELSE WriteBytes(out, Bytes(Plain(paste)))
       IN  out' = WriteBufferedBytes(before, Bytes(Pointer("click", p, mask)))
    /\ buttons' = mask
    /\ UNCHANGED <<isReceivingUpdate, lastMouse, handler, peerOpen>>

\* The pasteboard goes first when the middle button is among those pressed;
\* paste is the message that takes, or "none" if there is nothing to send.
MouseClickedAt(p, mask, paste) ==
    /\ handler = "input" /\ Room
    /\ mask # buttons
    /\ paste # "none" => mask \in MiddleMasks
    /\ LET before == IF paste = "none" THEN out
                     ELSE WriteBytes(out, Bytes(Plain(paste)))
       IN  out' = WriteBufferedBytes(before, Bytes(Pointer("click", p, mask)))
    /\ lastMouse' = p
    /\ buttons' = mask
    /\ UNCHANGED <<isReceivingUpdate, handler, peerOpen>>

SendKey(k) ==
    /\ handler = "input" /\ Room
    /\ out' = WriteBufferedBytes(out, Bytes(Key(k)))
    /\ UNCHANGED <<isReceivingUpdate, lastMouse, buttons, handler, peerOpen>>

EndInput ==
    /\ handler = "input"
    /\ out' = WriteBuffer(out)
    /\ handler' = "idle"
    /\ UNCHANGED <<isReceivingUpdate, lastMouse, buttons, peerOpen>>

\* A message of the server other than an update is answered, or a timer, a
\* menu or a window event asks for an update or sends the pasteboard.
SendNow(k) ==
    /\ handler = "idle" /\ Room
    /\ out' = WriteBytes(out, Bytes(Plain(k)))
    /\ UNCHANGED <<isReceivingUpdate, lastMouse, buttons, handler, peerOpen>>

\* Leaves the message in the buffer.
EncodingsChanged_Wrong ==
    /\ handler = "idle" /\ Room
    /\ out' = WriteBufferedBytes(out, Bytes(Plain("encodings")))
    /\ UNCHANGED <<isReceivingUpdate, lastMouse, buttons, handler, peerOpen>>

\* The header of the message and the list of encodings are buffered one by
\* one, then flushed.
EncodingsChanged ==
    /\ handler = "idle" /\ Room
    /\ LET m == Plain("encodings")
       IN  out' = WriteBuffer(WriteBufferedBytes(
                      WriteBufferedBytes(out, Slice(m, 1, 1)), Slice(m, 2, Size(m))))
    /\ UNCHANGED <<isReceivingUpdate, lastMouse, buttons, handler, peerOpen>>

\* The header and the screen layout are written one after the other.
WriteSetDesktopSize ==
    /\ handler = "idle" /\ Room
    /\ LET m == Plain("desktopSize")
       IN  out' = WriteBytes(WriteBytes(out, Slice(m, 1, 1)), Slice(m, 2, Size(m)))
    /\ UNCHANGED <<isReceivingUpdate, lastMouse, buttons, handler, peerOpen>>

FrameBufferUpdateBeginning ==
    /\ handler = "idle" /\ ~isReceivingUpdate /\ ~out.terminated /\ Room
    /\ isReceivingUpdate' = TRUE
    /\ UNCHANGED <<out, lastMouse, buttons, handler, peerOpen>>

\* Relies on the request to flush the movements buffered during the update.
FrameBufferUpdateComplete_Wrong ==
    /\ handler = "idle" /\ isReceivingUpdate /\ ~out.terminated
    /\ \E requested \in BOOLEAN :
          out' = IF requested THEN WriteBytes(out, Bytes(Plain("request"))) ELSE out
    /\ isReceivingUpdate' = FALSE
    /\ UNCHANGED <<lastMouse, buttons, handler, peerOpen>>

\* The next update is requested at once, or (manual updates, or a timer set
\* to request it later) not now.
FrameBufferUpdateComplete ==
    /\ handler = "idle" /\ isReceivingUpdate /\ ~out.terminated
    /\ \E requested \in BOOLEAN :
          out' = WriteBuffer(IF requested
                             THEN WriteBytes(out, Bytes(Plain("request")))
                             ELSE out)
    /\ isReceivingUpdate' = FALSE
    /\ UNCHANGED <<lastMouse, buttons, handler, peerOpen>>

FrameBufferUpdateCompleteWithResize ==
    /\ handler = "idle" /\ isReceivingUpdate /\ ~out.terminated
    /\ out' = WriteBytes(out, Bytes(Plain("request")))
    /\ isReceivingUpdate' = FALSE
    /\ UNCHANGED <<lastMouse, buttons, handler, peerOpen>>

PeerCloses ==
    /\ peerOpen
    /\ peerOpen' = FALSE
    /\ UNCHANGED <<out, isReceivingUpdate, lastMouse, buttons, handler>>

Next ==
    \/ \E p \in Positions : MouseAt(p)
    \/ BeginInput
    \/ \E p \in Positions, mask \in Masks, paste \in {"none", "cutText", "bigCutText"} :
          MouseClickedAt(p, mask, paste)
    \/ \E k \in KeyEvents : SendKey(k)
    \/ EndInput
    \/ \E k \in {"request", "cutText", "bigCutText"} : SendNow(k)
    \/ EncodingsChanged
    \/ WriteSetDesktopSize
    \/ FrameBufferUpdateBeginning
    \/ FrameBufferUpdateComplete
    \/ FrameBufferUpdateCompleteWithResize
    \/ PeerCloses

Spec == Init /\ [][Next]_vars

\* A handler that has started runs to its end, and a server that has begun an
\* update sends the rest of it.
FairSpec ==
    /\ Spec
    /\ WF_vars(EndInput)
    /\ WF_vars(FrameBufferUpdateComplete \/ FrameBufferUpdateCompleteWithResize)
-----------------------------------------------------------------------------
TypeOK ==
    /\ out \in Output
    /\ Len(out.buffer) <= BUFFER_SIZE
    /\ isReceivingUpdate \in BOOLEAN
    /\ lastMouse \in Positions \cup {NoPos}
    /\ buttons \in Masks
    /\ handler \in {"idle", "input"}
    /\ peerOpen \in BOOLEAN

\* Each byte of s lies inside a complete copy of the message it belongs to.
WellFramed(s) ==
    \A i \in 1 .. Len(s) :
        LET m     == s[i].msg
            start == i - s[i].at
        IN  /\ start \in 0 .. Len(s) - Size(m)
            /\ s[i].at \in 1 .. Size(m)
            /\ \A k \in 1 .. Size(m) : s[start + k] = [msg |-> m, at |-> k]

\* The server parses the byte stream message by message, so it must never
\* meet a torn or spliced one, whatever mixture of buffered writes, direct
\* writes, overflows and dropped movements (bufferLen -= sizeof(msg)) made
\* it; and the same holds of what is still in the buffer.
Framed == WellFramed(out.wire) /\ WellFramed(out.buffer)

\* lastBufferedIsMouseMovement is only set while the buffer does end with a
\* movement made with the buttons that are still held, so that dropping it
\* (mouseAt) removes that movement and loses no click, key or clipboard.
MoveLastIsMove ==
    out.moveLast =>
        /\ out.buffer # <<>>
        /\ LET m == out.buffer[Len(out.buffer)].msg
           IN  m.kind = "move" /\ m.arg = buttons /\ m.pos = lastMouse

\* Between two handlers the buffer holds at most one mouse movement, and
\* that only during an update, whose completion flushes it: no key or button
\* event waits for an unrelated later event to be sent.
NothingWaits ==
    handler = "idle" =>
        \/ out.buffer = <<>>
        \/ isReceivingUpdate /\ out.moveLast /\ Len(out.buffer) = MsgSize["move"]

\* Everything submitted so far, sent or not.
Stream == out.wire \o out.buffer

IsPointer(b) == b.msg.kind \in {"move", "click"}

\* The position and the buttons in the last pointer event given to the server
\* are the ones the client compares later events with: the duplicate test of
\* mouseAt never suppresses a movement the server does not know of.
PointerKnown ==
    ~out.terminated =>
        LET pointers == {i \in 1 .. Len(Stream) : IsPointer(Stream[i])}
        IN  IF pointers = {}
            THEN lastMouse = NoPos /\ buttons = NoButtons
            ELSE \E i \in pointers :
                    /\ \A j \in pointers : j <= i
                    /\ Stream[i].msg.pos = lastMouse
                    /\ Stream[i].msg.arg = buttons

\* What is buffered is eventually written, unless the peer goes away.
EventuallyWritten ==
    (out.buffer # <<>>) ~> (out.buffer = <<>> \/ ~peerOpen)

\* The messages of which s holds the last byte.
Messages(s) ==
    LET upTo[n \in 0 .. Len(s)] ==
            IF n = 0 THEN <<>>
            ELSE IF s[n].at = Size(s[n].msg) THEN Append(upTo[n - 1], s[n].msg)
            ELSE upTo[n - 1]
    IN  upTo[Len(s)]

\* The writer implements the promise of OutputStream: messages leave whole
\* and in order, and only an unsent movement is replaced, by another one made
\* with the same buttons held.
Promise == INSTANCE OutputStream WITH
    sent    <- Messages(out.wire),
    pending <- Messages(out.buffer),
    broken  <- out.terminated

ImplementsOutputStream == Promise!StreamSpec
=============================================================================
