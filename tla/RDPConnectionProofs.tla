------------------------ MODULE RDPConnectionProofs ------------------------
(***************************************************************************)
(* Proofs about RDPConnection, for all sizes and any number of them: the   *)
(* context outlives its uses, two threads never use the transport at once, *)
(* and the view follows the frame buffer of FreeRDP.                       *)
(***************************************************************************)
EXTENDS RDPConnection, SequenceTheorems, TLAPS

\* The worker has the context, and is connected.
Started == worker \notin {"none", "over"}
InLoop == worker \in {"loop", "tested", "checking", "resized", "disconnecting"}

\* What is there only for a part of the life of the worker.
Lives ==
    /\ Started => conn.context
    /\ channel # "none" \/ conn.cliprdr # "none" => InLoop \/ worker = "connected"
    /\ conn.isConnected => InLoop \/ worker = "disconnected"
    /\ conn.disp \in {"open", "ready"} => InLoop
    /\ gdi.buffer = NoGdi <=> ~InLoop /\ worker # "connected"

\* Who holds the lock.
Locks ==
    /\ main.at = "sending" <=> lock = "main"
    /\ worker \in {"checking", "resized"} <=> lock = "worker"

\* What the main thread sends, and that it sends it with a context.
Sends ==
    main.at = "sending" =>
        /\ conn.context
        /\ main.what = "layout" =>
              conn.disp \in {"open", "ready"} \/ worker \in {"disconnected", "over"}

\* The thread of the channel waits for the one block of its own.
Asks ==
    /\ \A i, j \in 1 .. Len(blocks) :
          blocks[i].kind = "clipboard" /\ blocks[j].kind = "clipboard" => i = j
    /\ \A i \in 1 .. Len(blocks) : blocks[i].kind = "clipboard" => channel = "asks"

\* The session, its view and the context go together, until the session has
\* been told of the end.
Views ==
    /\ main.at # "closing" /\ conn.context => conn.session
    /\ conn.session => conn.context /\ main.at # "closing"
    /\ worker = "over" /\ conn.session => performed
    /\ worker = "none" => ~conn.session
    /\ conn.frameBuffer.buffer \notin {NULL, Own} =>
          conn.session /\ worker \notin {"none", "starting", "connecting"}

\* The last notice of a resize has the size of the frame buffer.
Resizes ==
    /\ worker \in {"none", "starting", "connecting"} => blocks = <<>>
    /\ \A i \in 1 .. Len(blocks) :
          /\ blocks[i].kind = "resize"
          /\ \A j \in i + 1 .. Len(blocks) : blocks[j].kind # "resize"
          => blocks[i].size = gdi.size \/ worker = "resized"
             \/ gdi.buffer \in {NULL, NoGdi}

IInv == /\ TypeOK /\ Lives /\ Locks /\ Sends /\ Asks /\ Views /\ Resizes
        /\ FrameBufferFollows

-----------------------------------------------------------------------------

LEMMA InitInv == Init => IInv
<1>. SUFFICES ASSUME Init PROVE IInv
  OBVIOUS
<1>1. TypeOK
  <2>1. conn \in Connection
    <3>1. PICK size \in Sizes :
             conn = [session |-> FALSE, context |-> FALSE, workerThread |-> FALSE,
                     isConnected |-> FALSE, shouldStop |-> FALSE,
                     disp |-> "none", cliprdr |-> "none",
                     frameBuffer |-> [buffer |-> Own, size |-> size],
                     currentDesktopSize |-> size, pendingDesktopSize |-> size,
                     delayed |-> FALSE]
      BY DEF Init
    <3>. QED BY <3>1 DEF Connection
  <2>2. main \in Main /\ worker \in Workers
    BY DEF Init, Main, Workers
  <2>3. gdi \in [buffer : {NoGdi, NULL} \cup Buffers, size : Sizes]
    BY DEF Init
  <2>4. window \in [size : Sizes \cup {NoSize}, choices : 0 .. MaxChoices]
    BY RDPConnectionAssumption DEF Init
  <2>5. blocks \in Seq(Blocks)
    BY DEF Init
  <2>. QED BY <2>1, <2>2, <2>3, <2>4, <2>5 DEF Init, TypeOK
<1>2. Lives /\ Locks /\ Sends /\ Asks /\ Views /\ Resizes
  BY DEF Init, Lives, Started, InLoop, Locks, Sends, Asks, Views, Resizes, NULL, Own
<1>3. FrameBufferFollows
  BY DEF Init, FrameBufferFollows, NULL, Own
<1>. QED
  BY <1>1, <1>2, <1>3 DEF IInv

\* What closeConnection does before its wait.
LEMMA CloseLemma ==
    ASSUME IInv, CloseConnection
    PROVE  /\ conn' \in Connection /\ main' \in Main
           /\ ~conn'.session /\ conn'.frameBuffer.buffer = NULL
           /\ conn'.context = conn.context /\ conn'.isConnected = conn.isConnected
           /\ conn'.cliprdr # "none" => conn.cliprdr # "none"
           /\ conn'.disp \in {"open", "ready"} => conn.disp \in {"open", "ready"}
           /\ main'.at = "closing"
<1>1. conn \in Connection /\ main \in Main
  BY DEF IInv, TypeOK
<1>. DEFINE disp == IF conn.disp = "ready" THEN "open" ELSE conn.disp
            cliprdr == IF conn.cliprdr = "ready" THEN "open" ELSE conn.cliprdr
<1>2. disp \in {"none", "open", "ready", "closed"} /\ cliprdr \in {"none", "open", "ready"}
  BY <1>1 DEF Connection
<1>3. /\ cliprdr # "none" => conn.cliprdr # "none"
      /\ disp \in {"open", "ready"} => conn.disp \in {"open", "ready"}
  OBVIOUS
<1>4. conn' = [conn EXCEPT !.session = FALSE, !.delayed = FALSE, !.shouldStop = TRUE,
                           !.disp = disp, !.cliprdr = cliprdr,
                           !.frameBuffer.buffer = NULL]
  BY <1>1 DEF CloseConnection, Connection
<1>. HIDE DEF disp, cliprdr
<1>5. conn' \in Connection /\ conn'.disp = disp /\ conn'.cliprdr = cliprdr
  <2>. DEFINE fb == [conn.frameBuffer EXCEPT !.buffer = NULL]
  <2>1. fb \in [buffer : {NULL, Own} \cup Buffers, size : Sizes]
    BY <1>1 DEF Connection
  <2>2. conn' = [conn EXCEPT !.session = FALSE, !.delayed = FALSE, !.shouldStop = TRUE,
                             !.disp = disp, !.cliprdr = cliprdr, !.frameBuffer = fb]
    BY <1>1, <1>4 DEF Connection
  <2>. HIDE DEF fb
  <2>. QED BY <1>1, <1>2, <2>1, <2>2 DEF Connection
<1>6. /\ ~conn'.session /\ conn'.frameBuffer.buffer = NULL
      /\ conn'.context = conn.context /\ conn'.isConnected = conn.isConnected
  BY <1>1, <1>4 DEF Connection
<1>7. main' \in Main /\ main'.at = "closing"
  BY <1>1 DEF CloseConnection, Main
<1>. QED
  BY <1>3, <1>5, <1>6, <1>7

\* A step that closes the connection, and may take the notice of the end.
LEMMA ClosingInv ==
    ASSUME IInv, CloseConnection, main.at = "free",
           performed' = performed \/ performed' = FALSE,
           UNCHANGED <<worker, lock, gdi, channel, blocks, window, asked>>
    PROVE  IInv'
<1>1. /\ conn' \in Connection /\ main' \in Main
      /\ ~conn'.session /\ conn'.frameBuffer.buffer = NULL
      /\ conn'.context = conn.context /\ conn'.isConnected = conn.isConnected
      /\ conn'.cliprdr # "none" => conn.cliprdr # "none"
      /\ conn'.disp \in {"open", "ready"} => conn.disp \in {"open", "ready"}
      /\ main'.at = "closing"
  BY CloseLemma
<1>. USE DEF IInv
<1>2. TypeOK'
  BY <1>1 DEF TypeOK
<1>3. Lives'
  BY <1>1 DEF Lives, Started, InLoop
<1>4. Locks' /\ Sends'
  BY <1>1 DEF Locks, Sends
<1>5. Asks' /\ Resizes'
  BY DEF Asks, Resizes
<1>6. Views' /\ FrameBufferFollows'
  BY <1>1 DEF Views, FrameBufferFollows
<1>. QED BY <1>2, <1>3, <1>4, <1>5, <1>6

LEMMA StartInv == IInv /\ Start => IInv'
<1>. SUFFICES ASSUME IInv, Start PROVE IInv'
  OBVIOUS
<1>1. CASE /\ conn' = [conn EXCEPT !.session = TRUE, !.context = TRUE,
                                   !.workerThread = TRUE]
           /\ worker' = "starting"
           /\ UNCHANGED main
  <2>. USE <1>1 DEF Start, Free, IInv, TypeOK
  <2>1. conn' \in Connection /\ worker' \in Workers
    BY DEF Connection, Workers
  <2>2. /\ conn'.session /\ conn'.context
        /\ UNCHANGED <<conn.disp, conn.cliprdr, conn.isConnected, conn.frameBuffer>>
    BY DEF Connection
  <2>3. TypeOK'
    BY <2>1
  <2>4. Lives'
    BY <2>2 DEF Lives, Started, InLoop
  <2>5. Locks' /\ Sends'
    BY <2>2 DEF Locks, Sends
  <2>6. Asks' /\ Resizes'
    BY DEF Asks, Resizes
  <2>7. Views' /\ FrameBufferFollows'
    BY <2>2 DEF Views, FrameBufferFollows
  <2>. QED BY <2>3, <2>4, <2>5, <2>6, <2>7
<1>2. CASE CloseConnection /\ UNCHANGED worker
  BY <1>2, ClosingInv DEF Start, Free
<1>. QED BY <1>1, <1>2 DEF Start

LEMMA SessionClosesInv == IInv /\ SessionCloses => IInv'
BY ClosingInv DEF SessionCloses, Free

LEMMA NotifyDisconnectedInv == IInv /\ NotifyDisconnected => IInv'
<1>. SUFFICES ASSUME IInv, NotifyDisconnected PROVE IInv'
  OBVIOUS
<1>1. CASE conn.session
  BY <1>1, ClosingInv DEF NotifyDisconnected, Free
<1>2. CASE ~conn.session
  BY <1>2 DEF NotifyDisconnected, Free, IInv, TypeOK, Lives, Started, InLoop, Locks,
              Sends, Asks, Views, Resizes, FrameBufferFollows
<1>. QED BY <1>1, <1>2

LEMMA CloseEndsInv == IInv /\ CloseEnds => IInv'
<1>. SUFFICES ASSUME IInv, CloseEnds PROVE IInv'
  OBVIOUS
<1>. USE RDPConnectionAssumption DEF IInv, TypeOK, CloseEnds
<1>1. TypeOK'
  <2>1. conn' \in Connection
    BY DEF Connection
  <2>2. main' \in Main /\ worker' \in Workers
    BY DEF Main, Workers
  <2>3. gdi' \in [buffer : {NoGdi, NULL} \cup Buffers, size : Sizes]
    OBVIOUS
  <2>. QED BY <2>1, <2>2, <2>3
<1>2. Lives'
  BY DEF Lives, Started, InLoop, Locks, Connection, Main, Workers, NULL, NoGdi
<1>3. Locks' /\ Sends'
  BY DEF Locks, Sends, Lives, Started, InLoop, Views, Connection, Main, Workers
<1>4. Asks'
  BY DEF Asks, Lives, Blocks
<1>5. Views'
  BY DEF Views, Lives, Started, InLoop, Connection, Main, Workers, NULL, Own
<1>6. Resizes'
  BY DEF Resizes, Lives, InLoop, Blocks
<1>7. FrameBufferFollows'
  BY DEF FrameBufferFollows, Views, Lives, Started, InLoop, Resizes, Connection, NULL, Own
<1>. QED
  BY <1>1, <1>2, <1>3, <1>4, <1>5, <1>6, <1>7

\* A notice less at the head of the queue.
LEMMA TailLemma ==
    ASSUME TypeOK, blocks # <<>>, blocks' = Tail(blocks)
    PROVE  /\ blocks' \in Seq(Blocks) /\ Head(blocks) = blocks[1]
           /\ Len(blocks') = Len(blocks) - 1 /\ Len(blocks) \in Nat \ {0}
           /\ \A i \in 1 .. Len(blocks') : blocks'[i] = blocks[i + 1]
           /\ Head(blocks) \in Blocks
BY DEF TypeOK

LEMMA MainBlockInv == IInv /\ MainBlock => IInv'
<1>. SUFFICES ASSUME IInv, MainBlock PROVE IInv'
  OBVIOUS
<1>. DEFINE b == Head(blocks)
<1>1. TypeOK /\ Lives /\ Locks /\ Sends /\ Asks /\ Views /\ Resizes /\ FrameBufferFollows
  BY DEF IInv
<1>2. /\ main.at = "free" /\ blocks # <<>> /\ blocks' = Tail(blocks)
      /\ UNCHANGED <<main, worker, lock, gdi, performed, window, asked>>
      /\ conn' = CASE b.kind = "connected" -> NotifyConnected
                   [] b.kind = "resize" -> NotifyDesktopResize(b.size)
                   [] b.kind = "clipboard" -> conn
      /\ channel' = IF b.kind = "clipboard" THEN "runs" ELSE channel
  BY DEF MainBlock, Free
<1>3. /\ blocks' \in Seq(Blocks) /\ b = blocks[1] /\ b \in Blocks
      /\ Len(blocks') = Len(blocks) - 1 /\ Len(blocks) \in Nat \ {0}
      /\ \A i \in 1 .. Len(blocks') : blocks'[i] = blocks[i + 1]
  BY <1>1, <1>2, TailLemma
<1>4. conn \in Connection /\ gdi \in [buffer : {NoGdi, NULL} \cup Buffers, size : Sizes]
  BY <1>1 DEF TypeOK
<1>. HIDE DEF b
<1>5. b.kind \in {"connected", "clipboard", "resize"} /\ (b.kind = "resize" => b.size \in Sizes)
  BY <1>3 DEF Blocks
<1>6. /\ conn' \in Connection
      /\ UNCHANGED <<conn.session, conn.context, conn.isConnected, conn.disp, conn.cliprdr>>
      /\ b.kind = "connected" => conn'.frameBuffer = IF HasGdi THEN gdi ELSE conn.frameBuffer
      /\ b.kind = "clipboard" => conn'.frameBuffer = conn.frameBuffer
      /\ b.kind = "resize" =>
            conn'.frameBuffer = [buffer |-> IF HasGdi THEN gdi.buffer
                                            ELSE conn.frameBuffer.buffer,
                                 size |-> b.size]
  <2>1. CASE b.kind = "connected"
    <3>1. conn' = NotifyConnected
      BY <1>2, <2>1
    <3>2. CASE HasGdi
      <4>1. conn' = [conn EXCEPT !.currentDesktopSize = gdi.size, !.frameBuffer = gdi]
        BY <3>1, <3>2 DEF NotifyConnected
      <4>2. gdi \in [buffer : {NULL, Own} \cup Buffers, size : Sizes]
        BY <1>4, <3>2 DEF HasGdi
      <4>. QED BY <1>4, <2>1, <3>2, <4>1, <4>2 DEF Connection
    <3>3. CASE ~HasGdi
      <4>1. conn' = conn
        BY <3>1, <3>3 DEF NotifyConnected
      <4>. QED BY <1>4, <2>1, <3>3, <4>1
    <3>. QED BY <3>2, <3>3
  <2>2. CASE b.kind = "clipboard"
    <3>1. conn' = conn
      BY <1>2, <2>2
    <3>. QED BY <1>4, <2>2, <3>1
  <2>3. CASE b.kind = "resize"
    <3>. DEFINE fb == [buffer |-> IF HasGdi THEN gdi.buffer ELSE conn.frameBuffer.buffer,
                       size |-> b.size]
    <3>1. conn' = NotifyDesktopResize(b.size)
      BY <1>2, <2>3
    <3>2. conn' = [conn EXCEPT !.currentDesktopSize = b.size, !.frameBuffer = fb]
      BY <1>4, <3>1 DEF NotifyDesktopResize, Connection
    <3>3. fb \in [buffer : {NULL, Own} \cup Buffers, size : Sizes] /\ b.size \in Sizes
      <4>1. HasGdi => gdi.buffer \in {NULL} \cup Buffers
        BY <1>4 DEF HasGdi
      <4>. QED BY <1>4, <1>5, <2>3, <4>1 DEF Connection
    <3>. HIDE DEF fb
    <3>4. /\ conn' \in Connection /\ conn'.frameBuffer = fb
          /\ UNCHANGED <<conn.session, conn.context, conn.isConnected, conn.disp, conn.cliprdr>>
      BY <1>4, <3>2, <3>3 DEF Connection
    <3>. QED BY <2>3, <3>4 DEF fb
  <2>. QED BY <1>5, <2>1, <2>2, <2>3
<1>7. conn'.frameBuffer.buffer = IF HasGdi /\ b.kind # "clipboard" THEN gdi.buffer
                                 ELSE conn.frameBuffer.buffer
  BY <1>5, <1>6
<1>8. b.kind = "clipboard" => channel = "asks"
  BY <1>1, <1>3 DEF Asks
<1>9. TypeOK'
  BY <1>1, <1>2, <1>3, <1>6 DEF TypeOK
<1>10. Lives'
  BY <1>1, <1>2, <1>6, <1>8 DEF Lives, Started, InLoop
<1>11. Locks' /\ Sends'
  BY <1>1, <1>2, <1>6 DEF Locks, Sends
<1>12. Asks'
  <2>1. ASSUME NEW i \in 1 .. Len(blocks'), blocks'[i].kind = "clipboard"
        PROVE  /\ i + 1 \in 1 .. Len(blocks) /\ blocks[i + 1].kind = "clipboard"
               /\ channel' = "asks"
    <3>1. i + 1 \in 1 .. Len(blocks) /\ i + 1 # 1 /\ 1 \in 1 .. Len(blocks)
      BY <1>3
    <3>2. blocks[i + 1].kind = "clipboard"
      BY <1>3, <2>1
    <3>3. channel = "asks" /\ blocks[1].kind # "clipboard"
      BY <1>1, <3>1, <3>2 DEF Asks
    <3>. QED BY <1>2, <1>3, <3>1, <3>2, <3>3
  <2>2. ASSUME NEW i \in 1 .. Len(blocks'), NEW j \in 1 .. Len(blocks'),
               blocks'[i].kind = "clipboard", blocks'[j].kind = "clipboard"
        PROVE  i = j
    <3>1. i + 1 = j + 1
      BY <1>1, <2>1, <2>2 DEF Asks
    <3>. QED BY <1>3, <3>1
  <2>. QED BY <2>1, <2>2 DEF Asks
<1>13. Views'
  <2>1. worker \in {"none", "starting", "connecting"} => gdi.buffer = NoGdi
    BY <1>1 DEF Lives, InLoop
  <2>. QED BY <1>1, <1>2, <1>6, <1>7, <2>1 DEF Views, HasGdi
<1>14. Resizes'
  <2>1. worker' \notin {"none", "starting", "connecting"}
    BY <1>1, <1>2 DEF Resizes
  <2>2. ASSUME NEW i \in 1 .. Len(blocks'), blocks'[i].kind = "resize",
               \A j \in i + 1 .. Len(blocks') : blocks'[j].kind # "resize"
        PROVE  blocks'[i].size = gdi'.size \/ worker' = "resized"
               \/ gdi'.buffer \in {NULL, NoGdi}
    <3>1. i + 1 \in 1 .. Len(blocks) /\ blocks'[i] = blocks[i + 1]
      BY <1>3
    <3>2. ASSUME NEW j \in (i + 1) + 1 .. Len(blocks)
          PROVE  blocks[j].kind # "resize"
      <4>1. j - 1 \in i + 1 .. Len(blocks') /\ (j - 1) + 1 = j /\ j - 1 \in 1 .. Len(blocks')
        BY <1>3, <3>2
      <4>2. blocks'[j - 1] = blocks[j]
        BY <1>3, <4>1
      <4>. QED BY <2>2, <4>1, <4>2
    <3>. QED BY <1>1, <1>2, <2>2, <3>1, <3>2 DEF Resizes
  <2>. QED BY <2>1, <2>2 DEF Resizes
<1>15. FrameBufferFollows'
  <2>. SUFFICES ASSUME conn'.frameBuffer.buffer \notin {NULL, Own},
                       ~\E i \in 1 .. Len(blocks') : blocks'[i].kind = "resize",
                       worker' \notin {"resized", "disconnected"},
                       ~(worker' = "over" /\ performed'), gdi'.buffer # NULL
                PROVE  conn'.session /\ conn'.frameBuffer = gdi'
    <3>1. conn'.frameBuffer.buffer \notin {NULL, Own} => conn'.session
      BY <1>13 DEF Views
    <3>. QED BY <3>1 DEF FrameBufferFollows
  <2>1. conn'.session /\ worker \notin {"none", "starting", "connecting"}
    BY <1>2, <1>13 DEF Views
  <2>2. worker \notin {"resized", "disconnected"} /\ ~(worker = "over" /\ performed)
    BY <1>2
  <2>3. worker # "over" /\ HasGdi
    <3>1. conn.session /\ conn.context /\ worker # "over"
      BY <1>1, <1>6, <2>1, <2>2 DEF Views
    <3>2. gdi.buffer # NoGdi
      BY <1>1, <2>1, <2>2, <3>1 DEF Lives, InLoop, TypeOK, Workers
    <3>. QED BY <3>1, <3>2 DEF HasGdi
  <2>4. CASE b.kind = "connected"
    BY <1>2, <1>6, <2>1, <2>3, <2>4
  <2>5. CASE b.kind = "resize"
    <3>1. \A j \in 1 + 1 .. Len(blocks) : blocks[j].kind # "resize"
      <4>1. ASSUME NEW j \in 1 + 1 .. Len(blocks)
            PROVE  blocks[j].kind # "resize"
        <5>1. j - 1 \in 1 .. Len(blocks') /\ (j - 1) + 1 = j
          BY <1>3, <4>1
        <5>. QED BY <1>3, <5>1
      <4>. QED BY <4>1
    <3>2. b.size = gdi.size
      <4>1. gdi.buffer \notin {NULL, NoGdi}
        BY <1>2, <2>3 DEF HasGdi
      <4>. QED BY <1>1, <1>3, <2>5, <2>2, <3>1, <4>1 DEF Resizes
    <3>3. conn'.frameBuffer = [buffer |-> gdi.buffer, size |-> gdi.size]
      BY <1>6, <2>3, <2>5, <3>2
    <3>. QED BY <1>2, <1>4, <2>1, <3>3
  <2>6. CASE b.kind = "clipboard"
    <3>1. conn'.frameBuffer = conn.frameBuffer
      BY <1>6, <2>6
    <3>2. ~\E i \in 1 .. Len(blocks) : blocks[i].kind = "resize"
      <4>1. ASSUME NEW i \in 1 .. Len(blocks), blocks[i].kind = "resize"
            PROVE  FALSE
        <5>1. i # 1
          BY <1>3, <2>6, <4>1
        <5>2. i - 1 \in 1 .. Len(blocks') /\ (i - 1) + 1 = i
          BY <1>3, <5>1
        <5>. QED BY <1>3, <4>1, <5>2
      <4>. QED BY <4>1
    <3>3. conn.frameBuffer = gdi
      BY <1>1, <1>2, <2>3, <2>2, <3>1, <3>2 DEF FrameBufferFollows
    <3>. QED BY <1>2, <2>1, <3>1, <3>3
  <2>. QED BY <1>5, <2>4, <2>5, <2>6
<1>. QED
  BY <1>9, <1>10, <1>11, <1>12, <1>13, <1>14, <1>15 DEF IInv

LEMMA InputInv == IInv /\ Input => IInv'
<1>. SUFFICES ASSUME IInv, Input PROVE IInv'
  OBVIOUS
<1>. USE RDPConnectionAssumption DEF IInv, TypeOK, Input, Locking, Free
<1>1. TypeOK'
  BY DEF Connection, Main, Workers, Blocks, Buffers, NULL, Own
<1>2. Lives'
  BY DEF Lives, Started, InLoop, Locks, Connection, Main, Workers, NULL, NoGdi
<1>3. Locks' /\ Sends'
  BY DEF Locks, Sends, Lives, Started, InLoop, Views, Connection, Main, Workers
<1>4. Asks'
  BY DEF Asks, Lives, Blocks
<1>5. Views'
  BY DEF Views, Lives, Started, InLoop, Connection, Main, Workers, NULL, Own
<1>6. Resizes'
  BY DEF Resizes, Lives, InLoop, Blocks
<1>7. FrameBufferFollows'
  BY DEF FrameBufferFollows, Views, Lives, Started, InLoop, Resizes, Connection, NULL, Own
<1>. QED
  BY <1>1, <1>2, <1>3, <1>4, <1>5, <1>6, <1>7

LEMMA SendPasteboardInv == IInv /\ SendPasteboard => IInv'
<1>. SUFFICES ASSUME IInv, SendPasteboard PROVE IInv'
  OBVIOUS
<1>. USE RDPConnectionAssumption DEF IInv, TypeOK, SendPasteboard, Locking, Free
<1>1. TypeOK'
  BY DEF Connection, Main, Workers, Blocks, Buffers, NULL, Own
<1>2. Lives'
  BY DEF Lives, Started, InLoop, Locks, Connection, Main, Workers, NULL, NoGdi
<1>3. Locks' /\ Sends'
  BY DEF Locks, Sends, Lives, Started, InLoop, Views, Connection, Main, Workers
<1>4. Asks'
  BY DEF Asks, Lives, Blocks
<1>5. Views'
  BY DEF Views, Lives, Started, InLoop, Connection, Main, Workers, NULL, Own
<1>6. Resizes'
  BY DEF Resizes, Lives, InLoop, Blocks
<1>7. FrameBufferFollows'
  BY DEF FrameBufferFollows, Views, Lives, Started, InLoop, Resizes, Connection, NULL, Own
<1>. QED
  BY <1>1, <1>2, <1>3, <1>4, <1>5, <1>6, <1>7

LEMMA PerformDelayedDesktopSizeInv == IInv /\ PerformDelayedDesktopSize => IInv'
<1>. SUFFICES ASSUME IInv, PerformDelayedDesktopSize PROVE IInv'
  OBVIOUS
<1>. USE RDPConnectionAssumption DEF IInv, TypeOK, PerformDelayedDesktopSize, Locking, Free
<1>1. TypeOK'
  <2>1. conn' \in Connection
    BY DEF Connection
  <2>2. main' \in Main /\ worker' \in Workers
    BY DEF Main, Workers
  <2>. QED BY <2>1, <2>2
<1>2. Lives'
  BY DEF Lives, Started, InLoop, Locks, Connection, Main, Workers, NULL, NoGdi
<1>3. Locks' /\ Sends'
  BY DEF Locks, Sends, Lives, Started, InLoop, Views, Connection, Main, Workers
<1>4. Asks'
  BY DEF Asks, Lives, Blocks
<1>5. Views'
  BY DEF Views, Lives, Started, InLoop, Connection, Main, Workers, NULL, Own
<1>6. Resizes'
  BY DEF Resizes, Lives, InLoop, Blocks
<1>7. FrameBufferFollows'
  BY DEF FrameBufferFollows, Views, Lives, Started, InLoop, Resizes, Connection, NULL, Own
<1>. QED
  BY <1>1, <1>2, <1>3, <1>4, <1>5, <1>6, <1>7

LEMMA LockInputInv == IInv /\ LockInput => IInv'
<1>. SUFFICES ASSUME IInv, LockInput PROVE IInv'
  OBVIOUS
<1>. USE RDPConnectionAssumption DEF IInv, TypeOK, LockInput, MaySend
<1>1. TypeOK'
  <2>1. conn' \in Connection
    BY DEF Connection
  <2>2. main' \in Main /\ worker' \in Workers
    BY DEF Main, Workers
  <2>. QED BY <2>1, <2>2
<1>2. Lives'
  BY DEF Lives, Started, InLoop, Locks, Connection, Main, Workers, NULL, NoGdi
<1>3. Locks' /\ Sends'
  <2>1. CASE MaySend
    <3>1. main'.at = "sending" /\ main'.what = main.what /\ lock' = "main" /\ lock = "free"
      BY <2>1 DEF Main
    <3>2. conn.context
      BY <2>1 DEF MaySend, Lives, Started, InLoop, Views, Main, Connection
    <3>3. main.what = "layout" => conn.disp \in {"open", "ready"}
      BY <2>1 DEF MaySend
    <3>. HIDE DEF MaySend
    <3>. QED BY <3>1, <3>2, <3>3 DEF Locks, Sends
  <2>2. CASE ~MaySend
    <3>1. main'.at = "free" /\ lock' = lock /\ lock = "free"
      BY <2>2 DEF Main
    <3>. HIDE DEF MaySend
    <3>. QED BY <3>1 DEF Locks, Sends
  <2>. QED BY <2>1, <2>2
<1>4. Asks'
  BY DEF Asks, Lives, Blocks
<1>5. Views'
  <2>1. main' = [main EXCEPT !.at = "sending"] \/ main' = [main EXCEPT !.at = "free"]
    OBVIOUS
  <2>2. main'.at # "closing" /\ main.at # "closing"
    BY <2>1 DEF Main
  <2>. HIDE DEF MaySend
  <2>. QED BY <2>2 DEF Views
<1>6. Resizes'
  BY DEF Resizes, Lives, InLoop, Blocks
<1>7. FrameBufferFollows'
  BY DEF FrameBufferFollows, Views, Lives, Started, InLoop, Resizes, Connection, NULL, Own
<1>. QED
  BY <1>1, <1>2, <1>3, <1>4, <1>5, <1>6, <1>7

LEMMA SendInv == IInv /\ Send => IInv'
<1>. SUFFICES ASSUME IInv, Send PROVE IInv'
  OBVIOUS
<1>. USE RDPConnectionAssumption DEF IInv, TypeOK, Send
<1>1. TypeOK'
  BY DEF Connection, Main, Workers, Blocks, Buffers, NULL, Own
<1>2. Lives'
  BY DEF Lives, Started, InLoop, Locks, Connection, Main, Workers, NULL, NoGdi
<1>3. Locks' /\ Sends'
  BY DEF Locks, Sends, Lives, Started, InLoop, Views, Connection, Main, Workers
<1>4. Asks'
  BY DEF Asks, Lives, Blocks
<1>5. Views'
  BY DEF Views, Lives, Started, InLoop, Connection, Main, Workers, NULL, Own
<1>6. Resizes'
  BY DEF Resizes, Lives, InLoop, Blocks
<1>7. FrameBufferFollows'
  BY DEF FrameBufferFollows, Views, Lives, Started, InLoop, Resizes, Connection, NULL, Own
<1>. QED
  BY <1>1, <1>2, <1>3, <1>4, <1>5, <1>6, <1>7

LEMMA BeginConnectInv == IInv /\ BeginConnect => IInv'
<1>. SUFFICES ASSUME IInv, BeginConnect PROVE IInv'
  OBVIOUS
<1>. USE RDPConnectionAssumption DEF IInv, TypeOK, BeginConnect, WorkerOnly
<1>1. TypeOK'
  BY DEF Connection, Main, Workers, Blocks, Buffers, NULL, Own
<1>2. Lives'
  BY DEF Lives, Started, InLoop, Locks, Connection, Main, Workers, NULL, NoGdi
<1>3. Locks' /\ Sends'
  BY DEF Locks, Sends, Lives, Started, InLoop, Views, Connection, Main, Workers
<1>4. Asks'
  BY DEF Asks, Lives, Blocks
<1>5. Views'
  BY DEF Views, Lives, Started, InLoop, Connection, Main, Workers, NULL, Own
<1>6. Resizes'
  BY DEF Resizes, Lives, InLoop, Blocks
<1>7. FrameBufferFollows'
  BY DEF FrameBufferFollows, Views, Lives, Started, InLoop, Resizes, Connection, NULL, Own
<1>. QED
  BY <1>1, <1>2, <1>3, <1>4, <1>5, <1>6, <1>7

LEMMA ConnectFailsInv == IInv /\ ConnectFails => IInv'
<1>. SUFFICES ASSUME IInv, ConnectFails PROVE IInv'
  OBVIOUS
<1>. USE RDPConnectionAssumption DEF IInv, TypeOK, ConnectFails, WorkerOnly
<1>1. TypeOK'
  BY DEF Connection, Main, Workers, Blocks, Buffers, NULL, Own
<1>2. Lives'
  BY DEF Lives, Started, InLoop, Locks, Connection, Main, Workers, NULL, NoGdi
<1>3. Locks' /\ Sends'
  BY DEF Locks, Sends, Lives, Started, InLoop, Views, Connection, Main, Workers
<1>4. Asks'
  BY DEF Asks, Lives, Blocks
<1>5. Views'
  BY DEF Views, Lives, Started, InLoop, Connection, Main, Workers, NULL, Own
<1>6. Resizes'
  BY DEF Resizes, Lives, InLoop, Blocks
<1>7. FrameBufferFollows'
  BY DEF FrameBufferFollows, Views, Lives, Started, InLoop, Resizes, Connection, NULL, Own
<1>. QED
  BY <1>1, <1>2, <1>3, <1>4, <1>5, <1>6, <1>7

\* A notice more at the end of the queue.
LEMMA AppendLemma ==
    ASSUME TypeOK, NEW b \in Blocks, blocks' = Append(blocks, b)
    PROVE  /\ blocks' \in Seq(Blocks)
           /\ Len(blocks') = Len(blocks) + 1 /\ Len(blocks) \in Nat
           /\ \A i \in 1 .. Len(blocks) : blocks'[i] = blocks[i]
           /\ blocks'[Len(blocks) + 1] = b
BY DEF TypeOK

LEMMA PostConnectInv == IInv /\ PostConnect => IInv'
<1>. SUFFICES ASSUME IInv, PostConnect PROVE IInv'
  OBVIOUS
<1>. USE RDPConnectionAssumption DEF IInv, TypeOK, PostConnect, WorkerOnly
<1>1. TypeOK'
  <2>1. conn' \in Connection /\ worker' \in Workers
    BY DEF Connection, Workers
  <2>2. [kind |-> "connected"] \in Blocks
    BY DEF Blocks
  <2>3. blocks' \in Seq(Blocks)
    BY <2>2
  <2>4. gdi' \in [buffer : {NoGdi, NULL} \cup Buffers, size : Sizes]
    BY DEF Buffers
  <2>. QED BY <2>1, <2>3, <2>4
<1>2. Lives'
  BY DEF Lives, Started, InLoop, Locks, Connection, Main, Workers, NULL, NoGdi
<1>3. Locks' /\ Sends'
  BY DEF Locks, Sends, Lives, Started, InLoop, Views, Connection, Main, Workers
<1>4. Asks'
  <2>1. blocks = <<>>
    BY DEF Resizes
  <2>2. Len(blocks') = 1 /\ blocks'[1].kind = "connected"
    BY <2>1
  <2>. QED BY <2>2 DEF Asks
<1>5. Views'
  BY DEF Views, Lives, Started, InLoop, Connection, Main, Workers, NULL, Own
<1>6. Resizes'
  BY DEF Resizes, Lives, InLoop, Blocks
<1>7. FrameBufferFollows'
  BY DEF FrameBufferFollows, Views, Lives, Started, InLoop, Resizes, Connection, NULL, Own
<1>. QED
  BY <1>1, <1>2, <1>3, <1>4, <1>5, <1>6, <1>7

LEMMA ConnectedInv == IInv /\ Connected => IInv'
<1>. SUFFICES ASSUME IInv, Connected PROVE IInv'
  OBVIOUS
<1>. USE RDPConnectionAssumption DEF IInv, TypeOK, Connected, WorkerOnly
<1>1. TypeOK'
  <2>1. conn' \in Connection
    BY DEF Connection
  <2>2. main' \in Main /\ worker' \in Workers
    BY DEF Main, Workers
  <2>. QED BY <2>1, <2>2
<1>2. Lives'
  BY DEF Lives, Started, InLoop, Locks, Connection, Main, Workers, NULL, NoGdi
<1>3. Locks' /\ Sends'
  BY DEF Locks, Sends, Lives, Started, InLoop, Views, Connection, Main, Workers
<1>4. Asks'
  BY DEF Asks, Lives, Blocks
<1>5. Views'
  BY DEF Views, Lives, Started, InLoop, Connection, Main, Workers, NULL, Own
<1>6. Resizes'
  BY DEF Resizes, Lives, InLoop, Blocks
<1>7. FrameBufferFollows'
  BY DEF FrameBufferFollows, Views, Lives, Started, InLoop, Resizes, Connection, NULL, Own
<1>. QED
  BY <1>1, <1>2, <1>3, <1>4, <1>5, <1>6, <1>7

LEMMA TestLoopInv == IInv /\ TestLoop => IInv'
<1>. SUFFICES ASSUME IInv, TestLoop PROVE IInv'
  OBVIOUS
<1>. USE RDPConnectionAssumption DEF IInv, TypeOK, TestLoop, WorkerOnly
<1>1. TypeOK'
  BY DEF Connection, Main, Workers, Blocks, Buffers, NULL, Own
<1>2. Lives'
  BY DEF Lives, Started, InLoop, Locks, Connection, Main, Workers, NULL, NoGdi
<1>3. Locks' /\ Sends'
  BY DEF Locks, Sends, Lives, Started, InLoop, Views, Connection, Main, Workers
<1>4. Asks'
  BY DEF Asks, Lives, Blocks
<1>5. Views'
  BY DEF Views, Lives, Started, InLoop, Connection, Main, Workers, NULL, Own
<1>6. Resizes'
  BY DEF Resizes, Lives, InLoop, Blocks
<1>7. FrameBufferFollows'
  BY DEF FrameBufferFollows, Views, Lives, Started, InLoop, Resizes, Connection, NULL, Own
<1>. QED
  BY <1>1, <1>2, <1>3, <1>4, <1>5, <1>6, <1>7

LEMMA CheckBeginsInv == IInv /\ CheckBegins => IInv'
<1>. SUFFICES ASSUME IInv, CheckBegins PROVE IInv'
  OBVIOUS
<1>. USE RDPConnectionAssumption DEF IInv, TypeOK, CheckBegins, WorkerOnly
<1>1. TypeOK'
  BY DEF Connection, Main, Workers, Blocks, Buffers, NULL, Own
<1>2. Lives'
  BY DEF Lives, Started, InLoop, Locks, Connection, Main, Workers, NULL, NoGdi
<1>3. Locks' /\ Sends'
  BY DEF Locks, Sends, Lives, Started, InLoop, Views, Connection, Main, Workers
<1>4. Asks'
  BY DEF Asks, Lives, Blocks
<1>5. Views'
  BY DEF Views, Lives, Started, InLoop, Connection, Main, Workers, NULL, Own
<1>6. Resizes'
  BY DEF Resizes, Lives, InLoop, Blocks
<1>7. FrameBufferFollows'
  BY DEF FrameBufferFollows, Views, Lives, Started, InLoop, Resizes, Connection, NULL, Own
<1>. QED
  BY <1>1, <1>2, <1>3, <1>4, <1>5, <1>6, <1>7

LEMMA GdiResizeInv == IInv /\ GdiResize => IInv'
<1>. SUFFICES ASSUME IInv, GdiResize PROVE IInv'
  OBVIOUS
<1>. USE RDPConnectionAssumption DEF IInv, TypeOK, GdiResize, WorkerOnly
<1>1. PICK size \in Sizes :
         \/ /\ gdi' = [buffer |-> gdi.buffer + 1, size |-> size]
            /\ worker' = "resized"
         \/ gdi' = [buffer |-> NULL, size |-> size] /\ worker' = "checking"
  <2>1. (Unasked \cup {asked}) \ {NoSize, gdi.size} \subseteq Sizes
    OBVIOUS
  <2>. QED BY <2>1
<1>2. /\ gdi'.buffer \in {NULL} \cup Buffers /\ gdi'.buffer # NoGdi
      /\ gdi' \in [buffer : {NoGdi, NULL} \cup Buffers, size : Sizes]
  <2>1. gdi.buffer \in Nat /\ gdi.buffer + 1 \in Buffers
    BY DEF Buffers
  <2>2. \A n \in Buffers : n # NoGdi
    BY DEF Buffers, NoGdi
  <2>. QED BY <1>1, <2>1, <2>2 DEF NULL, NoGdi
<1>3. TypeOK'
  BY <1>1, <1>2 DEF Workers
<1>4. Lives'
  BY <1>1, <1>2 DEF Lives, Started, InLoop
<1>5. Locks' /\ Sends'
  BY <1>1 DEF Locks, Sends, Lives, Started, InLoop, Views, Connection, Main, Workers
<1>6. Asks'
  BY DEF Asks, Lives, Blocks
<1>7. Views'
  BY <1>1 DEF Views, Lives, Started, InLoop, Connection, Main, Workers, NULL, Own
<1>8. Resizes'
  BY <1>1 DEF Resizes, Lives, InLoop, Blocks
<1>9. FrameBufferFollows'
  BY <1>1 DEF FrameBufferFollows, Views, Lives, Started, InLoop, Resizes, Connection, NULL, Own
<1>. QED
  BY <1>3, <1>4, <1>5, <1>6, <1>7, <1>8, <1>9

LEMMA DesktopResizeInv == IInv /\ DesktopResize => IInv'
<1>. SUFFICES ASSUME IInv, DesktopResize PROVE IInv'
  OBVIOUS
<1>. USE RDPConnectionAssumption DEF IInv, TypeOK, DesktopResize, WorkerOnly
<1>1. TypeOK'
  BY DEF Connection, Main, Workers, Blocks, Buffers, NULL, Own
<1>2. Lives'
  BY DEF Lives, Started, InLoop, Locks, Connection, Main, Workers, NULL, NoGdi
<1>3. Locks' /\ Sends'
  BY DEF Locks, Sends, Lives, Started, InLoop, Views, Connection, Main, Workers
<1>4. Asks'
  BY DEF Asks, Lives, Blocks
<1>5. Views'
  BY DEF Views, Lives, Started, InLoop, Connection, Main, Workers, NULL, Own
<1>6. Resizes'
  <2>. DEFINE b == [kind |-> "resize", size |-> gdi.size]
  <2>1. b \in Blocks
    BY DEF Blocks
  <2>2. blocks' = Append(blocks, b)
    OBVIOUS
  <2>3. b.kind = "resize" /\ b.size = gdi'.size
    OBVIOUS
  <2>. HIDE DEF b
  <2>4. ASSUME NEW i \in 1 .. Len(blocks'), blocks'[i].kind = "resize",
               \A j \in i + 1 .. Len(blocks') : blocks'[j].kind # "resize"
        PROVE  blocks'[i].size = gdi'.size
    <3>. HIDE DEF DesktopResize, IInv
    <3>1. /\ Len(blocks') = Len(blocks) + 1 /\ Len(blocks) \in Nat
          /\ blocks'[Len(blocks) + 1] = b
      BY <2>1, <2>2, AppendLemma
    <3>2. i = Len(blocks) + 1
      BY <2>3, <2>4, <3>1
    <3>. QED BY <2>3, <3>1, <3>2
  <2>5. worker' = "checking"
    OBVIOUS
  <2>. QED BY <2>4, <2>5 DEF Resizes
<1>7. FrameBufferFollows'
  BY DEF FrameBufferFollows, Views, Lives, Started, InLoop, Resizes, Connection, NULL, Own
<1>. QED
  BY <1>1, <1>2, <1>3, <1>4, <1>5, <1>6, <1>7

LEMMA DispChannelInv == IInv /\ DispChannel => IInv'
<1>. SUFFICES ASSUME IInv, DispChannel PROVE IInv'
  OBVIOUS
<1>. USE RDPConnectionAssumption DEF IInv, TypeOK, DispChannel, WorkerOnly
<1>1. TypeOK'
  BY DEF Connection, Main, Workers, Blocks, Buffers, NULL, Own
<1>2. Lives'
  BY DEF Lives, Started, InLoop, Locks, Connection, Main, Workers, NULL, NoGdi
<1>3. Locks' /\ Sends'
  BY DEF Locks, Sends, Lives, Started, InLoop, Views, Connection, Main, Workers
<1>4. Asks'
  BY DEF Asks, Lives, Blocks
<1>5. Views'
  BY DEF Views, Lives, Started, InLoop, Connection, Main, Workers, NULL, Own
<1>6. Resizes'
  BY DEF Resizes, Lives, InLoop, Blocks
<1>7. FrameBufferFollows'
  BY DEF FrameBufferFollows, Views, Lives, Started, InLoop, Resizes, Connection, NULL, Own
<1>. QED
  BY <1>1, <1>2, <1>3, <1>4, <1>5, <1>6, <1>7

LEMMA CheckEndsInv == IInv /\ CheckEnds => IInv'
<1>. SUFFICES ASSUME IInv, CheckEnds PROVE IInv'
  OBVIOUS
<1>. USE RDPConnectionAssumption DEF IInv, TypeOK, CheckEnds, WorkerOnly
<1>1. TypeOK'
  BY DEF Connection, Main, Workers, Blocks, Buffers, NULL, Own
<1>2. Lives'
  BY DEF Lives, Started, InLoop, Locks, Connection, Main, Workers, NULL, NoGdi
<1>3. Locks' /\ Sends'
  BY DEF Locks, Sends, Lives, Started, InLoop, Views, Connection, Main, Workers
<1>4. Asks'
  BY DEF Asks, Lives, Blocks
<1>5. Views'
  BY DEF Views, Lives, Started, InLoop, Connection, Main, Workers, NULL, Own
<1>6. Resizes'
  BY DEF Resizes, Lives, InLoop, Blocks
<1>7. FrameBufferFollows'
  BY DEF FrameBufferFollows, Views, Lives, Started, InLoop, Resizes, Connection, NULL, Own
<1>. QED
  BY <1>1, <1>2, <1>3, <1>4, <1>5, <1>6, <1>7

LEMMA DisconnectInv == IInv /\ Disconnect => IInv'
<1>. SUFFICES ASSUME IInv, Disconnect PROVE IInv'
  OBVIOUS
<1>. USE RDPConnectionAssumption DEF IInv, TypeOK, Disconnect, WorkerOnly
<1>1. TypeOK'
  <2>1. conn' \in Connection
    BY DEF Connection
  <2>2. main' \in Main /\ worker' \in Workers
    BY DEF Main, Workers
  <2>3. gdi' \in [buffer : {NoGdi, NULL} \cup Buffers, size : Sizes]
    OBVIOUS
  <2>. QED BY <2>1, <2>2, <2>3
<1>2. Lives'
  BY DEF Lives, Started, InLoop, Locks, Connection, Main, Workers, NULL, NoGdi
<1>3. Locks' /\ Sends'
  BY DEF Locks, Sends, Lives, Started, InLoop, Views, Connection, Main, Workers
<1>4. Asks'
  BY DEF Asks, Lives, Blocks
<1>5. Views'
  BY DEF Views, Lives, Started, InLoop, Connection, Main, Workers, NULL, Own
<1>6. Resizes'
  BY DEF Resizes, Lives, InLoop, Blocks
<1>7. FrameBufferFollows'
  BY DEF FrameBufferFollows, Views, Lives, Started, InLoop, Resizes, Connection, NULL, Own
<1>. QED
  BY <1>1, <1>2, <1>3, <1>4, <1>5, <1>6, <1>7

LEMMA DisconnectedInv == IInv /\ Disconnected => IInv'
<1>. SUFFICES ASSUME IInv, Disconnected PROVE IInv'
  OBVIOUS
<1>. USE RDPConnectionAssumption DEF IInv, TypeOK, Disconnected, WorkerOnly
<1>1. TypeOK'
  <2>1. conn' \in Connection
    BY DEF Connection
  <2>2. main' \in Main /\ worker' \in Workers
    BY DEF Main, Workers
  <2>3. gdi' \in [buffer : {NoGdi, NULL} \cup Buffers, size : Sizes]
    OBVIOUS
  <2>. QED BY <2>1, <2>2, <2>3
<1>2. Lives'
  BY DEF Lives, Started, InLoop, Locks, Connection, Main, Workers, NULL, NoGdi
<1>3. Locks' /\ Sends'
  BY DEF Locks, Sends, Lives, Started, InLoop, Views, Connection, Main, Workers
<1>4. Asks'
  BY DEF Asks, Lives, Blocks
<1>5. Views'
  BY DEF Views, Lives, Started, InLoop, Connection, Main, Workers, NULL, Own
<1>6. Resizes'
  BY DEF Resizes, Lives, InLoop, Blocks
<1>7. FrameBufferFollows'
  BY DEF FrameBufferFollows, Views, Lives, Started, InLoop, Resizes, Connection, NULL, Own
<1>. QED
  BY <1>1, <1>2, <1>3, <1>4, <1>5, <1>6, <1>7

LEMMA MonitorReadyInv == IInv /\ MonitorReady => IInv'
<1>. SUFFICES ASSUME IInv, MonitorReady PROVE IInv'
  OBVIOUS
<1>. USE RDPConnectionAssumption DEF IInv, TypeOK, MonitorReady
<1>1. TypeOK'
  BY DEF Connection, Main, Workers, Blocks, Buffers, NULL, Own
<1>2. Lives'
  BY DEF Lives, Started, InLoop, Locks, Connection, Main, Workers, NULL, NoGdi
<1>3. Locks' /\ Sends'
  BY DEF Locks, Sends, Lives, Started, InLoop, Views, Connection, Main, Workers
<1>4. Asks'
  BY DEF Asks, Lives, Blocks
<1>5. Views'
  BY DEF Views, Lives, Started, InLoop, Connection, Main, Workers, NULL, Own
<1>6. Resizes'
  BY DEF Resizes, Lives, InLoop, Blocks
<1>7. FrameBufferFollows'
  BY DEF FrameBufferFollows, Views, Lives, Started, InLoop, Resizes, Connection, NULL, Own
<1>. QED
  BY <1>1, <1>2, <1>3, <1>4, <1>5, <1>6, <1>7

LEMMA ClipboardDataInv == IInv /\ ClipboardData => IInv'
<1>. SUFFICES ASSUME IInv, ClipboardData PROVE IInv'
  OBVIOUS
<1>. USE RDPConnectionAssumption DEF IInv, TypeOK, ClipboardData
<1>1. TypeOK'
  BY DEF Connection, Main, Workers, Blocks, Buffers, NULL, Own
<1>2. Lives'
  BY DEF Lives, Started, InLoop, Locks, Connection, Main, Workers, NULL, NoGdi
<1>3. Locks' /\ Sends'
  BY DEF Locks, Sends, Lives, Started, InLoop, Views, Connection, Main, Workers
<1>4. Asks'
  BY DEF Asks, Lives, Blocks
<1>5. Views'
  BY DEF Views, Lives, Started, InLoop, Connection, Main, Workers, NULL, Own
<1>6. Resizes'
  BY DEF Resizes, Lives, InLoop, Blocks
<1>7. FrameBufferFollows'
  BY DEF FrameBufferFollows, Views, Lives, Started, InLoop, Resizes, Connection, NULL, Own
<1>. QED
  BY <1>1, <1>2, <1>3, <1>4, <1>5, <1>6, <1>7

LEMMA ChooseInv == ASSUME NEW size \in Sizes PROVE IInv /\ Choose(size) => IInv'
<1>. SUFFICES ASSUME IInv, Choose(size) PROVE IInv'
  OBVIOUS
<1>. USE RDPConnectionAssumption DEF IInv, TypeOK, Choose, Free
<1>1. TypeOK'
  <2>1. conn' \in Connection
    BY DEF Connection
  <2>2. window' \in [size : Sizes \cup {NoSize}, choices : 0 .. MaxChoices]
    <3>1. window.choices \in 0 .. MaxChoices /\ window.choices < MaxChoices
      OBVIOUS
    <3>2. window.choices + 1 \in 0 .. MaxChoices
      BY <3>1
    <3>3. window' = [size |-> size, choices |-> window.choices + 1]
      OBVIOUS
    <3>. QED BY <3>2, <3>3
  <2>. QED BY <2>1, <2>2
<1>2. Lives'
  BY DEF Lives, Started, InLoop, Locks, Connection, Main, Workers, NULL, NoGdi
<1>3. Locks' /\ Sends'
  BY DEF Locks, Sends, Lives, Started, InLoop, Views, Connection, Main, Workers
<1>4. Asks'
  BY DEF Asks, Lives, Blocks
<1>5. Views'
  BY DEF Views, Lives, Started, InLoop, Connection, Main, Workers, NULL, Own
<1>6. Resizes'
  BY DEF Resizes, Lives, InLoop, Blocks
<1>7. FrameBufferFollows'
  BY DEF FrameBufferFollows, Views, Lives, Started, InLoop, Resizes, Connection, NULL, Own
<1>. QED
  BY <1>1, <1>2, <1>3, <1>4, <1>5, <1>6, <1>7

-----------------------------------------------------------------------------

\* Every step of the three threads keeps the invariant.
LEMMA NextInv == IInv /\ [Next]_vars => IInv'
<1>. SUFFICES ASSUME IInv, [Next]_vars PROVE IInv'
  OBVIOUS
<1>1. CASE UNCHANGED vars
  BY <1>1 DEF vars, IInv, TypeOK, Lives, Started, InLoop, Locks, Sends, Asks,
              Views, Resizes, FrameBufferFollows
<1>2. CASE Next
  BY <1>2, StartInv, SessionClosesInv, NotifyDisconnectedInv,
     CloseEndsInv, MainBlockInv, InputInv, SendPasteboardInv,
     PerformDelayedDesktopSizeInv, LockInputInv, SendInv, ChooseInv,
     BeginConnectInv, ConnectFailsInv, PostConnectInv, ConnectedInv,
     TestLoopInv, CheckBeginsInv, GdiResizeInv, DesktopResizeInv,
     DispChannelInv, CheckEndsInv, DisconnectInv, DisconnectedInv,
     MonitorReadyInv, ClipboardDataInv DEF Next
<1>. QED
  BY <1>1, <1>2

\* The inductive invariant holds in every reachable state.
THEOREM Invariance == Spec => []IInv
BY InitInv, NextInv, PTL DEF Spec

\* The fields of RDPConnection and the states of its threads have their types.
THEOREM TypeCorrect == Spec => []TypeOK
<1>1. IInv => TypeOK BY DEF IInv
<1>. QED BY <1>1, Invariance, PTL

LEMMA InvContext == IInv => ContextOutlivesUse
BY DEF IInv, Lives, Started, InLoop, Sends, ContextOutlivesUse

\* closeConnection frees the client context only when the worker, the channel's
\* thread and the main thread's own calls are done with it.
THEOREM ContextIsSafe == Spec => []ContextOutlivesUse
BY InvContext, Invariance, PTL

LEMMA InvSends == IInv => SendsAreSynchronized
BY DEF IInv, Locks, Sends, SendsAreSynchronized

\* Under inputLock, the main thread never sends while the worker checks its
\* handles, nor a layout on a channel that has closed.
THEOREM SendsExclude == Spec => []SendsAreSynchronized
BY InvSends, Invariance, PTL

\* However resizes, their notices, the connection and its end interleave, the
\* view draws from the frame buffer of FreeRDP, or is about to be told, or a
\* resize has failed, of which it is not told.
THEOREM ViewFollows == Spec => []FrameBufferFollows
<1>1. IInv => FrameBufferFollows BY DEF IInv
<1>. QED BY <1>1, Invariance, PTL
=============================================================================
